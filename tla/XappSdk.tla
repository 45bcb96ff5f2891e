-------------------------------- MODULE XappSdk --------------------------------
(***************************************************************************)
(* An xApp built on the SDK (ran/ric/xapp_sdk.py) and the Near-RT RIC it    *)
(* calls.  start() registers, opens the callback server and subscribes to   *)
(* node after node; stop() unsubscribes from what the dictionary lists and   *)
(* unregisters.  Both are one coroutine of the owner; indications arrive all *)
(* the while, and the handler of each sends a control per subscription       *)
(* while it iterates over that dictionary.  A call that times out can still  *)
(* reach the RIC.                                                          *)
(***************************************************************************)
EXTENDS Integers, Sequences, FiniteSets, SequencesExt

CONSTANTS
  MaxSubs,      \* bound: E2 nodes to subscribe to, at most 5 (see EntryAt)
  Rounds,       \* slots for indications handled at a time
  Deleted       \* the hole a deleted key leaves in the dictionary

ASSUME XappSdkAssumption == MaxSubs \in 1..5 /\ Deleted \notin 1..MaxSubs

SubIds == 1..MaxSubs
NoCall == [kind |-> "none", id |-> 0, seen |-> FALSE, ok |-> FALSE]

VARIABLES
  owner,        \* where start() or stop() stands
  xappKnown,    \* xapp_id is set
  nodesLeft,    \* nodes on_start has still to subscribe to
  sdkSubs,      \* the entries of subscriptions, in the order of insertion
  victims,      \* what stop()'s list still holds
  sdkCall,      \* the HTTP call the owner awaits
  late,         \* requests the owner gave up on before the RIC had handled them
  round,        \* the control round of each indication
  ricSubs,      \* the RIC's subscriptions of this xApp
  ricKnows,     \* the xApp is in the RIC's xapps
  cleanup,      \* deletions unregister_xapp has scheduled
  lost,         \* history: subscriptions whose answer the owner did not see
  unseen,       \* history: deletions the RIC made and the owner did not see
  afterwards    \* history: subscriptions the RIC stored after the unregistration

ricSide  == <<ricSubs, ricKnows, cleanup, afterwards>>
sdkVars  == <<owner, xappKnown, nodesLeft, sdkSubs, victims, sdkCall, late, round,
              ricSide, lost, unseen>>

Listed == Range(sdkSubs) \ {Deleted}
Idle   == [at |-> "idle", next |-> 1, size |-> 0, owed |-> {}, sent |-> {}]

SdkInit ==
  /\ owner = "new" /\ xappKnown = FALSE /\ nodesLeft = 0 /\ sdkSubs = <<>> /\ victims = <<>>
  /\ sdkCall = NoCall /\ late = {} /\ round = [r \in Rounds |-> Idle]
  /\ ricSubs = {} /\ ricKnows = FALSE /\ cleanup = {}
  /\ lost = {} /\ unseen = {} /\ afterwards = {}

Called(kind, i) == sdkCall' = [kind |-> kind, id |-> i, seen |-> FALSE, ok |-> FALSE]

-----------------------------------------------------------------------------
(* The owner: start() and stop() *)

Start ==
  /\ owner = "new" /\ owner' = "registering" /\ Called("register", 0)
  /\ UNCHANGED <<xappKnown, nodesLeft, sdkSubs, victims, late, round, ricSide, lost, unseen>>

\* on_start, whatever became of the registration; the list of nodes is empty
\* when the RIC does not answer.
ListNodes ==
  /\ owner = "listing" /\ sdkCall = NoCall /\ owner' = "subscribing"
  /\ \E n \in 0..MaxSubs : nodesLeft' = n
  /\ UNCHANGED <<xappKnown, sdkSubs, victims, sdkCall, late, round, ricSide, lost, unseen>>

Subscribe ==
  /\ owner = "subscribing" /\ sdkCall = NoCall /\ nodesLeft > 0
  /\ nodesLeft' = nodesLeft - 1 /\ Called("subscribe", nodesLeft)
  /\ UNCHANGED <<owner, xappKnown, sdkSubs, victims, late, round, ricSide, lost, unseen>>

Started ==
  /\ owner = "subscribing" /\ sdkCall = NoCall /\ nodesLeft = 0 /\ owner' = "started"
  /\ UNCHANGED <<xappKnown, nodesLeft, sdkSubs, victims, sdkCall, late, round, ricSide, lost, unseen>>

\* A copy of the keys, made before the first of them is deleted.
Stop ==
  /\ owner = "started" /\ owner' = "stopping" /\ victims' = sdkSubs
  /\ UNCHANGED <<xappKnown, nodesLeft, sdkSubs, sdkCall, late, round, ricSide, lost, unseen>>

Unsubscribe ==
  /\ owner = "stopping" /\ sdkCall = NoCall /\ victims # <<>>
  /\ Called("unsubscribe", Head(victims)) /\ victims' = Tail(victims)
  /\ UNCHANGED <<owner, xappKnown, nodesLeft, sdkSubs, late, round, ricSide, lost, unseen>>

Unregister ==
  /\ owner = "stopping" /\ sdkCall = NoCall /\ victims = <<>>
  /\ IF xappKnown THEN owner' = "unregistering" /\ Called("unregister", 0)
                  ELSE owner' = "stopped" /\ UNCHANGED sdkCall
  /\ UNCHANGED <<xappKnown, nodesLeft, sdkSubs, victims, late, round, ricSide, lost, unseen>>

Resumed == CASE owner = "registering"   -> "listing"
             [] owner = "unregistering" -> "stopped"
             [] OTHER -> owner

\* The answer is there: a success registers, lists or removes; any other status does not.
SdkAnswered ==
  /\ sdkCall.seen /\ sdkCall' = NoCall /\ owner' = Resumed
  /\ xappKnown' = (xappKnown \/ sdkCall.kind = "register")
  /\ sdkSubs' = CASE sdkCall.kind = "subscribe" /\ sdkCall.ok -> Append(sdkSubs, sdkCall.id)
                  [] sdkCall.kind = "unsubscribe" /\ sdkCall.ok
                       -> [n \in DOMAIN sdkSubs |-> IF sdkSubs[n] = sdkCall.id THEN Deleted ELSE sdkSubs[n]]
                  [] OTHER -> sdkSubs
  /\ UNCHANGED <<nodesLeft, victims, late, round, ricSide, lost, unseen>>

\* RequestError after five seconds: nothing is listed and nothing removed.
SdkTimesOut ==
  /\ sdkCall # NoCall /\ sdkCall' = NoCall /\ owner' = Resumed
  /\ late' = IF sdkCall.seen THEN late ELSE late \cup {sdkCall}
  /\ lost' = IF sdkCall.kind = "subscribe" THEN lost \cup {sdkCall.id} ELSE lost
  /\ unseen' = IF sdkCall.kind = "unsubscribe" THEN unseen \cup {sdkCall.id} ELSE unseen
  /\ UNCHANGED <<xappKnown, nodesLeft, sdkSubs, victims, round, ricSide>>

-----------------------------------------------------------------------------
(* The RIC *)

\* unregister_xapp: 404 for an xApp it does not know, else it schedules the
\* deletion of every subscription that names the xApp as its owner.
UnregisterXapp ==
  /\ ricKnows' = FALSE
  /\ cleanup' = IF ricKnows /\ xappKnown THEN cleanup \cup ricSubs ELSE cleanup

\* What a request does, and whether its answer is a success.
Handled(c, ok) ==
  CASE c.kind = "register" ->
         ok /\ ricKnows' = TRUE /\ UNCHANGED <<ricSubs, cleanup, afterwards>>
    [] c.kind = "subscribe" ->      \* 404 or 400 stores nothing
         /\ ricSubs' = IF ok THEN ricSubs \cup {c.id} ELSE ricSubs
         /\ afterwards' = IF ok /\ owner \in {"unregistering", "stopped"} /\ ~ricKnows THEN afterwards \cup {c.id} ELSE afterwards
         /\ UNCHANGED <<ricKnows, cleanup>>
    [] c.kind = "unsubscribe" ->
         ok = (c.id \in ricSubs) /\ ricSubs' = ricSubs \ {c.id}
         /\ UNCHANGED <<ricKnows, cleanup, afterwards>>
    [] c.kind = "unregister" ->
         ok = ricKnows /\ UnregisterXapp /\ UNCHANGED <<ricSubs, afterwards>>

RicHandlesCall ==
  /\ sdkCall # NoCall /\ ~sdkCall.seen
  /\ \E ok \in BOOLEAN : Handled(sdkCall, ok) /\ sdkCall' = [sdkCall EXCEPT !.seen = TRUE, !.ok = ok]
  /\ UNCHANGED <<owner, xappKnown, nodesLeft, sdkSubs, victims, late, round, lost, unseen>>

RicHandlesLate(c) ==
  /\ c \in late /\ late' = late \ {c} /\ \E ok \in BOOLEAN : Handled(c, ok)
  /\ UNCHANGED <<owner, xappKnown, nodesLeft, sdkSubs, victims, sdkCall, round, lost, unseen>>

RequestNeverArrives(c) ==
  /\ c \in late /\ late' = late \ {c}
  /\ UNCHANGED <<owner, xappKnown, nodesLeft, sdkSubs, victims, sdkCall, round, ricSide, lost, unseen>>

\* A deletion unregister_xapp scheduled is carried out.
CleansUp(i) ==
  /\ i \in cleanup /\ cleanup' = cleanup \ {i} /\ ricSubs' = ricSubs \ {i}
  /\ UNCHANGED <<owner, xappKnown, nodesLeft, sdkSubs, victims, sdkCall, late, round,
                 ricKnows, lost, unseen, afterwards>>

-----------------------------------------------------------------------------
(* Indications *)

\* The RIC forwards an indication to an xApp it knows, whose callback server is
\* never closed; one above the threshold, with a cell to hand over to, opens a round.
IndicationArrives(r) ==
  /\ round[r].at = "idle" /\ ricKnows /\ ricSubs # {} /\ owner # "new"
  /\ round' = [round EXCEPT ![r] = [at |-> "sending", next |-> 1, size |-> Cardinality(Listed),
                                    owed |-> Listed, sent |-> {}]]
  /\ UNCHANGED <<owner, xappKnown, nodesLeft, sdkSubs, victims, sdkCall, late, ricSide, lost, unseen>>

\* mutated form: the round walks over the list as it is by now
EntryAtCompacted(n) ==
  LET rest == SelectSeq(sdkSubs, LAMBDA i : i # Deleted)
  IN  IF n <= Len(rest) THEN [id |-> rest[n], next |-> n + 1] ELSE [id |-> Deleted, next |-> n]

\* The dictionary's iterator goes over the entries by position and skips the holes;
\* five insertions fit before the entries are moved.
EntryAt(n) ==
  LET rest == {k \in n..Len(sdkSubs) : sdkSubs[k] # Deleted}
  IN  IF rest = {} THEN [id |-> Deleted, next |-> n]
      ELSE LET k == CHOOSE k \in rest : \A j \in rest : k <= j
           IN  [id |-> sdkSubs[k], next |-> k + 1]

\* dictionary changed size during iteration
SizeChanged(r) == Cardinality(Listed) # round[r].size

\* The next control of _trigger_handover, which awaits its answer (or gives up on
\* it after a second); the round ends with the last entry, or with a RuntimeError.
NextControl(r) ==
  LET e == EntryAt(round[r].next) IN
  /\ round[r].at = "sending"
  /\ round' = [round EXCEPT ![r] =
       CASE SizeChanged(r)    -> [@ EXCEPT !.at = "raised"]
         [] ~SizeChanged(r) /\ e.id = Deleted -> [@ EXCEPT !.at = "done"]
         [] OTHER -> [round[r] EXCEPT !.sent = @ \cup {e.id}, !.next = e.next]]
  /\ UNCHANGED <<owner, xappKnown, nodesLeft, sdkSubs, victims, sdkCall, late, ricSide, lost, unseen>>

RoundOver(r) ==
  /\ round[r].at \in {"done", "raised"} /\ round' = [round EXCEPT ![r] = Idle]
  /\ UNCHANGED <<owner, xappKnown, nodesLeft, sdkSubs, victims, sdkCall, late, ricSide, lost, unseen>>

-----------------------------------------------------------------------------
SdkProgress == ListNodes \/ Subscribe \/ Started \/ Unsubscribe \/ Unregister \/ SdkAnswered \/ SdkTimesOut

SdkNext ==
  \/ Start \/ Stop \/ SdkProgress \/ RicHandlesCall
  \/ \E c \in late : RicHandlesLate(c) \/ RequestNeverArrives(c)
  \/ \E i \in cleanup : CleansUp(i)
  \/ \E r \in Rounds : IndicationArrives(r) \/ NextControl(r) \/ RoundOver(r)

RoundStates == [at : {"idle", "sending", "done", "raised"}, next : 1..MaxSubs + 1, size : 0..MaxSubs,
                owed : SUBSET SubIds, sent : SUBSET SubIds]
SdkCalls == [kind : {"register", "subscribe", "unsubscribe", "unregister"}, id : 0..MaxSubs,
             seen : BOOLEAN, ok : BOOLEAN]

\* Types of the xApp's and the RIC's state; a key is inserted once at most.
SdkTypeOK ==
  /\ owner \in {"new", "registering", "listing", "subscribing", "started", "stopping",
                "unregistering", "stopped"}
  /\ xappKnown \in BOOLEAN /\ ricKnows \in BOOLEAN /\ nodesLeft \in 0..MaxSubs
  /\ sdkSubs \in Seq(SubIds \cup {Deleted}) /\ Len(sdkSubs) <= MaxSubs /\ victims \in Seq(SubIds)
  /\ sdkCall \in SdkCalls \cup {NoCall} /\ late \subseteq SdkCalls
  /\ round \in [Rounds -> RoundStates]
  /\ {ricSubs, cleanup, lost, unseen, afterwards} \subseteq SUBSET SubIds

\* What the SDK lists, the RIC has, unless a deletion's answer was not seen or the
\* RIC is through with its clean-up; and what the RIC has under the xApp, the SDK
\* lists, is still to be told of, or was never told of (xapp_sdk.py:267-305 with
\* near_rt_ric.py:405 and 432).
SdkAndRicAgree ==
  /\ Listed \subseteq ricSubs \cup unseen \cup (IF ricKnows THEN {} ELSE SubIds)
                      \cup {i \in SubIds : sdkCall.kind = "unsubscribe" /\ sdkCall.id = i /\ sdkCall.seen}
  /\ ricSubs \subseteq Listed \cup lost
                       \cup {i \in SubIds : sdkCall.kind = "subscribe" /\ sdkCall.id = i /\ sdkCall.seen}

\* A round of controls that comes to its end has reached every subscription the
\* xApp had all the while, however subscriptions came and went between the controls
\* (xapp_sdk.py:507-519 iterates over the dictionary across awaits).
RoundsReachTheirSubscriptions ==
  \A r \in Rounds : round[r].at = "done" => round[r].owed \cap Listed \subseteq round[r].sent

\* Once stop() is over for an xApp the RIC knew, and the RIC was told, the RIC
\* keeps nothing of it but what it is still cleaning up and what reached it later
\* (near_rt_ric.py:582-594 after xapp_sdk.py:140-154).
StopLeavesNothing ==
  owner = "stopped" /\ xappKnown /\ ~ricKnows => ricSubs \subseteq cleanup \cup afterwards

\* stop() comes to its end, whatever the RIC answers or fails to answer.
XappStops == owner = "stopping" ~> owner = "stopped"
=============================================================================
