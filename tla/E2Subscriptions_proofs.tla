----------------------- MODULE E2Subscriptions_proofs -----------------------
(***************************************************************************)
(* Proofs about E2Subscriptions, for any number of nodes, xApps, requests  *)
(* and restarts.  The inductive invariant says in which order the calls of *)
(* a subscription can stand and what a message on its way allows one to    *)
(* conclude about the RIC and about the node.                              *)
(***************************************************************************)
EXTENDS E2Subscriptions, TLAPS

\* A creation comes before any deletion, a deletion that got through before
\* its rival, and the entry of the dictionary lives in between.
CallsInOrder ==
  \A i \in Ids :
    /\ object[i] = NoSub <=> i >= counter
    /\ object[i] = NoSub <=> call[i]["create"] = "idle"
    /\ call[i]["create"] \in {"idle", "waiting", "ended"}
    /\ i \in subscriptions => call[i]["create"] = "ended"
    /\ \A c \in Deletions : call[i][c] # "idle" => call[i]["create"] = "ended"

\* Only the owner's unregistration, which happens once, schedules a cleanup.
CleanupsAreOwned ==
  /\ xapps \cap gone = {}
  /\ \A i \in Ids : call[i]["cleanup"] # "idle" => object[i].owner \in gone

\* A request or answer about a creation belongs to a creation that waits, but
\* for the request of one that ended unanswered; one about a deletion to a
\* deletion that waits, or whose entry has gone.
MailIsCurrent ==
  \A m \in net :
    /\ object[m.id] # NoSub
    /\ m.node = object[m.id].node
    /\ m.kind = "refused" => m.call = "create"
    /\ m.call = "create" /\ (m.kind # "request" \/ m.id \notin unanswered) =>
         call[m.id]["create"] = "waiting"
    /\ m.call \in Deletions =>
         /\ call[m.id]["create"] = "ended"
         /\ call[m.id][m.call] = "waiting" \/ m.id \notin subscriptions

\* About one creation one message is on its way: the request or its answer.
AnsweredOnce ==
  \A m1, m2 \in net :
    m1.call = "create" /\ m2.call = "create" /\ m1.id = m2.id => m1 = m2

\* What an acknowledgement on its way says of the node's entries.
AnswersAreTrue ==
  \A m \in net :
    m.kind = "accepted" =>
      /\ m.call = "create" /\ m.id \notin dropped =>
           m.id \in held[m.node] /\ m.id \in reporters[m.node]
      /\ m.call \in Deletions /\ m.id \notin unanswered =>
           \A n \in Nodes : m.id \notin held[n]

HeldWhereAsked ==
  \A n \in Nodes : \A i \in held[n] : object[i] # NoSub /\ object[i].node = n

IInv ==
  /\ TypeOK /\ CallsInOrder /\ CleanupsAreOwned
  /\ MailIsCurrent /\ AnsweredOnce /\ AnswersAreTrue /\ HeldWhereAsked
  /\ ActiveIsHeld /\ HeldIsKnown /\ DeletedStaysDeleted
------------------------------------------------------------------------------
(* The data the actions change *)

LEMMA Standings ==
  ASSUME TypeOK, NEW i \in Ids, NEW c \in Calls, NEW s \in Standing, Stand(i, c, s)
  PROVE  /\ call' \in [Ids -> [Calls -> Standing]]
         /\ call'[i][c] = s
         /\ \A d \in Calls : d # c => call'[i][d] = call[i][d]
         /\ \A j \in Ids : j # i => call'[j] = call[j]
<1>1. call[i] \in [Calls -> Standing]
  BY DEF TypeOK
<1>2. [call[i] EXCEPT ![c] = s] \in [Calls -> Standing]
  BY <1>1
<1>3. call' = [call EXCEPT ![i] = [call[i] EXCEPT ![c] = s]]
  BY DEF Stand
<1> QED
  BY <1>1, <1>2, <1>3 DEF TypeOK

\* Writing the state of a subscription leaves its node and its owner alone.
LEMMA States ==
  ASSUME TypeOK, NEW i \in Ids, object[i] # NoSub,
         NEW s \in {"PENDING", "ACTIVE", "FAILED", "DELETED"},
         object' = [object EXCEPT ![i].state = s]
  PROVE  /\ object' \in [Ids -> Subscriptions \cup {NoSub}]
         /\ object'[i] # NoSub
         /\ object'[i].node = object[i].node
         /\ object'[i].owner = object[i].owner
         /\ object'[i].state = s
         /\ \A j \in Ids : j # i => object'[j] = object[j]
<1>1. object[i] \in Subscriptions
  BY DEF TypeOK
<1>2. [object[i] EXCEPT !.state = s] \in Subscriptions
  BY <1>1 DEF Subscriptions
<1>3. object' = [object EXCEPT ![i] = [object[i] EXCEPT !.state = s]]
  OBVIOUS
<1> QED
  BY <1>1, <1>2, <1>3, E2Assumption DEF TypeOK, Subscriptions

\* An answer is about what its request was about.
LEMMA Replies ==
  ASSUME NEW m \in Messages, NEW k \in {"request", "accepted", "refused"}
  PROVE  /\ [m EXCEPT !.kind = k] \in Messages
         /\ [m EXCEPT !.kind = k].kind = k
         /\ [m EXCEPT !.kind = k].id = m.id
         /\ [m EXCEPT !.kind = k].call = m.call
         /\ [m EXCEPT !.kind = k].node = m.node
  BY DEF Messages

LEMMA Known ==
  ASSUME TypeOK, NEW i \in Ids, object[i] # NoSub
  PROVE  object[i].node \in Nodes /\ object[i].owner \in XApps
  BY DEF TypeOK, Subscriptions
------------------------------------------------------------------------------
LEMMA InitInv == Init => IInv
<1> SUFFICES ASSUME Init PROVE IInv
  OBVIOUS
<1>1. TypeOK
  BY E2Assumption DEF Init, TypeOK, Standing, Ids
<1>2. CallsInOrder /\ CleanupsAreOwned
  BY E2Assumption DEF Init, CallsInOrder, CleanupsAreOwned, Ids, Calls, Deletions
<1>3. MailIsCurrent /\ AnsweredOnce /\ AnswersAreTrue /\ HeldWhereAsked
  BY DEF Init, MailIsCurrent, AnsweredOnce, AnswersAreTrue, HeldWhereAsked
<1>4. ActiveIsHeld /\ HeldIsKnown /\ DeletedStaysDeleted
  BY DEF Init, ActiveIsHeld, HeldIsKnown, DeletedStaysDeleted, Calls, Deletions
<1> QED
  BY <1>1, <1>2, <1>3, <1>4 DEF IInv

LEMMA RegistrationsKeepInv ==
  ASSUME IInv,
         \/ \E n \in Nodes : Setup(n)
         \/ \E x \in XApps : RegisterXapp(x)
  PROVE  IInv'
<1>1. /\ e2_nodes' \subseteq Nodes /\ xapps' \subseteq XApps /\ xapps' \cap gone = {}
      /\ UNCHANGED <<gone, counter, object, subscriptions, call, unanswered, net>>
      /\ UNCHANGED <<held, reporters, dropped, restarts>>
  BY DEF IInv, TypeOK, CleanupsAreOwned, Setup, RegisterXapp, nodeVars
<1>2. TypeOK'
  BY <1>1 DEF IInv, TypeOK
<1>3. CallsInOrder' /\ CleanupsAreOwned'
  BY <1>1 DEF IInv, CallsInOrder, CleanupsAreOwned
<1>4. MailIsCurrent' /\ AnsweredOnce' /\ AnswersAreTrue' /\ HeldWhereAsked'
  BY <1>1 DEF IInv, MailIsCurrent, AnsweredOnce, AnswersAreTrue, HeldWhereAsked
<1>5. ActiveIsHeld' /\ HeldIsKnown' /\ DeletedStaysDeleted'
  BY <1>1 DEF IInv, ActiveIsHeld, HeldIsKnown, DeletedStaysDeleted
<1> QED
  BY <1>2, <1>3, <1>4, <1>5 DEF IInv

\* An xApp unregisters once, so none of its subscriptions has a cleanup yet.
LEMMA UnregisterXappKeepsInv ==
  ASSUME IInv, NEW x \in XApps, UnregisterXapp(x)
  PROVE  IInv'
<1> DEFINE Mine(i) == i \in subscriptions /\ object[i].owner = x
<1>1. /\ UNCHANGED <<e2_nodes, counter, object, subscriptions, unanswered, net>>
      /\ UNCHANGED <<held, reporters, dropped, restarts>>
      /\ xapps' = xapps \ {x} /\ gone' = gone \cup {x} /\ x \notin gone
  BY DEF IInv, CleanupsAreOwned, UnregisterXapp, nodeVars
<1>2. ASSUME NEW i \in Ids
      PROVE  /\ call'[i] \in [Calls -> Standing]
             /\ \A c \in {"create", "client"} : call'[i][c] = call[i][c]
             /\ Mine(i) => call[i]["cleanup"] = "idle" /\ call'[i]["cleanup"] = "scheduled"
             /\ ~Mine(i) => call'[i] = call[i]
  <2>1. call[i] \in [Calls -> Standing]
    BY DEF IInv, TypeOK
  <2>2. call'[i] = IF Mine(i) THEN [call[i] EXCEPT !["cleanup"] = "scheduled"] ELSE call[i]
    BY DEF UnregisterXapp
  <2>3. Mine(i) => call[i]["cleanup"] = "idle"
    BY <1>1 DEF IInv, CleanupsAreOwned
  <2> QED
    BY <2>1, <2>2, <2>3 DEF Calls, Deletions, Standing
<1>3. TypeOK'
  <2>1. call' = [i \in Ids |-> call'[i]]
    BY DEF UnregisterXapp
  <2> QED
    BY <1>1, <1>2, <2>1 DEF IInv, TypeOK
<1>4. CallsInOrder' /\ CleanupsAreOwned'
  BY <1>1, <1>2 DEF IInv, CallsInOrder, CleanupsAreOwned, Deletions
<1>5. AnsweredOnce' /\ AnswersAreTrue' /\ HeldWhereAsked'
  BY <1>1 DEF IInv, AnsweredOnce, AnswersAreTrue, HeldWhereAsked
<1>6. MailIsCurrent'
  <2>1. \A m \in net : m.id \in Ids /\ m.call \in Calls
    BY DEF IInv, TypeOK, Messages
  <2> QED
    BY <1>1, <1>2, <2>1 DEF IInv, MailIsCurrent, Calls, Deletions
<1>7. ActiveIsHeld' /\ HeldIsKnown' /\ DeletedStaysDeleted'
  BY <1>1, <1>2 DEF IInv, TypeOK, ActiveIsHeld, HeldIsKnown, DeletedStaysDeleted, Deletions
<1> QED
  BY <1>3, <1>4, <1>5, <1>6, <1>7 DEF IInv

\* The id of a new subscription is on no message and at no node.
LEMMA CreateSubscriptionKeepsInv ==
  ASSUME IInv, NEW x \in XApps, NEW n \in Nodes, CreateSubscription(x, n)
  PROVE  IInv'
<1> DEFINE new == [kind |-> "request", id |-> counter, call |-> "create", node |-> n]
           sub == [node |-> n, owner |-> x, state |-> "PENDING"]
<1>1. counter \in Ids /\ counter' = counter + 1
  BY E2Assumption DEF IInv, TypeOK, CreateSubscription, Ids
<1>2. /\ UNCHANGED <<e2_nodes, xapps, gone, subscriptions, unanswered>>
      /\ UNCHANGED <<held, reporters, dropped, restarts>>
      /\ net' = net \cup {new}
  BY DEF CreateSubscription, nodeVars
<1>3. /\ object' \in [Ids -> Subscriptions \cup {NoSub}]
      /\ object'[counter] = sub /\ sub # NoSub
      /\ \A j \in Ids : j # counter => object'[j] = object[j]
  BY <1>1, E2Assumption DEF IInv, TypeOK, CreateSubscription, Subscriptions
<1>4. /\ call' \in [Ids -> [Calls -> Standing]]
      /\ call'[counter]["create"] = "waiting"
      /\ \A d \in Calls : d # "create" => call'[counter][d] = call[counter][d]
      /\ \A j \in Ids : j # counter => call'[j] = call[j]
  BY <1>1, Standings DEF IInv, CreateSubscription, Calls, Standing
<1>5. object[counter] = NoSub /\ call[counter]["create"] = "idle"
  BY <1>1, E2Assumption DEF IInv, CallsInOrder, Ids
<1>6. new \in Messages
  BY <1>1 DEF Messages, Calls
<1>7. /\ counter \notin subscriptions
      /\ \A c \in Deletions : call[counter][c] = "idle"
      /\ \A m \in net : m.id # counter
      /\ \A k \in Nodes : counter \notin held[k]
  BY <1>1, <1>5 DEF IInv, CallsInOrder, MailIsCurrent, HeldWhereAsked
<1>8. TypeOK'
  <2>1. counter' \in 1..MaxRequests + 1
    BY <1>1, E2Assumption DEF Ids
  <2> QED
    BY <1>2, <1>3, <1>4, <1>6, <2>1 DEF IInv, TypeOK
<1>9. CallsInOrder'
  <2>1. \A i \in Ids : i >= counter' <=> i >= counter /\ i # counter
    BY <1>1, E2Assumption DEF Ids
  <2> QED
    BY <1>1, <1>2, <1>3, <1>4, <1>5, <1>7, <2>1 DEF IInv, CallsInOrder, Calls, Deletions
<1>10. CleanupsAreOwned'
  BY <1>2, <1>3, <1>4, <1>7 DEF IInv, CleanupsAreOwned, Calls, Deletions
<1>11. \A m \in net : m.id \in Ids /\ m.call \in Calls
  BY DEF IInv, TypeOK, Messages
<1>12. MailIsCurrent'
  BY <1>1, <1>2, <1>3, <1>4, <1>7, <1>11 DEF IInv, MailIsCurrent, Deletions
<1>13. AnsweredOnce' /\ AnswersAreTrue' /\ HeldWhereAsked'
  BY <1>2, <1>3, <1>7 DEF IInv, TypeOK, AnsweredOnce, AnswersAreTrue, HeldWhereAsked
<1>14. ActiveIsHeld' /\ HeldIsKnown' /\ DeletedStaysDeleted'
  BY <1>2, <1>3, <1>4, <1>7, ZenonT(30)
     DEF IInv, TypeOK, ActiveIsHeld, HeldIsKnown, DeletedStaysDeleted, Calls, Deletions
<1> QED
  BY <1>8, <1>9, <1>10, <1>12, <1>13, <1>14 DEF IInv

\* The creation ends: its entry is new, and an acceptance is a true one.
LEMMA StoresKeepInv ==
  ASSUME IInv, NEW i \in Ids, StoreAnswered(i) \/ StoreUnanswered(i)
  PROVE  IInv'
<1>1. /\ UNCHANGED <<e2_nodes, xapps, gone, counter>>
      /\ UNCHANGED <<held, reporters, dropped, restarts>>
      /\ subscriptions' = subscriptions \cup {i}
      /\ net' \subseteq net
      /\ unanswered \subseteq unanswered' /\ unanswered' \subseteq unanswered \cup {i}
      /\ call[i]["create"] = "waiting"
      /\ Stand(i, "create", "ended")
  BY DEF StoreAnswered, StoreUnanswered, nodeVars
<1>2. object[i] # NoSub /\ \A c \in Deletions : call[i][c] = "idle"
  BY <1>1 DEF IInv, CallsInOrder
<1>3. \A m \in net : m \in Messages /\ m.id \in Ids /\ m.call \in Calls
                   /\ m.kind \in {"request", "accepted", "refused"}
  BY DEF IInv, TypeOK, Messages
<1>4. PICK s \in {"PENDING", "ACTIVE", "FAILED"} :
        /\ object' = [object EXCEPT ![i].state = s]
        /\ s = "ACTIVE" => \E m \in net : m.id = i /\ m.call = "create" /\ m.kind = "accepted"
  BY <1>3 DEF StoreAnswered, StoreUnanswered, Answers
<1>5. /\ object' \in [Ids -> Subscriptions \cup {NoSub}]
      /\ object'[i] # NoSub
      /\ object'[i].node = object[i].node
      /\ object'[i].owner = object[i].owner
      /\ object'[i].state = s
      /\ \A j \in Ids : j # i => object'[j] = object[j]
  BY <1>2, <1>4, States DEF IInv
<1>6. /\ call' \in [Ids -> [Calls -> Standing]]
      /\ call'[i]["create"] = "ended"
      /\ \A d \in Calls : d # "create" => call'[i][d] = call[i][d]
      /\ \A j \in Ids : j # i => call'[j] = call[j]
  BY <1>1, Standings DEF IInv, Calls, Standing
<1>7. TypeOK'
  BY <1>1, <1>5, <1>6 DEF IInv, TypeOK
<1>8. CallsInOrder' /\ CleanupsAreOwned'
  BY <1>1, <1>2, <1>5, <1>6 DEF IInv, CallsInOrder, CleanupsAreOwned, Calls, Deletions
\* The answer is used up, or the request becomes one of an unanswered call.
<1>9. \A m \in net' : m.id = i => m.call = "create" /\ m.kind = "request" /\ i \in unanswered'
  <2>1. CASE StoreAnswered(i)
    <3>1. PICK a \in net : /\ a.id = i /\ a.call = "create" /\ a.kind # "request"
                           /\ net' = net \ {a}
      BY <2>1 DEF StoreAnswered, Answers
    <3>2. ASSUME NEW m \in net, m.id = i PROVE m = a
      <4>1. m.call = "create"
        BY <1>1, <1>3, <3>2 DEF IInv, MailIsCurrent, Calls
      <4> QED
        BY <3>1, <3>2, <4>1 DEF IInv, AnsweredOnce
    <3> QED
      BY <3>1, <3>2
  <2>2. CASE StoreUnanswered(i)
    BY <1>1, <1>3, <2>2 DEF IInv, MailIsCurrent, StoreUnanswered, Answers, Calls
  <2> QED
    BY <2>1, <2>2
<1>10. MailIsCurrent'
  BY <1>1, <1>3, <1>5, <1>6, <1>9 DEF IInv, MailIsCurrent, Deletions
<1>11. AnsweredOnce' /\ AnswersAreTrue' /\ HeldWhereAsked'
  BY <1>1, <1>3, <1>5, <1>9 DEF IInv, TypeOK, AnsweredOnce, AnswersAreTrue, HeldWhereAsked, Deletions
<1>12. ActiveIsHeld'
  <2>1. s = "ACTIVE" /\ i \notin dropped => i \in held[object[i].node] /\ i \in reporters[object[i].node]
    BY <1>4 DEF IInv, AnswersAreTrue, MailIsCurrent
  <2> QED
    BY <1>1, <1>5, <1>6, <2>1 DEF IInv, TypeOK, ActiveIsHeld
<1>13. HeldIsKnown' /\ DeletedStaysDeleted'
  BY <1>1, <1>2, <1>6 DEF IInv, TypeOK, HeldIsKnown, DeletedStaysDeleted, Calls, Deletions
<1> QED
  BY <1>7, <1>8, <1>10, <1>11, <1>12, <1>13 DEF IInv

\* A deletion that begins: one more call waits, one more request is on its way.
LEMMA BeginDeleteKeepsInv ==
  ASSUME IInv, NEW i \in Ids, NEW c \in Deletions, BeginDelete(i, c)
  PROVE  IInv'
<1> DEFINE new == Message("request", i, c)
<1>1. /\ UNCHANGED <<e2_nodes, xapps, gone, counter, object, subscriptions, unanswered>>
      /\ UNCHANGED <<held, reporters, dropped, restarts>>
      /\ call[i][c] \in {"idle", "scheduled"}
      /\ c = "cleanup" => call[i][c] = "scheduled"
      /\ c \in Calls /\ c # "create"
  BY DEF BeginDelete, nodeVars, Calls, Deletions
<1>2. PICK s \in {"waiting", "raised"} :
        /\ Stand(i, c, s)
        /\ s = "waiting" => i \in subscriptions /\ net' = net \cup {new}
        /\ s = "raised" => i \notin subscriptions /\ call[i][c] = "scheduled" /\ net' = net
  BY DEF BeginDelete
<1>3. /\ call' \in [Ids -> [Calls -> Standing]]
      /\ call'[i][c] = s
      /\ \A d \in Calls : d # c => call'[i][d] = call[i][d]
      /\ \A j \in Ids : j # i => call'[j] = call[j]
  BY <1>1, <1>2, Standings DEF IInv, Standing
<1>4. call[i]["create"] = "ended" /\ call'[i]["create"] = "ended" /\ object[i] # NoSub
  BY <1>1, <1>2, <1>3 DEF IInv, CallsInOrder, Calls
<1>5. /\ new \in Messages /\ new.kind = "request" /\ new.id = i /\ new.call = c
      /\ new.node = object[i].node
  BY <1>1, <1>4, Known DEF IInv, Message, Messages
<1>6. TypeOK'
  BY <1>1, <1>2, <1>3, <1>5 DEF IInv, TypeOK
<1>7. CallsInOrder' /\ CleanupsAreOwned'
  <2>1. c = "cleanup" => object[i].owner \in gone
    BY <1>1 DEF IInv, CleanupsAreOwned
  <2> QED
    BY <1>1, <1>3, <1>4, <2>1 DEF IInv, CallsInOrder, CleanupsAreOwned, Calls, Deletions
<1>8. \A m \in net : m.id \in Ids /\ m.call \in Calls
  BY DEF IInv, TypeOK, Messages
<1>9. MailIsCurrent'
  BY <1>1, <1>2, <1>3, <1>4, <1>5, <1>8 DEF IInv, MailIsCurrent, Calls, Deletions
<1>10. AnsweredOnce' /\ AnswersAreTrue' /\ HeldWhereAsked'
  BY <1>1, <1>2, <1>5 DEF IInv, AnsweredOnce, AnswersAreTrue, HeldWhereAsked
<1>11. ActiveIsHeld' /\ HeldIsKnown' /\ DeletedStaysDeleted'
  BY <1>1, <1>2, <1>3, <1>4, ZenonT(30)
     DEF IInv, TypeOK, ActiveIsHeld, HeldIsKnown, DeletedStaysDeleted, Calls, Deletions
<1> QED
  BY <1>6, <1>7, <1>9, <1>10, <1>11 DEF IInv

\* An acknowledged deletion forgets what no node holds any more.
LEMMA ForgetKeepsInv ==
  ASSUME IInv, NEW i \in Ids, NEW c \in Deletions, DeleteAnswered(i, c) \/ DeleteUnanswered(i, c)
  PROVE  IInv'
<1>1. /\ UNCHANGED <<e2_nodes, xapps, gone, counter>>
      /\ UNCHANGED <<held, reporters, dropped, restarts>>
      /\ subscriptions' = subscriptions \ {i}
      /\ net' \subseteq net
      /\ unanswered \subseteq unanswered' /\ unanswered' \subseteq unanswered \cup {i}
      /\ call[i][c] = "waiting"
      /\ Stand(i, c, IF i \in subscriptions THEN "ended" ELSE "raised")
      /\ object' = [object EXCEPT ![i].state = "DELETED"]
      /\ c \in Calls /\ c # "create"
  BY DEF DeleteAnswered, DeleteUnanswered, Forget, nodeVars, Calls, Deletions
<1>2. object[i] # NoSub /\ call[i]["create"] = "ended"
  BY <1>1 DEF IInv, CallsInOrder
<1>3. /\ object' \in [Ids -> Subscriptions \cup {NoSub}]
      /\ object'[i] # NoSub
      /\ object'[i].node = object[i].node
      /\ object'[i].owner = object[i].owner
      /\ \A j \in Ids : j # i => object'[j] = object[j]
  BY <1>1, <1>2, States DEF IInv
<1>4. /\ call' \in [Ids -> [Calls -> Standing]]
      /\ call'[i][c] = IF i \in subscriptions THEN "ended" ELSE "raised"
      /\ \A d \in Calls : d # c => call'[i][d] = call[i][d]
      /\ \A j \in Ids : j # i => call'[j] = call[j]
  BY <1>1, Standings DEF IInv, Standing
<1>5. TypeOK'
  BY <1>1, <1>3, <1>4 DEF IInv, TypeOK
<1>6. CallsInOrder' /\ CleanupsAreOwned'
  BY <1>1, <1>2, <1>3, <1>4 DEF IInv, CallsInOrder, CleanupsAreOwned, Calls, Deletions
<1>7. \A m \in net : m.id \in Ids /\ m.call \in Calls
  BY DEF IInv, TypeOK, Messages
<1>8. MailIsCurrent'
  BY <1>1, <1>2, <1>3, <1>4, <1>7 DEF IInv, MailIsCurrent, Calls, Deletions
<1>9. AnsweredOnce' /\ AnswersAreTrue' /\ HeldWhereAsked'
  BY <1>1, <1>3 DEF IInv, TypeOK, AnsweredOnce, AnswersAreTrue, HeldWhereAsked
<1>10. ActiveIsHeld' /\ DeletedStaysDeleted'
  BY <1>1, <1>3, <1>4 DEF IInv, TypeOK, ActiveIsHeld, DeletedStaysDeleted, Calls, Deletions
<1>11. HeldIsKnown'
  <2>1. CASE DeleteUnanswered(i, c)
    BY <1>1, <1>2, <1>4, <2>1 DEF IInv, TypeOK, HeldIsKnown, DeleteUnanswered, Calls
  <2>2. CASE DeleteAnswered(i, c)
    <3>1. \E m \in net : m.id = i /\ m.call = c /\ m.kind # "request"
      BY <2>2 DEF DeleteAnswered, Answers
    <3>2. \E m \in net : m.id = i /\ m.call = c /\ m.kind = "accepted"
      BY <1>1, <3>1 DEF IInv, TypeOK, Messages, MailIsCurrent
    <3>3. i \in unanswered \/ \A n \in Nodes : i \notin held[n]
      BY <3>2 DEF IInv, AnswersAreTrue
    <3> QED
      BY <1>1, <1>2, <1>4, <3>3 DEF IInv, TypeOK, HeldIsKnown, Calls
  <2> QED
    BY <2>1, <2>2
<1> QED
  BY <1>5, <1>6, <1>8, <1>9, <1>10, <1>11 DEF IInv

\* What the actions at the nodes leave alone, of the RIC's side.
LEMMA NodesKeepCalls ==
  ASSUME IInv, UNCHANGED ricVars
  PROVE  CallsInOrder' /\ CleanupsAreOwned' /\ DeletedStaysDeleted'
  BY DEF IInv, ricVars, CallsInOrder, CleanupsAreOwned, DeletedStaysDeleted

\* A subscription enters a node for a creation that waits or has been given up.
LEMMA NodeSubscribesKeepsInv ==
  ASSUME IInv, NEW m \in net, NodeSubscribes(m)
  PROVE  IInv'
<1> DEFINE reply == [m EXCEPT !.kind = "accepted"]
<1>1. /\ m \in Messages /\ m.kind = "request" /\ m.call = "create"
      /\ m.id \in Ids /\ m.node \in Nodes
      /\ UNCHANGED ricVars /\ UNCHANGED <<dropped, restarts>>
      /\ net' \subseteq (net \ {m}) \cup {reply}
      /\ reply \in net' => reply \in net \/ call[m.id][m.call] = "waiting"
  BY DEF IInv, TypeOK, Messages, NodeSubscribes
<1>2. /\ held' = [held EXCEPT ![m.node] = @ \cup {m.id}]
      /\ reporters' = [reporters EXCEPT ![m.node] = @ \cup {m.id}]
  BY DEF NodeSubscribes
<1>3. /\ reply \in Messages /\ reply.kind = "accepted" /\ reply.id = m.id
      /\ reply.call = "create" /\ reply.node = m.node
  BY <1>1, Replies
<1>4. /\ object[m.id] # NoSub /\ m.node = object[m.id].node
      /\ call[m.id]["create"] = "waiting" \/ m.id \in unanswered
  BY <1>1 DEF IInv, MailIsCurrent
<1>5. \A k \in net \ {m} : k.call = "create" => k.id # m.id
  BY <1>1 DEF IInv, AnsweredOnce
<1>6. \A k \in net' : k \in net \ {m} \/ (k = reply /\ call[m.id]["create"] = "waiting")
  <2>1. reply \notin net \ {m}
    BY <1>3, <1>5
  <2>2. reply # m
    BY <1>1, <1>3
  <2> QED
    BY <1>1, <2>1, <2>2
<1>7. TypeOK'
  BY <1>1, <1>2, <1>3 DEF IInv, TypeOK, ricVars
<1>8. CallsInOrder' /\ CleanupsAreOwned' /\ DeletedStaysDeleted'
  BY <1>1, NodesKeepCalls
<1>9. MailIsCurrent'
  BY <1>1, <1>3, <1>4, <1>6 DEF IInv, MailIsCurrent, ricVars, Deletions
<1>10. AnsweredOnce'
  <2> SUFFICES ASSUME NEW m1 \in net', NEW m2 \in net',
                      m1.call = "create", m2.call = "create", m1.id = m2.id
               PROVE  m1 = m2
    BY DEF AnsweredOnce
  <2>1. CASE m1 \in net \ {m} /\ m2 \in net \ {m}
    BY <2>1 DEF IInv, AnsweredOnce
  <2>2. CASE m1 = reply
    BY <1>3, <1>5, <1>6, <2>2
  <2>3. CASE m2 = reply
    BY <1>3, <1>5, <1>6, <2>3
  <2> QED
    BY <1>6, <2>1, <2>2, <2>3
<1>11. AnswersAreTrue'
  <2>1. \A k \in net \ {m} :
          k.call \in Deletions /\ k.id = m.id => m.id \in unanswered
    BY <1>4 DEF IInv, MailIsCurrent
  <2>2. \A k \in net : k.node \in Nodes
    BY DEF IInv, TypeOK, Messages
  <2> QED
    BY <1>1, <1>2, <1>3, <1>6, <2>1, <2>2 DEF IInv, TypeOK, AnswersAreTrue, ricVars, Deletions
<1>12. HeldWhereAsked' /\ HeldIsKnown'
  BY <1>1, <1>2, <1>4 DEF IInv, TypeOK, HeldWhereAsked, HeldIsKnown, ricVars
<1>13. ActiveIsHeld'
  BY <1>1, <1>2 DEF IInv, TypeOK, ActiveIsHeld, ricVars
<1> QED
  BY <1>7, <1>8, <1>9, <1>10, <1>11, <1>12, <1>13 DEF IInv

\* A node gives up a subscription for a deletion that waits, or comes late for
\* an entry that has gone.
LEMMA NodeDeletesKeepsInv ==
  ASSUME IInv, NEW m \in net, NodeDeletes(m)
  PROVE  IInv'
<1> DEFINE reply == [m EXCEPT !.kind = "accepted"]
<1>1. /\ m \in Messages /\ m.kind = "request" /\ m.call \in Deletions
      /\ m.id \in Ids /\ m.node \in Nodes
      /\ UNCHANGED ricVars /\ UNCHANGED <<reporters, dropped, restarts>>
      /\ net' \subseteq (net \ {m}) \cup {reply}
  BY DEF IInv, TypeOK, Messages, NodeDeletes
<1>2. held' = [held EXCEPT ![m.node] = @ \ {m.id}]
  BY DEF NodeDeletes
<1>3. /\ reply \in Messages /\ reply.kind = "accepted" /\ reply.id = m.id
      /\ reply.call = m.call /\ reply.node = m.node
  BY <1>1, Replies
<1>4. /\ object[m.id] # NoSub /\ m.node = object[m.id].node
      /\ call[m.id]["create"] = "ended"
      /\ call[m.id][m.call] = "waiting" \/ m.id \notin subscriptions
  BY <1>1 DEF IInv, MailIsCurrent
<1>5. \A k \in net' : k \in net \/ k = reply
  BY <1>1
<1>6. TypeOK'
  BY <1>1, <1>2, <1>3 DEF IInv, TypeOK, ricVars
<1>7. CallsInOrder' /\ CleanupsAreOwned' /\ DeletedStaysDeleted'
  BY <1>1, NodesKeepCalls
<1>8. MailIsCurrent'
  BY <1>1, <1>3, <1>4, <1>5 DEF IInv, MailIsCurrent, ricVars, Deletions
<1>9. AnsweredOnce'
  BY <1>1, <1>3, <1>5 DEF IInv, AnsweredOnce, Deletions
<1>10. \A n \in Nodes : m.id \notin held'[n]
  BY <1>2, <1>4 DEF IInv, TypeOK, HeldWhereAsked
<1>11. AnswersAreTrue'
  <2>1. \A k \in net : k.node \in Nodes
    BY DEF IInv, TypeOK, Messages
  <2>2. \A k \in net : k.call = "create" /\ k.kind = "accepted" => k.id # m.id
    BY <1>4 DEF IInv, MailIsCurrent
  <2>3. \A n \in Nodes : held'[n] \subseteq held[n] /\ held[n] \subseteq held'[n] \cup {m.id}
    BY <1>2 DEF IInv, TypeOK
  <2>4. reply.call # "create"
    BY <1>1, <1>3 DEF Deletions
  <2> QED
    BY <1>1, <1>3, <1>5, <1>10, <2>1, <2>2, <2>3, <2>4 DEF IInv, AnswersAreTrue, ricVars
<1>12. HeldWhereAsked' /\ HeldIsKnown'
  BY <1>1, <1>2 DEF IInv, TypeOK, HeldWhereAsked, HeldIsKnown, ricVars
<1>13. ActiveIsHeld'
  BY <1>1, <1>2, <1>4 DEF IInv, TypeOK, ActiveIsHeld, ricVars
<1> QED
  BY <1>6, <1>7, <1>8, <1>9, <1>11, <1>12, <1>13 DEF IInv

LEMMA NodeRefusesKeepsInv ==
  ASSUME IInv, NEW m \in net, NodeRefuses(m)
  PROVE  IInv'
<1> DEFINE reply == [m EXCEPT !.kind = "refused"]
<1>1. /\ m \in Messages /\ m.kind = "request" /\ m.call = "create"
      /\ call[m.id]["create"] = "waiting"
      /\ UNCHANGED ricVars /\ UNCHANGED <<held, reporters, dropped, restarts>>
      /\ net' = (net \ {m}) \cup {reply}
  BY DEF IInv, TypeOK, NodeRefuses, nodeVars
<1>2. /\ reply \in Messages /\ reply.kind = "refused" /\ reply.id = m.id
      /\ reply.call = "create" /\ reply.node = m.node
  BY <1>1, Replies
<1>3. \A k \in net \ {m} : k.call = "create" => k.id # m.id
  BY <1>1 DEF IInv, AnsweredOnce
<1>4. TypeOK'
  BY <1>1, <1>2 DEF IInv, TypeOK, ricVars
<1>5. CallsInOrder' /\ CleanupsAreOwned' /\ DeletedStaysDeleted'
  BY <1>1, NodesKeepCalls
<1>6. MailIsCurrent' /\ AnsweredOnce'
  <2>1. object[m.id] # NoSub /\ m.node = object[m.id].node
    BY DEF IInv, MailIsCurrent
  <2>2. \A k \in net' : k \in net \ {m} \/ k = reply
    BY <1>1
  <2>3. MailIsCurrent'
    BY <1>1, <1>2, <2>1, <2>2 DEF IInv, MailIsCurrent, ricVars, Deletions
  <2>4. AnsweredOnce'
    BY <1>2, <1>3, <2>2 DEF IInv, AnsweredOnce
  <2> QED
    BY <2>3, <2>4
<1>7. AnswersAreTrue' /\ HeldWhereAsked'
  BY <1>1, <1>2 DEF IInv, AnswersAreTrue, HeldWhereAsked, ricVars
<1>8. ActiveIsHeld' /\ HeldIsKnown'
  BY <1>1 DEF IInv, ActiveIsHeld, HeldIsKnown, ricVars
<1> QED
  BY <1>4, <1>5, <1>6, <1>7, <1>8 DEF IInv

LEMMA LosesKeepInv ==
  ASSUME IInv, (\E m \in net : Lose(m)) \/ (\E n \in Nodes, i \in Ids : ReporterExits(n, i))
  PROVE  IInv'
<1>1. /\ net' \subseteq net
      /\ UNCHANGED ricVars /\ UNCHANGED <<held, dropped, restarts>>
      /\ reporters' \in [Nodes -> SUBSET Ids]
      /\ \A n \in Nodes : held[n] \cap reporters[n] \subseteq reporters'[n]
  BY DEF IInv, TypeOK, Lose, ReporterExits, nodeVars
<1>2. \A m \in net : m.node \in Nodes
  BY DEF IInv, TypeOK, Messages
<1>3. TypeOK'
  BY <1>1 DEF IInv, TypeOK, ricVars
<1>4. CallsInOrder' /\ CleanupsAreOwned' /\ DeletedStaysDeleted'
  BY <1>1, NodesKeepCalls
<1>5. MailIsCurrent' /\ AnsweredOnce' /\ AnswersAreTrue' /\ HeldWhereAsked'
  BY <1>1, <1>2 DEF IInv, MailIsCurrent, AnsweredOnce, AnswersAreTrue, HeldWhereAsked, ricVars
<1>6. ActiveIsHeld'
  <2>1. \A i \in subscriptions : object[i].node \in Nodes
    BY Known DEF IInv, TypeOK, CallsInOrder
  <2> QED
    BY <1>1, <2>1 DEF IInv, ActiveIsHeld, ricVars
<1>7. HeldIsKnown'
  BY <1>1 DEF IInv, HeldIsKnown, ricVars
<1> QED
  BY <1>3, <1>4, <1>5, <1>6, <1>7 DEF IInv

\* Whatever a restart takes from a node is on the record of what was dropped.
LEMMA NodeRestartsKeepsInv ==
  ASSUME IInv, NEW n \in Nodes, NodeRestarts(n)
  PROVE  IInv'
<1>1. /\ UNCHANGED ricVars
      /\ net' = net
      /\ dropped' = dropped \cup held[n]
      /\ held' = [held EXCEPT ![n] = {}]
      /\ reporters' = [reporters EXCEPT ![n] = {}]
      /\ restarts' \in 0..MaxRestarts
  BY E2Assumption DEF IInv, TypeOK, NodeRestarts
<1>2. \A m \in net : m.node \in Nodes
  BY DEF IInv, TypeOK, Messages
<1>3. TypeOK'
  BY <1>1 DEF IInv, TypeOK, ricVars
<1>4. CallsInOrder' /\ CleanupsAreOwned' /\ DeletedStaysDeleted'
  BY <1>1, NodesKeepCalls
<1>5. MailIsCurrent' /\ AnsweredOnce' /\ HeldWhereAsked'
  BY <1>1 DEF IInv, TypeOK, MailIsCurrent, AnsweredOnce, HeldWhereAsked, ricVars
<1>6. AnswersAreTrue'
  BY <1>1, <1>2 DEF IInv, TypeOK, AnswersAreTrue, ricVars
<1>7. ActiveIsHeld'
  <2>1. \A i \in subscriptions : object[i].node \in Nodes
    BY Known DEF IInv, TypeOK, CallsInOrder
  <2> QED
    BY <1>1, <2>1 DEF IInv, TypeOK, ActiveIsHeld, ricVars
<1>8. HeldIsKnown'
  BY <1>1 DEF IInv, TypeOK, HeldIsKnown, ricVars
<1> QED
  BY <1>3, <1>4, <1>5, <1>6, <1>7, <1>8 DEF IInv
------------------------------------------------------------------------------
LEMMA NextInv == IInv /\ [Next]_vars => IInv'
<1> SUFFICES ASSUME IInv, [Next]_vars PROVE IInv'
  OBVIOUS
<1>1. CASE UNCHANGED vars
  <2>1. /\ UNCHANGED <<e2_nodes, xapps, gone, counter, object, subscriptions, call, unanswered>>
        /\ UNCHANGED <<net, held, reporters, dropped, restarts>>
    BY <1>1 DEF vars, ricVars, nodeVars
  <2>2. TypeOK' /\ CallsInOrder' /\ CleanupsAreOwned' /\ MailIsCurrent' /\ AnsweredOnce'
    BY <2>1 DEF IInv, TypeOK, CallsInOrder, CleanupsAreOwned, MailIsCurrent, AnsweredOnce
  <2>3. AnswersAreTrue' /\ HeldWhereAsked' /\ ActiveIsHeld' /\ HeldIsKnown' /\ DeletedStaysDeleted'
    BY <2>1 DEF IInv, AnswersAreTrue, HeldWhereAsked, ActiveIsHeld, HeldIsKnown, DeletedStaysDeleted
  <2> QED
    BY <2>2, <2>3 DEF IInv
<1>2. CASE Next
  BY <1>2, RegistrationsKeepInv, UnregisterXappKeepsInv, CreateSubscriptionKeepsInv,
     StoresKeepInv, BeginDeleteKeepsInv, ForgetKeepsInv, NodeSubscribesKeepsInv,
     NodeDeletesKeepsInv, NodeRefusesKeepsInv, LosesKeepInv, NodeRestartsKeepsInv DEF Next
<1> QED
  BY <1>1, <1>2

\* The inductive invariant holds of every behaviour of RIC, nodes and network.
THEOREM Invariance == Spec => []IInv
<1> QED
  BY InitInv, NextInv, PTL DEF Spec

\* TypeOK holds whatever the numbers of nodes, xApps, requests and restarts.
THEOREM TypesHold == Spec => []TypeOK
<1>1. IInv => TypeOK
  BY DEF IInv
<1> QED
  BY <1>1, Invariance, PTL

\* The RIC's ACTIVE subscriptions are held and reported on by their nodes.
THEOREM ActiveOnesAreHeld == Spec => []ActiveIsHeld
<1>1. IInv => ActiveIsHeld
  BY DEF IInv
<1> QED
  BY <1>1, Invariance, PTL

\* Nodes hold no subscription the RIC has forgotten, but for unanswered calls.
THEOREM NoUnexplainedOrphans == Spec => []HeldIsKnown
<1>1. IInv => HeldIsKnown
  BY DEF IInv
<1> QED
  BY <1>1, Invariance, PTL

\* A deletion that went through is never undone nor repeated.
THEOREM DeletionsAreFinal == Spec => []DeletedStaysDeleted
<1>1. IInv => DeletedStaysDeleted
  BY DEF IInv
<1> QED
  BY <1>1, Invariance, PTL
------------------------------------------------------------------------------
(* The RIC and its nodes implement SubscriptionService. *)

\* A step that moves one subscription on and leaves the others where they are.
LEMMA OnePhase ==
  ASSUME NEW i \in Ids, NEW p, PhaseOf(i)' = p,
         \A j \in Ids : j # i => PhaseOf(j)' = PhaseOf(j)
  PROVE  Phases' = [Phases EXCEPT ![i] = p]
  BY DEF Phases

LEMMA SamePhases ==
  ASSUME \A i \in Ids : PhaseOf(i)' = PhaseOf(i)
  PROVE  Phases' = Phases
  BY DEF Phases

\* The same of the outcome one deletion comes to.
LEMMA OneOutcome ==
  ASSUME NEW i \in Ids, NEW c \in Deletions, NEW o, OutcomeOf(i, c)' = o,
         \A d \in Deletions : d # c => OutcomeOf(i, d)' = OutcomeOf(i, d),
         \A j \in Ids : j # i => \A d \in Deletions : OutcomeOf(j, d)' = OutcomeOf(j, d)
  PROVE  Outcomes' = [Outcomes EXCEPT ![i][c] = o]
  BY DEF Outcomes

LEMMA SameOutcomes ==
  ASSUME \A i \in Ids, c \in Deletions : OutcomeOf(i, c)' = OutcomeOf(i, c)
  PROVE  Outcomes' = Outcomes
  BY DEF Outcomes

\* Where only nodes and network move, the service sees no call move.
LEMMA SameCalls ==
  ASSUME UNCHANGED <<call, subscriptions, object>>
  PROVE  UNCHANGED <<Phases, Outcomes, Active>>
<1>1. \A i \in Ids : PhaseOf(i)' = PhaseOf(i)
  BY DEF PhaseOf
<1>2. \A i \in Ids, c \in Deletions : OutcomeOf(i, c)' = OutcomeOf(i, c)
  BY DEF OutcomeOf
<1> QED
  BY <1>1, <1>2, SamePhases, SameOutcomes DEF Active

\* Registrations, a node that refuses, a lost message and a reporter that ends
\* are no steps of the service.
LEMMA StuttersOfService ==
  ASSUME IInv,
         \/ \E n \in Nodes : Setup(n)
         \/ \E x \in XApps : RegisterXapp(x) \/ UnregisterXapp(x)
         \/ \E m \in net : NodeRefuses(m) \/ Lose(m)
         \/ \E n \in Nodes, i \in Ids : ReporterExits(n, i)
         \/ UNCHANGED vars
  PROVE  UNCHANGED Service!serviceVars
<1>1. UNCHANGED <<held, unanswered, dropped, object, subscriptions>>
  BY DEF Setup, RegisterXapp, UnregisterXapp, NodeRefuses, Lose, ReporterExits, vars, ricVars, nodeVars
<1>2. UNCHANGED <<Phases, Outcomes>>
  <2>1. CASE UNCHANGED call
    BY <1>1, <2>1, SameCalls
  <2>2. ASSUME NEW x \in XApps, UnregisterXapp(x) PROVE UNCHANGED <<Phases, Outcomes>>
    <3>1. ASSUME NEW i \in Ids
          PROVE  /\ call'[i]["create"] = call[i]["create"]
                 /\ call'[i]["client"] = call[i]["client"]
                 /\ \/ call'[i]["cleanup"] = call[i]["cleanup"]
                    \/ call[i]["cleanup"] = "idle" /\ call'[i]["cleanup"] = "scheduled"
      <4>1. call[i] \in [Calls -> Standing]
        BY DEF IInv, TypeOK
      <4>2. call'[i] = IF i \in subscriptions /\ object[i].owner = x
                         THEN [call[i] EXCEPT !["cleanup"] = "scheduled"] ELSE call[i]
        BY <2>2 DEF UnregisterXapp
      <4>3. i \in subscriptions /\ object[i].owner = x => call[i]["cleanup"] = "idle"
        BY <2>2 DEF IInv, CleanupsAreOwned, UnregisterXapp
      <4> QED
        BY <4>1, <4>2, <4>3 DEF Calls, Deletions
    <3>2. \A i \in Ids : PhaseOf(i)' = PhaseOf(i)
      BY <1>1, <3>1 DEF PhaseOf, Deletions
    <3>3. \A i \in Ids, c \in Deletions : OutcomeOf(i, c)' = OutcomeOf(i, c)
      BY <3>1 DEF OutcomeOf, Deletions
    <3> QED
      BY <3>2, <3>3, SamePhases, SameOutcomes
  <2> QED
    BY <2>1, <2>2 DEF Setup, RegisterXapp, NodeRefuses, Lose, ReporterExits, vars, ricVars
<1>3. UNCHANGED <<Active, Served>>
  BY <1>1 DEF Active, Served
<1> QED
  BY <1>1, <1>2, <1>3 DEF Service!serviceVars

LEMMA CreateIsRequest ==
  ASSUME IInv, NEW x \in XApps, NEW n \in Nodes, CreateSubscription(x, n)
  PROVE  \E i \in Ids : Service!Request(i)
<1>1. PICK i \in Ids : i = counter
  BY E2Assumption DEF IInv, TypeOK, CreateSubscription, Ids
<1>2. object[i] = NoSub /\ call[i]["create"] = "idle"
  BY <1>1, E2Assumption DEF IInv, TypeOK, CallsInOrder, CreateSubscription, Ids
<1>3. /\ UNCHANGED <<subscriptions, unanswered, held, dropped>>
      /\ object' = [object EXCEPT ![i] = [node |-> n, owner |-> x, state |-> "PENDING"]]
      /\ Stand(i, "create", "waiting")
  BY <1>1 DEF CreateSubscription, nodeVars
<1>4. /\ call'[i]["create"] = "waiting"
      /\ \A d \in Deletions : call'[i][d] = call[i][d]
      /\ \A j \in Ids : j # i => call'[j] = call[j]
  BY <1>2, <1>3, Standings DEF IInv, Calls, Standing, Deletions
<1>5. Phases[i] = "unused" /\ Phases' = [Phases EXCEPT ![i] = "pending"]
  <2>1. PhaseOf(i) = "unused" /\ PhaseOf(i)' = "pending"
    BY <1>2, <1>4 DEF PhaseOf
  <2>2. \A j \in Ids : j # i => PhaseOf(j)' = PhaseOf(j)
    BY <1>3, <1>4 DEF PhaseOf
  <2> QED
    BY <1>2, <2>1, <2>2, OnePhase DEF Phases
<1>6. Outcomes' = Outcomes
  <2>1. \A j \in Ids, c \in Deletions : OutcomeOf(j, c)' = OutcomeOf(j, c)
    BY <1>4 DEF OutcomeOf
  <2> QED
    BY <2>1, SameOutcomes
<1>7. Active' = Active
  <2>1. i \notin subscriptions
    BY <1>2 DEF IInv, CallsInOrder
  <2>2. \A j \in subscriptions : object'[j] = object[j]
    BY <1>3, <2>1 DEF IInv, TypeOK
  <2> QED
    BY <1>3, <2>2 DEF Active
<1>8. Served' = Served
  BY <1>3 DEF Served
<1> QED
  BY <1>2, <1>3, <1>5, <1>6, <1>7, <1>8 DEF Service!Request, Service!Moves

\* The creation that ends lists its subscription, active on its node's word alone.
LEMMA StoreIsListing ==
  ASSUME IInv, NEW i \in Ids, StoreAnswered(i) \/ StoreUnanswered(i)
  PROVE  Service!ListActive(i) \/ Service!ListInactive(i)
<1>1. /\ UNCHANGED <<held, dropped>>
      /\ subscriptions' = subscriptions \cup {i}
      /\ unanswered' = unanswered \/ unanswered' = unanswered \cup {i}
      /\ call[i]["create"] = "waiting"
      /\ Stand(i, "create", "ended")
  BY DEF StoreAnswered, StoreUnanswered, nodeVars
<1>2. /\ object[i] # NoSub /\ i \notin subscriptions
      /\ \A c \in Deletions : call[i][c] = "idle"
  BY <1>1 DEF IInv, CallsInOrder
<1>3. \A m \in net : m.kind \in {"request", "accepted", "refused"} /\ m.node \in Nodes
  BY DEF IInv, TypeOK, Messages
<1>4. PICK s \in {"PENDING", "ACTIVE", "FAILED"} :
        /\ object' = [object EXCEPT ![i].state = s]
        /\ s = "ACTIVE" =>
             /\ \E m \in net : m.id = i /\ m.call = "create" /\ m.kind = "accepted"
             /\ unanswered' = unanswered
  BY <1>3 DEF StoreAnswered, StoreUnanswered, Answers
<1>5. object'[i].state = s /\ \A j \in Ids : j # i => object'[j] = object[j]
  BY <1>2, <1>4, States DEF IInv
<1>6. /\ call'[i]["create"] = "ended"
      /\ \A d \in Deletions : call'[i][d] = call[i][d]
      /\ \A j \in Ids : j # i => call'[j] = call[j]
  BY <1>1, Standings DEF IInv, Calls, Standing, Deletions
<1>7. Phases[i] = "pending" /\ Phases' = [Phases EXCEPT ![i] = "listed"]
  <2>1. PhaseOf(i) = "pending" /\ PhaseOf(i)' = "listed"
    BY <1>1, <1>2, <1>6 DEF PhaseOf
  <2>2. \A j \in Ids : j # i => PhaseOf(j)' = PhaseOf(j)
    BY <1>1, <1>6 DEF PhaseOf
  <2> QED
    BY <2>1, <2>2, OnePhase DEF Phases
<1>8. Outcomes' = Outcomes
  <2>1. \A j \in Ids, c \in Deletions : OutcomeOf(j, c)' = OutcomeOf(j, c)
    BY <1>6 DEF OutcomeOf
  <2> QED
    BY <2>1, SameOutcomes
<1>9. Served' = Served
  BY <1>1 DEF Served
<1>10. Active' = IF s = "ACTIVE" THEN Active \cup {i} ELSE Active
  BY <1>1, <1>2, <1>5 DEF IInv, TypeOK, Active
<1>11. CASE s = "ACTIVE"
  <2>1. PICK m \in net : m.id = i /\ m.call = "create" /\ m.kind = "accepted"
    BY <1>4, <1>11
  <2>2. i \in held[m.node] \/ i \in dropped
    BY <2>1 DEF IInv, AnswersAreTrue
  <2>3. i \in Served \cup dropped
    BY <1>3, <2>2 DEF Served
  <2> QED
    BY <1>1, <1>4, <1>7, <1>8, <1>9, <1>10, <1>11, <2>3 DEF Service!ListActive, Service!Moves
<1>12. CASE s # "ACTIVE"
  BY <1>1, <1>7, <1>8, <1>9, <1>10, <1>12 DEF Service!ListInactive, Service!Moves, Service!MayMiss
<1> QED
  BY <1>11, <1>12

\* The first deletion that begins counts; one of an entry that has gone fails.
LEMMA BeginDeleteIsAskingOrFailing ==
  ASSUME IInv, NEW i \in Ids, NEW c \in Deletions, BeginDelete(i, c)
  PROVE  Service!AskDeletion(i) \/ Service!FailDeletion(i, c) \/ UNCHANGED Service!serviceVars
<1>1. /\ UNCHANGED <<object, subscriptions, unanswered, held, dropped>>
      /\ call[i][c] \in {"idle", "scheduled"}
      /\ c = "cleanup" => call[i][c] = "scheduled"
      /\ c \in Calls /\ c # "create"
  BY DEF BeginDelete, nodeVars, Calls, Deletions
<1>2. PICK s \in {"waiting", "raised"} :
        /\ Stand(i, c, s)
        /\ s = "waiting" => i \in subscriptions
        /\ s = "raised" => i \notin subscriptions /\ c = "cleanup"
  BY DEF BeginDelete
<1>3. /\ call'[i][c] = s
      /\ \A d \in Calls : d # c => call'[i][d] = call[i][d]
      /\ \A j \in Ids : j # i => call'[j] = call[j]
  BY <1>1, <1>2, Standings DEF IInv, Standing
<1>4. call[i]["create"] = "ended" /\ call'[i]["create"] = "ended"
  BY <1>1, <1>2, <1>3 DEF IInv, CallsInOrder, Calls
<1>5. Active' = Active /\ Served' = Served
  BY <1>1 DEF Active, Served
<1>6. \A j \in Ids : j # i => PhaseOf(j)' = PhaseOf(j)
  BY <1>1, <1>3 DEF PhaseOf
<1>7. CASE s = "waiting"
  <2>1. i \in subscriptions /\ PhaseOf(i)' = "leaving" /\ PhaseOf(i) \in {"listed", "leaving"}
    BY <1>1, <1>2, <1>3, <1>4, <1>7 DEF PhaseOf
  <2>2. Outcomes' = Outcomes
    <3>1. \A j \in Ids, d \in Deletions : OutcomeOf(j, d)' = OutcomeOf(j, d)
      BY <1>1, <1>3, <1>7 DEF OutcomeOf, Calls
    <3> QED
      BY <3>1, SameOutcomes
  <2>3. CASE PhaseOf(i) = "listed"
    BY <1>1, <1>5, <1>6, <2>1, <2>2, <2>3, OnePhase DEF Service!AskDeletion, Service!Moves, Phases
  <2>4. CASE PhaseOf(i) = "leaving"
    BY <1>1, <1>5, <1>6, <2>1, <2>2, <2>4, SamePhases DEF Service!serviceVars
  <2> QED
    BY <2>1, <2>3, <2>4
<1>8. CASE s = "raised"
  <2>1. PhaseOf(i) = "gone" /\ PhaseOf(i)' = "gone"
    BY <1>1, <1>2, <1>4, <1>8 DEF PhaseOf
  <2>2. Phases[i] = "gone" /\ Phases' = Phases
    BY <1>6, <2>1, SamePhases DEF Phases
  <2>3. OutcomeOf(i, c) = "none" /\ OutcomeOf(i, c)' = "failed"
    BY <1>1, <1>3, <1>8 DEF OutcomeOf
  <2>4. /\ \A d \in Deletions : d # c => OutcomeOf(i, d)' = OutcomeOf(i, d)
        /\ \A j \in Ids : j # i => \A d \in Deletions : OutcomeOf(j, d)' = OutcomeOf(j, d)
    BY <1>3 DEF OutcomeOf, Calls
  <2>5. Outcomes[i][c] = "none" /\ Outcomes' = [Outcomes EXCEPT ![i][c] = "failed"]
    BY <2>3, <2>4, OneOutcome DEF Outcomes
  <2> QED
    BY <1>1, <1>5, <2>2, <2>5 DEF Service!FailDeletion, Service!Tells, Service!MayMiss
<1> QED
  BY <1>7, <1>8

\* The deletion that finds the entry removes it, its rival fails.
LEMMA ForgetIsRemovingOrFailing ==
  ASSUME IInv, NEW i \in Ids, NEW c \in Deletions, DeleteAnswered(i, c) \/ DeleteUnanswered(i, c)
  PROVE  Service!Remove(i, c) \/ Service!FailDeletion(i, c)
<1>1. /\ UNCHANGED <<held, dropped>>
      /\ subscriptions' = subscriptions \ {i}
      /\ unanswered' = unanswered \/ unanswered' = unanswered \cup {i}
      /\ call[i][c] = "waiting"
      /\ Stand(i, c, IF i \in subscriptions THEN "ended" ELSE "raised")
      /\ object' = [object EXCEPT ![i].state = "DELETED"]
      /\ c \in Calls /\ c # "create"
  BY DEF DeleteAnswered, DeleteUnanswered, Forget, nodeVars, Calls, Deletions
<1>2. object[i] # NoSub /\ call[i]["create"] = "ended"
  BY <1>1 DEF IInv, CallsInOrder
<1>3. \A j \in Ids : j # i => object'[j] = object[j]
  BY <1>1, <1>2, States DEF IInv
<1>4. /\ call'[i][c] = IF i \in subscriptions THEN "ended" ELSE "raised"
      /\ \A d \in Calls : d # c => call'[i][d] = call[i][d]
      /\ \A j \in Ids : j # i => call'[j] = call[j]
  BY <1>1, Standings DEF IInv, Standing
<1>5. Served' = Served /\ Active' = Active \ {i}
  BY <1>1, <1>3 DEF IInv, TypeOK, Served, Active
<1>6. /\ PhaseOf(i) = IF i \in subscriptions THEN "leaving" ELSE "gone"
      /\ PhaseOf(i)' = "gone"
  BY <1>1, <1>2, <1>4 DEF PhaseOf, Calls
<1>7. \A j \in Ids : j # i => PhaseOf(j)' = PhaseOf(j)
  BY <1>1, <1>4 DEF PhaseOf
<1>8. /\ Outcomes[i][c] = "none"
      /\ Outcomes' = [Outcomes EXCEPT ![i][c] = IF i \in subscriptions THEN "done" ELSE "failed"]
  <2>1. /\ OutcomeOf(i, c) = "none"
        /\ OutcomeOf(i, c)' = IF i \in subscriptions THEN "done" ELSE "failed"
    BY <1>1, <1>4 DEF OutcomeOf
  <2>2. /\ \A d \in Deletions : d # c => OutcomeOf(i, d)' = OutcomeOf(i, d)
        /\ \A j \in Ids : j # i => \A d \in Deletions : OutcomeOf(j, d)' = OutcomeOf(j, d)
    BY <1>4 DEF OutcomeOf, Calls
  <2> QED
    BY <2>1, <2>2, OneOutcome DEF Outcomes
<1>9. CASE i \in subscriptions
  <2>1. Phases[i] = "leaving" /\ Phases' = [Phases EXCEPT ![i] = "gone"]
    BY <1>6, <1>7, <1>9, OnePhase DEF Phases
  <2>2. i \notin Served \/ i \in unanswered'
    <3>1. CASE DeleteUnanswered(i, c)
      BY <3>1 DEF DeleteUnanswered
    <3>2. CASE DeleteAnswered(i, c)
      <4>1. \E m \in net : m.id = i /\ m.call = c /\ m.kind # "request"
        BY <3>2 DEF DeleteAnswered, Answers
      <4>2. \E m \in net : m.id = i /\ m.call = c /\ m.kind = "accepted"
        BY <1>1, <4>1 DEF IInv, TypeOK, Messages, MailIsCurrent
      <4>3. i \in unanswered \/ \A n \in Nodes : i \notin held[n]
        BY <4>2 DEF IInv, AnswersAreTrue
      <4> QED
        BY <1>1, <4>3 DEF Served
    <3> QED
      BY <3>1, <3>2
  <2> QED
    BY <1>1, <1>5, <1>8, <1>9, <2>1, <2>2
       DEF Service!Remove, Service!Moves, Service!Tells, Service!MayMiss
<1>10. CASE i \notin subscriptions
  <2>1. Phases[i] = "gone" /\ Phases' = Phases
    BY <1>6, <1>7, <1>10, SamePhases DEF Phases
  <2>2. Active' = Active
    BY <1>5, <1>10 DEF Active
  <2> QED
    BY <1>1, <1>5, <1>8, <1>10, <2>1, <2>2 DEF Service!FailDeletion, Service!Tells, Service!MayMiss
<1> QED
  BY <1>9, <1>10

LEMMA NodeSubscribesIsServing ==
  ASSUME IInv, NEW m \in net, NodeSubscribes(m)
  PROVE  Service!Serve(m.id) /\ m.id \in Ids
<1>1. /\ m.id \in Ids /\ m.node \in Nodes /\ m.kind = "request" /\ m.call = "create"
      /\ UNCHANGED <<call, subscriptions, object, unanswered, dropped>>
      /\ held' = [held EXCEPT ![m.node] = @ \cup {m.id}]
  BY DEF IInv, TypeOK, Messages, NodeSubscribes, ricVars
<1>2. UNCHANGED <<Phases, Outcomes, Active>>
  BY <1>1, SameCalls
<1>3. Served' = Served \cup {m.id}
  BY <1>1 DEF IInv, TypeOK, Served
<1>4. Phases[m.id] = "pending" \/ m.id \in unanswered
  <2>1. call[m.id]["create"] = "waiting" \/ m.id \in unanswered
    BY <1>1 DEF IInv, MailIsCurrent
  <2> QED
    BY <1>1, <2>1 DEF Phases, PhaseOf
<1> QED
  BY <1>1, <1>2, <1>3, <1>4 DEF Service!Serve

LEMMA NodeDeletesIsWithdrawing ==
  ASSUME IInv, NEW m \in net, NodeDeletes(m)
  PROVE  Service!Withdraw(m.id) /\ m.id \in Ids
<1>1. /\ m.id \in Ids /\ m.node \in Nodes /\ m.call \in Deletions
      /\ UNCHANGED <<call, subscriptions, object, unanswered, dropped>>
      /\ held' = [held EXCEPT ![m.node] = @ \ {m.id}]
  BY DEF IInv, TypeOK, Messages, NodeDeletes, ricVars
<1>2. UNCHANGED <<Phases, Outcomes, Active>>
  BY <1>1, SameCalls
<1>3. Served' = Served \ {m.id}
  <2>1. \A n \in Nodes : n # m.node => m.id \notin held[n]
    BY DEF IInv, HeldWhereAsked, MailIsCurrent
  <2>2. \A n \in Nodes : held'[n] = held[n] \ {m.id}
    BY <1>1, <2>1 DEF IInv, TypeOK
  <2> QED
    BY <2>2 DEF Served
<1>4. Phases[m.id] \in {"leaving", "gone"}
  <2>1. /\ call[m.id]["create"] = "ended"
        /\ call[m.id][m.call] = "waiting" \/ m.id \notin subscriptions
    BY <1>1 DEF IInv, MailIsCurrent
  <2>2. PhaseOf(m.id) \in {"leaving", "gone"}
    BY <1>1, <2>1 DEF PhaseOf
  <2> QED
    BY <1>1, <2>2 DEF Phases
<1> QED
  BY <1>1, <1>2, <1>3, <1>4 DEF Service!Withdraw

LEMMA RestartIsCrash ==
  ASSUME IInv, NEW n \in Nodes, NodeRestarts(n)
  PROVE  Service!Crash(held[n]) /\ held[n] \in SUBSET Served
<1>1. /\ UNCHANGED <<call, subscriptions, object, unanswered>>
      /\ held' = [held EXCEPT ![n] = {}]
      /\ dropped' = dropped \cup held[n]
  BY DEF NodeRestarts, ricVars
<1>2. UNCHANGED <<Phases, Outcomes, Active>>
  BY <1>1, SameCalls
<1>3. Served' = Served \ held[n]
  <2>1. \A k \in Nodes : k # n => held[k] \cap held[n] = {}
    BY DEF IInv, HeldWhereAsked
  <2>2. \A k \in Nodes : held'[k] = held[k] \ held[n]
    BY <1>1, <2>1 DEF IInv, TypeOK
  <2> QED
    BY <2>2 DEF Served
<1>4. held[n] \in SUBSET Served
  BY DEF Served
<1> QED
  BY <1>1, <1>2, <1>3, <1>4 DEF Service!Crash

LEMMA StepsOfService ==
  ASSUME IInv, [Next]_vars
  PROVE  [Service!Next]_(Service!serviceVars)
<1>1. CASE \/ \E n \in Nodes : Setup(n)
           \/ \E x \in XApps : RegisterXapp(x) \/ UnregisterXapp(x)
           \/ \E m \in net : NodeRefuses(m) \/ Lose(m)
           \/ \E n \in Nodes, i \in Ids : ReporterExits(n, i)
           \/ UNCHANGED vars
  BY <1>1, StuttersOfService
<1>2. ASSUME NEW x \in XApps, NEW n \in Nodes, CreateSubscription(x, n) PROVE Service!Next
  BY <1>2, CreateIsRequest DEF Service!Next
<1>3. ASSUME NEW i \in Ids, StoreAnswered(i) \/ StoreUnanswered(i) PROVE Service!Next
  BY <1>3, StoreIsListing DEF Service!Next
<1>4. ASSUME NEW i \in Ids, NEW c \in Deletions, BeginDelete(i, c)
      PROVE  [Service!Next]_(Service!serviceVars)
  BY <1>4, BeginDeleteIsAskingOrFailing DEF Service!Next
<1>5. ASSUME NEW i \in Ids, NEW c \in Deletions, DeleteAnswered(i, c) \/ DeleteUnanswered(i, c)
      PROVE  Service!Next
  BY <1>5, ForgetIsRemovingOrFailing DEF Service!Next
<1>6. ASSUME NEW m \in net, NodeSubscribes(m) \/ NodeDeletes(m) PROVE Service!Next
  BY <1>6, NodeSubscribesIsServing, NodeDeletesIsWithdrawing DEF Service!Next
<1>7. ASSUME NEW n \in Nodes, NodeRestarts(n) PROVE Service!Next
  BY <1>7, RestartIsCrash DEF Service!Next
<1> QED
  BY <1>1, <1>2, <1>3, <1>4, <1>5, <1>6, <1>7 DEF Next

LEMMA InitOfService == Init => Service!Init
<1> SUFFICES ASSUME Init PROVE Service!Init
  OBVIOUS
<1>1. Phases = [i \in Ids |-> "unused"]
  BY DEF Init, Phases, PhaseOf, Calls
<1>2. Outcomes = [i \in Ids |-> [d \in Deletions |-> "none"]]
  BY DEF Init, Outcomes, OutcomeOf, Calls
<1>3. Active = {} /\ Served = {}
  BY DEF Init, Active, Served
<1> QED
  BY <1>1, <1>2, <1>3 DEF Init, Service!Init

\* Whatever messages are late or lost and whatever nodes restart, RIC and nodes
\* go through the steps of the abstract subscription service, and no others.
THEOREM RicKeepsService == Spec => KeepsService
<1>1. IInv /\ [Next]_vars => [Service!Next]_(Service!serviceVars)
  BY StepsOfService
<1> QED
  BY <1>1, InitOfService, Invariance, PTL DEF Spec, KeepsService, Service!Spec
==============================================================================
