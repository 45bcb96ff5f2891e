-------------------------------- MODULE Ims --------------------------------
(***************************************************************************)
(* IMS registration: the S-CSCF's registrar (core_network/scscf.py), which *)
(* waits for the IMS HSS at each challenge, registration and               *)
(* deregistration and takes success for granted when the HSS does not      *)
(* answer; the HSS's subscriptions (ims_hss.py); the I-CSCF's pool of      *)
(* S-CSCFs (icscf.py); and the P-CSCF's contacts (pcscf.py).               *)
(***************************************************************************)
EXTENDS Integers, FiniteSets

CONSTANTS
  Impus,        \* public identities
  Impis,        \* private identities: of subscriptions, and those clients name
  PoolUsers,    \* users the I-CSCF assigns to an S-CSCF
  Procedures,   \* SIP REGISTER requests the S-CSCF receives
  Scscfs,       \* S-CSCFs the I-CSCF's pool may list
  MaxContacts,  \* bound: contacts of one record, and records of one identity
  MaxAssigned,  \* bound: registrations the I-CSCF counts for one S-CSCF
  Gone,         \* no record, no subscription, not started
  Over          \* a request that is done with

RegStates == {"not_registered", "registered"}
UserRecords == [state : RegStates, contacts : 0..MaxContacts, record : 1..MaxContacts]
Subscriptions == [state : RegStates, impus : SUBSET Impus]
RegisterRequests ==
  [kind : {"mar", "register", "deregister"}, impu : Impus, impi : Impis, record : 0..MaxContacts,
   cx : {"sent", "handled", "unknown", "late"}, alone : BOOLEAN]

ASSUME ImsAssumption ==
  /\ MaxContacts \in Nat /\ MaxAssigned \in Nat /\ IsFiniteSet(PoolUsers)
  /\ Gone \notin Scscfs \cup RegStates \cup UserRecords \cup RegisterRequests \cup Impis \cup Subscriptions
  /\ Gone # Over /\ Over \notin RegisterRequests

VARIABLES
  user,         \* S-CSCF users: state, number of contacts, which record it is
  records,      \* records created so far for each identity
  authVectors,  \* vectors left for each private identity
  imsSub,       \* HSS subscriptions: one state for all their public identities
  impuToImpi,   \* the HSS's index: the subscription of a public identity
  procedure,    \* each REGISTER under way
  reconciled,   \* history: identities settled by an undisturbed exchange, unchanged since
  pool,         \* I-CSCF: the S-CSCFs listed
  assigned,     \* user_scscf_map
  subscribers,  \* current_subscribers of each entry
  contactOf     \* P-CSCF: address of record -> its contact's state, or Gone

scscfVars == <<user, records, authVectors, imsSub, impuToImpi, procedure, reconciled>>
icscfVars == <<pool, assigned, subscribers>>
pcscfVars == <<contactOf>>

ImsInit ==
  /\ user = [i \in Impus |-> Gone] /\ records = [i \in Impus |-> 0]
  /\ authVectors = [m \in Impis |-> 0]
  /\ impuToImpi \in [Impus -> Impis \cup {Gone}]
  /\ imsSub = [m \in Impis |-> LET ids == {i \in Impus : impuToImpi[i] = m}
                              IN IF ids = {} THEN Gone ELSE [state |-> "not_registered", impus |-> ids]]
  /\ procedure = [p \in Procedures |-> Gone] /\ reconciled = Impus
  /\ pool = Scscfs /\ assigned = [i \in PoolUsers |-> Gone] /\ subscribers = [s \in Scscfs |-> 0]
  /\ contactOf = [i \in Impus |-> Gone]
-----------------------------------------------------------------------------
(* A REGISTER at the S-CSCF waits for the HSS: "sent", then "handled" or   *)
(* "unknown" (no such subscription), until it is answered or times out; a  *)
(* request that timed out may still be handled ("late").                   *)

Waits(p) == procedure[p] \notin {Gone, Over}
Underway(i) == {p \in Procedures : Waits(p) /\ procedure[p].impu = i}
Moved(p, cx) == IF cx = "over" THEN Over ELSE [procedure[p] EXCEPT !.cx = cx]

Send(p, kind, i, m) ==
  procedure' = [q \in Procedures |->
    IF q = p THEN [kind |-> kind, impu |-> i, impi |-> m, cx |-> "sent", alone |-> Underway(i) = {},
                   record |-> IF user[i] = Gone THEN 0 ELSE user[i].record]
    ELSE IF q \in Underway(i) THEN [procedure[q] EXCEPT !.alone = FALSE] ELSE procedure[q]]

\* handle_register without an Authorization header: a MAR for vectors. The
\* two identities are what the client says; nobody checks they belong together.
ChallengeRegister(p, i, m) ==
  /\ procedure[p] = Gone /\ Send(p, "mar", i, m)
  /\ UNCHANGED <<user, records, authVectors, imsSub, impuToImpi, reconciled>>

\* With one, and a vector left: it is used up, and a SAR goes to the HSS.
AnswerChallenge(p, i, m) ==
  /\ procedure[p] = Gone /\ authVectors[m] > 0
  /\ authVectors' = [authVectors EXCEPT ![m] = @ - 1]
  /\ Send(p, "register", i, m)
  /\ UNCHANGED <<user, records, imsSub, impuToImpi, reconciled>>

Deregister(p, i, m) ==
  /\ procedure[p] = Gone /\ Send(p, "deregister", i, m)
  /\ UNCHANGED <<user, records, authVectors, imsSub, impuToImpi, reconciled>>

\* get_subscription_by_impu, down to what it holds: one registration state
\* for the subscription, whichever of its identities is asked for.
RegState(i) ==
  IF impuToImpi[i] = Gone \/ imsSub[impuToImpi[i]] = Gone THEN Gone ELSE imsSub[impuToImpi[i]].state

\* history: the requests under way for these identities are no longer alone
Overtaken(ids) ==
  [q \in Procedures |-> IF \E i \in ids : q \in Underway(i) THEN [procedure[q] EXCEPT !.alone = FALSE]
                        ELSE procedure[q]]
Changed == {i \in Impus : RegState(i)' # RegState(i)}

\* The HSS's answer to p: a MAR is looked up by the private, then by the public identity.
HssAnswer(p) ==
  IF procedure[p].cx = "late" THEN "over"
  ELSE IF \/ RegState(procedure[p].impu) # Gone
          \/ procedure[p].kind = "mar" /\ imsSub[procedure[p].impi] # Gone
       THEN "handled" ELSE "unknown"

\* mutated form: the HSS keeps the registration
HssHandlesKeepingState(p) ==
  /\ Waits(p) /\ procedure[p].cx \in {"sent", "late"}
  /\ UNCHANGED <<user, records, authVectors, impuToImpi>>
  /\ LET i == procedure[p].impu
     IN /\ imsSub' = IF procedure[p].kind # "register" \/ RegState(i) = Gone THEN imsSub
                     ELSE [imsSub EXCEPT ![impuToImpi[i]].state = "registered"]
        /\ procedure' = [Overtaken(Changed \ {i}) EXCEPT ![p] = Moved(p, HssAnswer(p))]
        /\ reconciled' = reconciled \ (Changed \ {i})

\* multimedia_auth_request, server_assignment_request: whoever shares the
\* subscription is registered and deregistered with i, unasked.
HssHandles(p) ==
  /\ Waits(p) /\ procedure[p].cx \in {"sent", "late"}
  /\ UNCHANGED <<user, records, authVectors, impuToImpi>>
  /\ LET i == procedure[p].impu
         new == IF procedure[p].kind = "register" THEN "registered" ELSE "not_registered"
     IN /\ imsSub' = IF procedure[p].kind = "mar" \/ RegState(i) = Gone THEN imsSub
                     ELSE [imsSub EXCEPT ![impuToImpi[i]].state = new]
        /\ procedure' = [Overtaken(Changed \ {i}) EXCEPT ![p] = Moved(p, HssAnswer(p))]
        /\ reconciled' = reconciled \ (Changed \ {i})

\* The contact goes to the record that is there now; the state to the one
\* that was there before the SAR.
SaveContact(i, known) ==
  IF known = 0
  THEN /\ user' = [user EXCEPT ![i] = [state |-> "registered", contacts |-> 1, record |-> records[i] + 1]]
       /\ records' = [records EXCEPT ![i] = @ + 1]
  ELSE /\ user' = IF user[i] = Gone THEN user          \* ValueError, 500
                  ELSE [user EXCEPT ![i].contacts = @ + 1,
                                    ![i].state = IF user[i].record = known THEN "registered" ELSE @]
       /\ UNCHANGED records

DeleteAllContacts(i) ==
  /\ user' = IF user[i] = Gone THEN user
             ELSE [user EXCEPT ![i].contacts = 0, ![i].state = "not_registered"]
  /\ UNCHANGED records

Fits(i) == records[i] < MaxContacts /\ (user[i] # Gone => user[i].contacts < MaxContacts)

\* What the S-CSCF does with a result: `vectors` are what the MAR brought.
Conclude(p, success, vectors) ==
  LET i == procedure[p].impu
  IN CASE procedure[p].kind = "mar" ->
            /\ authVectors' = IF success THEN [authVectors EXCEPT ![procedure[p].impi] = vectors] ELSE authVectors
            /\ UNCHANGED <<user, records>>
       [] procedure[p].kind = "register" ->
            /\ IF success THEN Fits(i) /\ SaveContact(i, procedure[p].record)
               ELSE UNCHANGED <<user, records>>
            /\ UNCHANGED authVectors
       [] OTHER -> DeleteAllContacts(i) /\ UNCHANGED authVectors   \* result unread

Answered(p) ==
  /\ Waits(p) /\ procedure[p].cx \in {"handled", "unknown"}
  /\ Conclude(p, procedure[p].cx = "handled", 3)
  /\ procedure' = [procedure EXCEPT ![p] = Over]
  /\ reconciled' = IF procedure[p].kind = "mar" \/ (procedure[p].kind = "register" /\ procedure[p].cx = "unknown")
                   THEN reconciled
                   ELSE IF procedure[p].alone THEN reconciled \cup {procedure[p].impu}
                   ELSE reconciled \ {procedure[p].impu}
  /\ UNCHANGED <<imsSub, impuToImpi>>

\* mutated form: no timeout on the request itself
TimedOutOnceHandled(p) ==
  /\ Waits(p) /\ procedure[p].cx \in {"handled", "unknown"}
  /\ Conclude(p, TRUE, 1)
  /\ procedure' = [procedure EXCEPT ![p] = Over]
  /\ reconciled' = IF procedure[p].kind = "mar" THEN reconciled ELSE reconciled \ {procedure[p].impu}
  /\ UNCHANGED <<imsSub, impuToImpi>>

\* send_sar_to_hss, send_mar_to_hss without an answer in five seconds: a
\* success made up locally, with a single vector.
TimedOut(p) ==
  /\ Waits(p) /\ procedure[p].cx \in {"sent", "handled", "unknown"}
  /\ Conclude(p, TRUE, 1)
  /\ procedure' = [procedure EXCEPT ![p] = Moved(p, IF procedure[p].cx = "sent" THEN "late" ELSE "over")]
  /\ reconciled' = IF procedure[p].kind = "mar" THEN reconciled ELSE reconciled \ {procedure[p].impu}
  /\ UNCHANGED <<imsSub, impuToImpi>>

\* DELETE /users/{impu} at the S-CSCF.
DeleteUser(i) ==
  /\ user[i] # Gone
  /\ user' = [user EXCEPT ![i] = Gone] /\ reconciled' = reconciled \ {i} /\ procedure' = Overtaken({i})
  /\ UNCHANGED <<records, authVectors, imsSub, impuToImpi>>

\* The operator at the HSS: a new subscription takes the index of its
\* identities over from whoever had them, a deleted one takes them with it.
CreateSubscription(m, ids) ==
  /\ imsSub[m] = Gone
  /\ imsSub' = [imsSub EXCEPT ![m] = [state |-> "not_registered", impus |-> ids]]
  /\ impuToImpi' = [i \in Impus |-> IF i \in ids THEN m ELSE impuToImpi[i]]
DeleteSubscription(m) ==
  /\ imsSub[m] # Gone
  /\ imsSub' = [imsSub EXCEPT ![m] = Gone]
  /\ impuToImpi' = [i \in Impus |-> IF i \in imsSub[m].impus THEN Gone ELSE impuToImpi[i]]
TerminateRegistration(m) ==
  /\ imsSub[m] # Gone
  /\ imsSub' = [imsSub EXCEPT ![m].state = "not_registered"] /\ UNCHANGED impuToImpi
Operate(m) ==
  /\ \/ \E i, j \in Impus : CreateSubscription(m, {i, j})
     \/ DeleteSubscription(m) \/ TerminateRegistration(m)
  /\ reconciled' = reconciled \ Changed /\ procedure' = Overtaken(Changed)
  /\ UNCHANGED <<user, records, authVectors>>

ScscfNext ==
  \/ \E p \in Procedures :
       \/ \E i \in Impus, m \in Impis : ChallengeRegister(p, i, m) \/ AnswerChallenge(p, i, m) \/ Deregister(p, i, m)
       \/ HssHandles(p) \/ Answered(p) \/ TimedOut(p)
  \/ \E i \in Impus : DeleteUser(i)
  \/ \E m \in Impis : Operate(m)
-----------------------------------------------------------------------------
(* I-CSCF.                                                                  *)

\* handle_register: the S-CSCF the HSS names or, when it does not answer, the
\* pool does. A user who registers again is counted again.
RegisterThrough(i, s) ==
  /\ s \in pool /\ subscribers[s] < MaxAssigned
  /\ assigned' = [assigned EXCEPT ![i] = s]
  /\ subscribers' = [subscribers EXCEPT ![s] = @ + 1]
  /\ UNCHANGED pool
RemoveScscf(s) ==
  /\ s \in pool /\ pool' = pool \ {s} /\ UNCHANGED <<assigned, subscribers>>

IcscfNext == \E s \in Scscfs : RemoveScscf(s) \/ \E i \in PoolUsers : RegisterThrough(i, s)

(* P-CSCF: registers at once, by address of record.                         *)
PcscfNext ==
  \E i \in Impus :
    \/ \E mechanism \in {"digest", "ipsec"} : contactOf' = [contactOf EXCEPT ![i] = mechanism]
    \/ contactOf[i] # Gone /\ contactOf' = [contactOf EXCEPT ![i] = Gone]

ImsTypeOK ==
  /\ user \in [Impus -> UserRecords \cup {Gone}]
  /\ records \in [Impus -> 0..MaxContacts] /\ authVectors \in [Impis -> 0..3]
  /\ imsSub \in [Impis -> Subscriptions \cup {Gone}] /\ impuToImpi \in [Impus -> Impis \cup {Gone}]
  /\ procedure \in [Procedures -> RegisterRequests \cup {Gone, Over}]
  /\ reconciled \subseteq Impus /\ pool \subseteq Scscfs
  /\ assigned \in [PoolUsers -> Scscfs \cup {Gone}] /\ subscribers \in [Scscfs -> 0..MaxAssigned]
  /\ contactOf \in [Impus -> {"digest", "ipsec", Gone}]

\* Whatever crosses on the way (scscf.py:540-715), a registered user has a
\* contact; and once its requests are over, the S-CSCF and the HSS agree on
\* who is registered if the last of them ran undisturbed and was answered:
\* only an HSS that was silent (332-349), requests that overlapped, a change
\* by the operator or one that another public identity of the subscription
\* made (ims_hss.py:632-651 keep one state for all of them) explains a
\* difference. And the index leads to a subscription that has the identity.
RegistrarsAgree ==
  /\ \A i \in Impus :
       /\ user[i] # Gone /\ user[i].state = "registered" => user[i].contacts > 0
       /\ i \in reconciled /\ Underway(i) = {} =>
            ((user[i] # Gone /\ user[i].state = "registered") <=> RegState(i) = "registered")
  /\ \A i \in Impus : impuToImpi[i] # Gone =>
       imsSub[impuToImpi[i]] # Gone /\ i \in imsSub[impuToImpi[i]].impus

\* No S-CSCF counts fewer users than lead to it (icscf.py:229-241).
LoadCoversAssignments ==
  \A s \in Scscfs : Cardinality({i \in PoolUsers : assigned[i] = s}) <= subscribers[s]

ImsProgress(p) == Answered(p) \/ TimedOut(p)
\* A REGISTER gets its answer, whether the HSS is there or not
\* (scscf.py:332-349, 361-390).
RegistersEnd ==
  \A p \in Procedures :
    Waits(p) ~> (procedure[p] = Over \/ (Waits(p) /\ procedure[p].cx = "late"))
=============================================================================
