-------------------------- MODULE CoreRegistration --------------------------
(***************************************************************************)
(* Registration in the 5G core: the NAS front end of the AMF               *)
(* (core_network/amf_nas.py), the AUSF's authentication contexts (ausf.py) *)
(* and the UDM's registrations (udm.py).  The NAS handlers call the AUSF,  *)
(* which calls the UDM, without a limit and without yielding: one handler  *)
(* is one step, whatever part of the chain is reached.                     *)
(***************************************************************************)
EXTENDS Naturals

CONSTANTS
  Supis,       \* subscribers
  Provisioned, \* those the UDM holds an authentication subscription for
  AuthIds,     \* authentication context ids the AUSF can draw (uuid4)
  NasSessions, \* PDU session ids the NAS front end can draw (uuid4)
  MaxEvents,   \* bound: authentication events kept per subscriber
  NoContext

AuthContexts == [supi : Supis, status : {"ONGOING", "SUCCESS", "FAILURE"}]

ASSUME RegistrationAssumption ==
  /\ Provisioned \subseteq Supis /\ MaxEvents \in Nat
  /\ NoContext \notin AuthContexts

VARIABLES
  nasDiscovered,    \* AMF-NAS: its start-up discovery was answered
  nasState,         \* AMF-NAS: registration_state of each context
  nasSecurity,      \* AMF-NAS: subscribers with a NAS security context
  nasSession,       \* AMF-NAS: pdu_sessions
  authContext,      \* AUSF: authentication_contexts
  amfRegistrations, \* UDM: subscribers with an AMF registration
  udmUeState,       \* UDM: ueState of ue_contexts
  authEvents        \* UDM: number of authentication_events

nasVars == <<nasDiscovered, nasState, nasSecurity, nasSession>>
udmVars == <<amfRegistrations, udmUeState, authEvents>>
regVars == <<nasVars, authContext, udmVars>>

\* nrf.py answers discovery only with a token, which amf_nas.py does not send:
\* beside it nasDiscovered stays FALSE; an NRF that asks for none makes it TRUE.
RegInit ==
  /\ nasDiscovered \in BOOLEAN
  /\ nasState = [s \in Supis |-> "none"]
  /\ nasSecurity = {}
  /\ nasSession = [p \in NasSessions |-> "none"]
  /\ authContext = [a \in AuthIds |-> NoContext]
  /\ amfRegistrations = {}
  /\ udmUeState = [s \in Supis |-> "none"]
  /\ authEvents = [s \in Supis |-> 0]
-----------------------------------------------------------------------------
(* AUSF and UDM. *)

\* amf_deregistration: the AMF whose callback is on file is not told.
AmfDeregistration(s) ==
  /\ amfRegistrations' = amfRegistrations \ {s}
  /\ udmUeState' = [udmUeState EXCEPT ![s] = IF @ = "none" THEN @ ELSE "DEREGISTERED"]
  /\ UNCHANGED <<nasVars, authContext, authEvents>>

\* amf_registration by an AMF whose GUAMI has an amfId; it replaces another
\* AMF's registration without a notice.
AmfRegistration(s) ==
  /\ amfRegistrations' = amfRegistrations \cup {s}
  /\ udmUeState' = [udmUeState EXCEPT ![s] = "REGISTERED"]
  /\ UNCHANGED <<nasVars, authContext, authEvents>>

\* ue_authentication_request: with a UDM that knows the subscriber the vector
\* comes back without hxresstar (KeyError, 500) and leaves an event; otherwise
\* the AUSF makes up its own vector and the context is ONGOING.
AuthOutcome(a, s, udmReached) ==
  IF udmReached /\ s \in Provisioned
  THEN /\ authEvents[s] < MaxEvents
       /\ authEvents' = [authEvents EXCEPT ![s] = @ + 1]
       /\ UNCHANGED authContext
  ELSE /\ authContext' = [authContext EXCEPT ![a] = [supi |-> s, status |-> "ONGOING"]]
       /\ UNCHANGED authEvents

UeAuthenticationRequest(a, s, udmReached) ==
  /\ authContext[a] = NoContext
  /\ AuthOutcome(a, s, udmReached)
  /\ UNCHANGED <<nasVars, amfRegistrations, udmUeState>>

\* authentication_confirmation: may be repeated, the last answer counts.
Confirmed(a, valid) ==
  /\ authContext[a] # NoContext
  /\ authContext' = [authContext EXCEPT ![a].status = IF valid THEN "SUCCESS" ELSE "FAILURE"]

AuthenticationConfirmation(a, valid) ==
  Confirmed(a, valid) /\ UNCHANGED <<nasVars, udmVars>>

DeleteAuthenticationContext(a) ==
  /\ authContext[a] # NoContext
  /\ authContext' = [authContext EXCEPT ![a] = NoContext]
  /\ UNCHANGED <<nasVars, udmVars>>
-----------------------------------------------------------------------------
(* AMF-NAS. *)

\* process_registration_request where the AUSF answers with a challenge.
RegistrationChallenged(s, a, udmReached) ==
  /\ nasDiscovered /\ authContext[a] = NoContext
  /\ AuthOutcome(a, s, udmReached) /\ authContext' # authContext
  /\ nasState' = [nasState EXCEPT ![s] = "INITIAL"]
  /\ UNCHANGED <<nasDiscovered, nasSecurity, nasSession, amfRegistrations, udmUeState>>

\* The same handler when no authentication is asked for or it returned None:
\* accepted at once.  The UDM refuses the registration, whose GUAMI lacks the
\* amfId it requires.  A repeated request of a challenged subscriber ends here
\* too, and so does one whose AUSF answered 500 and left an event.
RegistrationAccepted(s) ==
  /\ nasState' = [nasState EXCEPT ![s] = "REGISTERED"]
  /\ \/ UNCHANGED authEvents
     \/ /\ nasDiscovered /\ s \in Provisioned /\ authEvents[s] < MaxEvents
        /\ authEvents' = [authEvents EXCEPT ![s] = @ + 1]
  /\ UNCHANGED <<nasDiscovered, nasSecurity, nasSession, authContext,
                 amfRegistrations, udmUeState>>

\* process_authentication_response: the context id is the caller's choice.
AuthenticationResponse(s, a, valid) ==
  /\ nasDiscovered /\ Confirmed(a, valid)
  /\ nasSecurity' = IF valid /\ nasState[s] # "none" THEN nasSecurity \cup {s} ELSE nasSecurity
  /\ UNCHANGED <<nasDiscovered, nasState, nasSession, udmVars>>

\* process_security_mode_complete.
SecurityModeComplete(s) ==
  /\ nasState[s] # "none"
  /\ nasState' = [nasState EXCEPT ![s] = "REGISTERED"]
  /\ UNCHANGED <<nasDiscovered, nasSecurity, nasSession, authContext, udmVars>>

\* process_pdu_session_establishment_request: ACTIVE whether or not there is
\* an SMF and whatever it answers; one that cannot be reached leaves CREATING.
NasPduSession(p, reached) ==
  /\ nasSession[p] = "none"
  /\ nasSession' = [nasSession EXCEPT ![p] = IF nasDiscovered /\ ~reached THEN "CREATING"
                                                                          ELSE "ACTIVE"]
  /\ UNCHANGED <<nasDiscovered, nasState, nasSecurity, authContext, udmVars>>
-----------------------------------------------------------------------------
RegNext ==
  \/ \E s \in Supis : AmfRegistration(s) \/ AmfDeregistration(s)
  \/ \E a \in AuthIds, s \in Supis, reached \in BOOLEAN :
       \/ UeAuthenticationRequest(a, s, reached)
       \/ RegistrationChallenged(s, a, reached)
       \/ AuthenticationResponse(s, a, reached)
  \/ \E a \in AuthIds, valid \in BOOLEAN : AuthenticationConfirmation(a, valid)
  \/ \E a \in AuthIds : DeleteAuthenticationContext(a)
  \/ \E s \in Supis : RegistrationAccepted(s) \/ SecurityModeComplete(s)
  \/ \E p \in NasSessions, reached \in BOOLEAN : NasPduSession(p, reached)

RegTypeOK ==
  /\ nasDiscovered \in BOOLEAN
  /\ nasState \in [Supis -> {"none", "INITIAL", "REGISTERED"}]
  /\ nasSecurity \subseteq Supis
  /\ nasSession \in [NasSessions -> {"none", "CREATING", "ACTIVE"}]
  /\ authContext \in [AuthIds -> AuthContexts \cup {NoContext}]
  /\ amfRegistrations \subseteq Supis
  /\ udmUeState \in [Supis -> {"none", "REGISTERED", "DEREGISTERED"}]
  /\ authEvents \in [Supis -> 0..MaxEvents]

\* The two dictionaries of the UDM tell the same of a subscriber: REGISTERED
\* exactly while an AMF's registration is on file (udm.py:330-418).
UdmViewsAgree == \A s \in Supis : (s \in amfRegistrations) <=> (udmUeState[s] = "REGISTERED")
=============================================================================
