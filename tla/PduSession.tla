----------------------------- MODULE PduSession -----------------------------
(***************************************************************************)
(* PDU session establishment across the AMF, the SMF and the UPF           *)
(* (core_network/amf.py, smf.py, upf.py).  Each is a process of its own    *)
(* whose handlers make blocking calls with a five-second limit: while one  *)
(* waits for its peer it serves nothing else, and a peer that answers too  *)
(* late has still done its work.  An NF looks its peer up at the NRF once, *)
(* when it starts, and keeps everything it knows in memory.                *)
(***************************************************************************)
EXTENDS Naturals, FiniteSets

CONSTANTS
  UEs,        \* keys of the AMF's ue_contexts; a key determines its SUPI
  Calls,      \* bound: PDU session requests sent to the AMF
  MaxRestarts \* bound: restarts of the three functions together

NFs == {"AMF", "SMF", "UPF"}

\* len(ue_contexts) + 1, or 0 while the context has no id.
PduSessionIds == 0..(Cardinality(UEs) + 1)

\* How far a request has come at each of the three functions.
CallRecords ==
  [ue  : UEs,
   pid : PduSessionIds,
   amf : {"unused", "waiting", "success", "failed"},
   smf : {"unused", "queued", "n4", "created", "failed", "forgotten"},
   upf : {"unused", "queued", "done", "released", "forgotten"}]

ASSUME PduAssumption == IsFiniteSet(UEs) /\ MaxRestarts \in Nat

VARIABLES
  running,         \* functions that have been started
  restarts,        \* how often one of them was started again
  smfUrl,          \* AMF: the SMF has been discovered
  upfUrl,          \* SMF: the UPF has been discovered
  ueContexts,      \* AMF: keys of ue_contexts
  pduSessionId,    \* AMF: id a context carries, 0 for none
  call,            \* the requests and where they have got to
  smfSessions,     \* SMF: keys <<supi, id>> of session_contexts, all ACTIVE
  pfcpSessions,    \* UPF: pfcp_sessions, by the id in "smf-seid-<id>"
  forwardingRule   \* UPF: session the only rule belongs to, 0 for none: every
                   \* PDR names the one address "10.0.0.1"

amfVars == <<smfUrl, ueContexts, pduSessionId>>
smfVars == <<upfUrl, smfSessions>>
upfVars == <<pfcpSessions, forwardingRule>>
nfVars == <<running, restarts>>
pduVars == <<nfVars, amfVars, smfVars, upfVars, call>>

PduInit ==
  /\ running = {} /\ restarts = 0
  /\ smfUrl = FALSE /\ upfUrl = FALSE
  /\ ueContexts = {}
  /\ pduSessionId = [u \in UEs |-> 0]
  /\ call \in [Calls -> {[ue |-> u, pid |-> 0, amf |-> "unused",
                          smf |-> "unused", upf |-> "unused"] : u \in UEs}]
  /\ smfSessions = {} /\ pfcpSessions = {} /\ forwardingRule = 0

\* Single-threaded: neither serves anything while its own call is out.
AmfFree == "AMF" \in running /\ \A c \in Calls : call[c].amf # "waiting"
SmfFree == "SMF" \in running /\ \A c \in Calls : call[c].smf # "n4"
-----------------------------------------------------------------------------
(* Start-up: registration at the NRF and the one discovery of the peer. *)

\* A start, or a restart: memory is gone, and so are the connections.
Started(nf) ==
  /\ running' = running \cup {nf}
  /\ IF nf \in running THEN restarts < MaxRestarts /\ restarts' = restarts + 1
                       ELSE UNCHANGED restarts

\* lifespan of amf.py; the request it waited on loses its client.
StartAmf ==
  /\ Started("AMF")
  /\ smfUrl' = ("SMF" \in running)
  /\ ueContexts' = {}
  /\ pduSessionId' = [u \in UEs |-> 0]
  /\ call' = [c \in Calls |->
                IF call[c].amf = "waiting" THEN [call[c] EXCEPT !.amf = "failed"]
                                           ELSE call[c]]
  /\ UNCHANGED <<smfVars, upfVars>>

\* lifespan of smf.py; requests that waited here end with an error at the AMF.
StartSmf ==
  /\ Started("SMF")
  /\ upfUrl' = ("UPF" \in running)
  /\ smfSessions' = {}
  /\ call' = [c \in Calls |->
                CASE call[c].smf \in {"queued", "n4"} -> [call[c] EXCEPT !.smf = "failed"]
                  [] call[c].smf = "created" -> [call[c] EXCEPT !.smf = "forgotten"]
                  [] OTHER -> call[c]]
  /\ UNCHANGED <<amfVars, upfVars>>

\* lifespan of upf.py; a request that waited here ends with an error (502).
StartUpf ==
  /\ Started("UPF")
  /\ pfcpSessions' = {} /\ forwardingRule' = 0
  /\ call' = [c \in Calls |->
                CASE call[c].upf = "queued" ->
                       [call[c] EXCEPT !.upf = "forgotten",
                                       !.smf = IF @ = "n4" THEN "failed" ELSE @]
                  [] call[c].upf = "done" -> [call[c] EXCEPT !.upf = "forgotten"]
                  [] OTHER -> call[c]]
  /\ UNCHANGED <<amfVars, smfVars>>
-----------------------------------------------------------------------------
(* AMF: UE contexts. *)

\* register_ue, initial_ue_message and create_ue_context all write a fresh
\* context over whatever the key stood for.
NewContext(u) ==
  /\ AmfFree
  /\ ueContexts' = ueContexts \cup {u}
  /\ pduSessionId' = [pduSessionId EXCEPT ![u] = 0]
  /\ UNCHANGED <<nfVars, smfUrl, call, smfVars, upfVars>>

\* deregister_ue and ue_context_release: the context goes, its pduSessions
\* list was never filled, and the SMF is not told.
RemoveContext(u) ==
  /\ AmfFree /\ u \in ueContexts
  /\ ueContexts' = ueContexts \ {u}
  /\ pduSessionId' = [pduSessionId EXCEPT ![u] = 0]
  /\ UNCHANGED <<nfVars, smfUrl, call, smfVars, upfVars>>
-----------------------------------------------------------------------------
(* The way of a request. *)

\* create_pdu_session and trigger_pdu_session_creation up to the call.
CreatePduSession(c) ==
  LET u == call[c].ue
      id == IF pduSessionId[u] # 0 THEN pduSessionId[u] ELSE Cardinality(ueContexts) + 1
  IN /\ AmfFree /\ call[c].amf = "unused" /\ u \in ueContexts
     /\ pduSessionId' = [pduSessionId EXCEPT ![u] = id]
     /\ call' = [call EXCEPT ![c] =
                   IF smfUrl THEN [@ EXCEPT !.pid = id, !.amf = "waiting", !.smf = "queued"]
                             ELSE [@ EXCEPT !.pid = id, !.amf = "failed"]]
     /\ UNCHANGED <<nfVars, smfUrl, ueContexts, smfVars, upfVars>>

\* create_sm_context and _send_pfcp_establishment_request up to the N4 call;
\* a request whose client has given up is served like any other.
CreateSmContext(c) ==
  /\ SmfFree /\ call[c].smf = "queued"
  /\ call' = [call EXCEPT ![c] =
                IF upfUrl THEN [@ EXCEPT !.smf = "n4", !.upf = "queued"]
                          ELSE [@ EXCEPT !.smf = "failed"]]
  /\ UNCHANGED <<nfVars, amfVars, smfVars, upfVars>>

\* n4_session_management, establishment: the session's and the rule's
\* earlier entries are overwritten.
EstablishN4(c) ==
  /\ call[c].upf = "queued"
  /\ pfcpSessions' = pfcpSessions \cup {call[c].pid}
  /\ forwardingRule' = call[c].pid
  /\ call' = [call EXCEPT ![c].upf = "done"]
  /\ UNCHANGED <<nfVars, amfVars, smfVars>>

\* mutated form: the session is dropped, its forwarding rule is not
DeleteN4KeepingRule(id) ==
  /\ id \in pfcpSessions
  /\ pfcpSessions' = pfcpSessions \ {id}
  /\ call' = [c \in Calls |-> IF call[c].pid = id /\ call[c].upf = "done"
                              THEN [call[c] EXCEPT !.upf = "released"] ELSE call[c]]
  /\ UNCHANGED <<nfVars, amfVars, smfVars, forwardingRule>>

\* n4_session_management, deletion by whoever calls the N4 endpoint: the SMF
\* never does.
DeleteN4(id) ==
  /\ id \in pfcpSessions
  /\ pfcpSessions' = pfcpSessions \ {id}
  /\ forwardingRule' = IF forwardingRule = id THEN 0 ELSE forwardingRule
  /\ call' = [c \in Calls |-> IF call[c].pid = id /\ call[c].upf = "done"
                              THEN [call[c] EXCEPT !.upf = "released"] ELSE call[c]]
  /\ UNCHANGED <<nfVars, amfVars, smfVars>>

\* The answer from N4 arrives: the session is stored as ACTIVE.
N4Answered(c) ==
  /\ call[c].smf = "n4" /\ call[c].upf \in {"done", "released", "forgotten"}
  /\ smfSessions' = smfSessions \cup {<<call[c].ue, call[c].pid>>}
  /\ call' = [call EXCEPT ![c].smf = "created"]
  /\ UNCHANGED <<nfVars, amfVars, upfUrl, upfVars>>

\* No answer in five seconds (502): nothing is stored, the UPF not told.
N4TimedOut(c) ==
  /\ call[c].smf = "n4"
  /\ call' = [call EXCEPT ![c].smf = "failed"]
  /\ UNCHANGED <<nfVars, amfVars, smfVars, upfVars>>

SmfAnswered(c) ==
  /\ call[c].amf = "waiting" /\ call[c].smf \in {"created", "forgotten", "failed"}
  /\ call' = [call EXCEPT ![c].amf = IF call[c].smf = "failed" THEN "failed" ELSE "success"]
  /\ UNCHANGED <<nfVars, amfVars, smfVars, upfVars>>

\* mutated form: the AMF sends the request again, as often as it takes
SmfTimedOutRetrying(c) ==
  /\ call[c].amf = "waiting"
  /\ call' = [call EXCEPT ![c].smf = "queued", ![c].upf = "unused"]
  /\ UNCHANGED <<nfVars, amfVars, smfVars, upfVars>>

\* trigger_pdu_session_creation gives up after five seconds (500).
SmfTimedOut(c) ==
  /\ call[c].amf = "waiting"
  /\ call' = [call EXCEPT ![c].amf = "failed"]
  /\ UNCHANGED <<nfVars, amfVars, smfVars, upfVars>>
-----------------------------------------------------------------------------
\* What the processes go on with by themselves: limits expire, queues are served.
PduProgress(c) ==
  \/ CreateSmContext(c) \/ EstablishN4(c)
  \/ N4Answered(c) \/ N4TimedOut(c)
  \/ SmfAnswered(c) \/ SmfTimedOut(c)

PduRequests == \E u \in UEs : NewContext(u) \/ RemoveContext(u)

PduNext ==
  \/ StartAmf \/ StartSmf \/ StartUpf
  \/ PduRequests
  \/ \E c \in Calls : CreatePduSession(c) \/ PduProgress(c)
  \/ \E id \in PduSessionIds : DeleteN4(id)
-----------------------------------------------------------------------------
PduTypeOK ==
  /\ running \subseteq NFs /\ restarts \in 0..MaxRestarts
  /\ smfUrl \in BOOLEAN /\ upfUrl \in BOOLEAN
  /\ ueContexts \subseteq UEs
  /\ pduSessionId \in [UEs -> PduSessionIds]
  /\ call \in [Calls -> CallRecords]
  /\ smfSessions \subseteq UEs \X PduSessionIds
  /\ pfcpSessions \subseteq PduSessionIds
  /\ forwardingRule \in PduSessionIds

\* A session the SMF lists rests on an answered N4 request.
ListedSessionsWereInstalled ==
  \A s \in smfSessions : \E c \in Calls :
    /\ <<call[c].ue, call[c].pid>> = s /\ call[c].smf = "created"
    /\ call[c].upf \in {"done", "released", "forgotten"}

\* What was reported as SUCCESS is listed at the SMF, and what the SMF created
\* is at the UPF, unless a restart or a deletion came in between.
SuccessIsBacked ==
  \A c \in Calls :
    /\ call[c].amf = "success" => call[c].smf \in {"created", "forgotten"}
    /\ call[c].smf = "created" => <<call[c].ue, call[c].pid>> \in smfSessions
    /\ call[c].upf = "done" => call[c].pid \in pfcpSessions

\* No rule forwards for a session the UPF does not have.
RuleHasSession == forwardingRule # 0 => forwardingRule \in pfcpSessions

\* A session at the UPF that the SMF does not list is one whose SMF gave up
\* waiting, was restarted, or has the answer still to come.
OrphansExplained ==
  \A id \in pfcpSessions :
    \/ \E u \in UEs : <<u, id>> \in smfSessions
    \/ \E c \in Calls : /\ call[c].pid = id /\ call[c].upf = "done"
                        /\ call[c].smf \in {"n4", "failed", "forgotten"}

\* The AMF's, the SMF's and the UPF's views of a PDU session agree, whatever
\* answers came too late (amf.py:398, smf.py:196) and whatever restarted,
\* except for what a missing answer, a restart or an N4 deletion explains.
SessionsAgree ==
  ListedSessionsWereInstalled /\ SuccessIsBacked /\ RuleHasSession /\ OrphansExplained

\* Every request the AMF takes on is answered, whatever its peers do: both
\* calls of the chain have a limit (amf.py:398, smf.py:196).
CreateCallsEnd == \A c \in Calls : (call[c].amf = "waiting") ~> (call[c].amf # "waiting")
=============================================================================
