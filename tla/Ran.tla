---------------------------------- MODULE Ran ----------------------------------
(***************************************************************************)
(* The radio side: the gNB and its UE contexts (ran/gnb.py) with the AMF's  *)
(* answer to an initial UE message, the F1 contexts of DU and CU            *)
(* (ran/du.py, ran/cu.py), and the DU's RLC acknowledged mode and PDCP      *)
(* transmission.  Three groups that share no state.  No handler awaits once *)
(* its body is read, so a handler is a step; a call to the peer that fails  *)
(* leaves what was written before it.  RLC PDUs travel over a network that   *)
(* reorders, delays and repeats them.                                      *)
(***************************************************************************)
EXTENDS Integers, Sequences, FiniteSets

CONSTANTS
  MaxUes,               \* bound: UE contexts made on the gNB, and on the DU
  PduIds,               \* PDU sessions of a UE
  NoId,                 \* an identifier not known yet
  SnSize, RlcWindow,    \* 2^sn_field_length, and vr_mr, which never moves
  PdcpSnSize,           \* 2^sn_size of a bearer
  MaxSdus               \* bound: SDUs sent on a bearer

RanIds == 1..MaxUes
AmfIds == 1..MaxUes     \* the AMF draws 40 random bits; here the next number

GnbContexts == [amf : AmfIds \cup {NoId}, state : {"IDLE", "CONNECTED"}, sessions : SUBSET PduIds]

ASSUME RanAssumption ==
  /\ MaxUes \in Nat /\ MaxSdus \in Nat /\ PdcpSnSize \in Nat \ {0}
  /\ SnSize \in Nat \ {0} /\ RlcWindow \in 1..SnSize - 1
  /\ NoId \notin Nat \cup GnbContexts

-----------------------------------------------------------------------------
VARIABLES
  gnbUe,       \* ue_contexts of the gNB: RAN id -> [amf, state, sessions], or NoId
  ranCounter,  \* ran_ue_ngap_id_counter
  amfUe,       \* the AMF's context "ue-<RAN id>": its amfUeNgapId, or NoId
  amfCounter,  \* AMF ids given out
  unpaired,    \* history: RAN ids whose context has an id the AMF did not hold for them
  amfLink      \* amf_connection_established

gnbVars == <<gnbUe, ranCounter, amfUe, amfCounter, unpaired, amfLink>>

GnbInit ==
  /\ gnbUe = [r \in RanIds |-> NoId] /\ ranCounter = 1 /\ unpaired = {}
  /\ amfUe = [r \in RanIds |-> NoId] /\ amfCounter = 1 /\ amfLink \in BOOLEAN

\* The context stays when the AMF cannot be asked; the id in its answer is not read.
InitialUeMessage(answered) ==
  /\ ranCounter \in RanIds /\ ranCounter' = ranCounter + 1
  /\ gnbUe' = [gnbUe EXCEPT ![ranCounter] = [amf |-> NoId, state |-> "IDLE", sessions |-> {}]]
  /\ IF answered
     THEN /\ amfUe' = [amfUe EXCEPT ![ranCounter] = amfCounter]
          /\ amfCounter \in AmfIds /\ amfCounter' = amfCounter + 1
     ELSE UNCHANGED <<amfUe, amfCounter>>
  /\ UNCHANGED <<unpaired, amfLink>>

\* The AMF puts into its messages the ids its caller names, and nobody compares the pair
\* with its context: any known RAN id comes with any AMF id, or without one.
Bind(r, a) ==
  unpaired' = IF a # NoId /\ a = amfUe[r] THEN unpaired \ {r} ELSE unpaired \cup {r}

\* The first downlink message binds the context to the id it has; a later one does not.
DownlinkNasTransport(r, a) ==
  /\ gnbUe[r] # NoId
  /\ IF gnbUe[r].amf = NoId /\ a # NoId
     THEN gnbUe' = [gnbUe EXCEPT ![r].amf = a] /\ Bind(r, a)
     ELSE UNCHANGED <<gnbUe, unpaired>>
  /\ UNCHANGED <<ranCounter, amfUe, amfCounter, amfLink>>

UeContextSetup(r, a) ==
  /\ gnbUe[r] # NoId /\ Bind(r, a)
  /\ gnbUe' = [gnbUe EXCEPT ![r].amf = a, ![r].state = "CONNECTED"]
  /\ UNCHANGED <<ranCounter, amfUe, amfCounter, amfLink>>

PduSessionResourceSetup(r, ids) ==
  /\ gnbUe[r] # NoId
  /\ gnbUe' = [gnbUe EXCEPT ![r].sessions = @ \cup ids]
  /\ UNCHANGED <<ranCounter, amfUe, amfCounter, unpaired, amfLink>>

\* The target's context is new, under any id; the source's stays as it is.
HandoverRequest(a) ==
  /\ ranCounter \in RanIds /\ ranCounter' = ranCounter + 1
  /\ gnbUe' = [gnbUe EXCEPT ![ranCounter] = [amf |-> a, state |-> "CONNECTED", sessions |-> {}]]
  /\ unpaired' = unpaired \cup {ranCounter}
  /\ UNCHANGED <<amfUe, amfCounter, amfLink>>

\* The AMF drops the first context with that id and does not tell the gNB.
UeContextRelease(a) ==
  /\ \E r \in RanIds : amfUe[r] = a /\ amfUe' = [amfUe EXCEPT ![r] = NoId]
  /\ UNCHANGED <<gnbUe, ranCounter, amfCounter, unpaired, amfLink>>

\* An unreachable AMF takes the link down; nothing in the gNB brings it up again.
HeartbeatFails ==
  /\ amfLink /\ amfLink' = FALSE
  /\ UNCHANGED <<gnbUe, ranCounter, amfUe, amfCounter, unpaired>>

GnbNext ==
  \/ \E answered \in BOOLEAN : InitialUeMessage(answered)
  \/ \E r \in RanIds :
       \/ \E a \in AmfIds \cup {NoId} : DownlinkNasTransport(r, a) \/ UeContextSetup(r, a)
       \/ \E ids \in SUBSET PduIds : PduSessionResourceSetup(r, ids)
  \/ \E a \in AmfIds \cup {NoId} : HandoverRequest(a)
  \/ \E a \in AmfIds : UeContextRelease(a)
  \/ HeartbeatFails

\* A call that pairs the ids wrongly spoils no context but the one it names, and that only
\* until the next setup with the AMF's own pair: every other context that is connected
\* knows the id its uplink messages carry, it is the one the AMF holds for that UE, and
\* it is no other such context's.  A handover's context is never paired with the AMF's
\* (amf.py:540-552, 810-811; gnb.py:273-280, 301-314, 436-444, 759-766).
UplinkNamesItsUe ==
  LET paired == {r \in RanIds \ unpaired : gnbUe[r] # NoId} IN
  /\ \A r \in paired :
       /\ gnbUe[r].state = "CONNECTED" => gnbUe[r].amf # NoId
       /\ gnbUe[r].amf # NoId /\ amfUe[r] # NoId => gnbUe[r].amf = amfUe[r]
  /\ \A r, q \in paired : gnbUe[r].amf = gnbUe[q].amf => gnbUe[r].amf = NoId \/ r = q

-----------------------------------------------------------------------------
VARIABLES
  duUe,        \* ue_contexts of the DU: ids with mac_state ACTIVE; C-RNTI is 0x1000 + id
  cuUe,        \* ue_contexts of the CU: its id -> the DU's id
  answeredUes, \* history: ids whose call was answered SUCCESS
  refusedUes   \* history: ids to whose message the CU answered with an error

f1Vars == <<duUe, cuUe, answeredUes, refusedUes>>
F1Init == duUe = {} /\ cuUe = <<>> /\ answeredUes = {} /\ refusedUes = {}

\* The DU makes and schedules its context before it asks the CU, and keeps it when the
\* call fails; the CU may have made its own before the answer was lost.  The status of
\* an answer is not read: a refusal, too, is SUCCESS.
InitialUlRrcMessage(cu) ==
  LET d == Cardinality(duUe) + 1 IN
  /\ d <= MaxUes /\ duUe' = duUe \cup {d}
  /\ cuUe' = IF cu \in {"fails", "refuses"} THEN cuUe ELSE Append(cuUe, d)
  /\ answeredUes' = answeredUes \cup (IF cu \in {"answers", "refuses"} THEN {d} ELSE {})
  /\ refusedUes' = refusedUes \cup (IF cu = "refuses" THEN {d} ELSE {})

F1Next == \E cu \in {"fails", "answers", "refuses", "answerLost"} : InitialUlRrcMessage(cu)

\* The UEs the DU says are served are known to the CU under one context each, but for
\* those it refused, and the CU has no context for a UE the DU does not schedule
\* (du.py:574-612, cu.py:313-322, 455-469).
F1ContextsAgree ==
  /\ \A d \in answeredUes : d \in refusedUes \/ \E c \in DOMAIN cuUe : cuUe[c] = d
  /\ \A c, e \in DOMAIN cuUe : cuUe[c] \in duUe /\ (cuUe[c] = cuUe[e] => c = e)

-----------------------------------------------------------------------------
VARIABLES
  sent,       \* history: SDUs given to transmit_am_pdu; SDU i is the i-th
  vtS, txWindow,   \* sender: next SN; SN -> SDU not acknowledged
  inFlight,   \* <<SN, SDU>> somewhere in the network
  vrR, rxWindow,   \* receiver: next SN expected; SN -> SDU
  delivered,  \* SDUs returned to the caller, in order
  txCount, pdcpSns   \* PDCP: tx_count; the SN of each PDU sent

rlcVars == <<sent, vtS, txWindow, inFlight, vrR, rxWindow, delivered, txCount, pdcpSns>>

Nowhere == [sn \in 0..(SnSize - 1) |-> NoId]
RlcInit ==
  /\ sent = 0 /\ vtS = 0 /\ txWindow = Nowhere /\ inFlight = {}
  /\ vrR = 0 /\ rxWindow = Nowhere /\ delivered = <<>> /\ txCount = 0 /\ pdcpSns = <<>>

TransmitAmPdu ==
  /\ sent < MaxSdus /\ sent' = sent + 1
  /\ txWindow' = [txWindow EXCEPT ![vtS] = sent']
  /\ inFlight' = inFlight \cup {<<vtS, sent'>>} /\ vtS' = (vtS + 1) % SnSize
  /\ UNCHANGED <<vrR, rxWindow, delivered, txCount, pdcpSns>>

IsInReceiveWindow(sn) == IF vrR <= RlcWindow THEN vrR <= sn /\ sn < RlcWindow
                                            ELSE sn >= vrR \/ sn < RlcWindow

\* mutated form: whatever is in the window is handed on
ReceiveAmPduAnyOrder(pdu) ==
  /\ pdu \in inFlight /\ IsInReceiveWindow(pdu[1])
  /\ rxWindow' = [rxWindow EXCEPT ![pdu[1]] = pdu[2]]
  /\ vrR' = (vrR + 1) % SnSize /\ delivered' = Append(delivered, pdu[2])
  /\ UNCHANGED <<sent, vtS, txWindow, inFlight, txCount, pdcpSns>>

\* In the window it is kept; only the expected one is returned, and nothing kept with it.
ReceiveAmPdu(pdu) ==
  /\ pdu \in inFlight /\ IsInReceiveWindow(pdu[1])
  /\ rxWindow' = [rxWindow EXCEPT ![pdu[1]] = pdu[2]]
  /\ IF pdu[1] = vrR THEN vrR' = (vrR + 1) % SnSize /\ delivered' = Append(delivered, pdu[2])
                     ELSE UNCHANGED <<vrR, delivered>>
  /\ UNCHANGED <<sent, vtS, txWindow, inFlight, txCount, pdcpSns>>

PduLost(pdu) ==
  /\ pdu \in inFlight /\ inFlight' = inFlight \ {pdu}
  /\ UNCHANGED <<sent, vtS, txWindow, vrR, rxWindow, delivered, txCount, pdcpSns>>

\* The hyper frame number, which should count the wraps, is never changed.
TransmitPdcp ==
  /\ txCount < MaxSdus /\ txCount' = txCount + 1
  /\ pdcpSns' = Append(pdcpSns, txCount % PdcpSnSize)
  /\ UNCHANGED <<sent, vtS, txWindow, inFlight, vrR, rxWindow, delivered>>

RlcNext == TransmitAmPdu \/ TransmitPdcp \/ \E pdu \in inFlight : ReceiveAmPdu(pdu) \/ PduLost(pdu)

\* However the network reorders and repeats, and however far the sender, which does not
\* wait for the window, wraps its sequence numbers: what the receiver hands on in the i-th
\* place is the i-th SDU sent, or one sent whole laps of the numbers later.  And as vr_mr
\* never moves, it hands on no more than the first window (du.py:242-299).
RlcDeliversInOrder ==
  /\ \A i \in 1..Len(delivered) :
       delivered[i] <= sent /\ \E laps \in 0..sent : delivered[i] = i + laps * SnSize
  /\ Len(delivered) <= RlcWindow

\* "Deliver SDUs in sequence" (du.py:285): an SDU is handed on after those sent before it.
DeliveredInSequence ==
  \A i, j \in 1..Len(delivered) : i < j => delivered[i] < delivered[j]
=============================================================================
