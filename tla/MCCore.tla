-------------------------------- MODULE MCCore --------------------------------
(***************************************************************************)
(* The functions of the 5G core, the EPC and the IMS, each group on the     *)
(* small instance the constants give.  The groups share no state and send   *)
(* each other nothing, so their interleavings are not explored: a behaviour *)
(* is one of one group, the one in focus, while the others rest in an       *)
(* initial state.                                                           *)
(***************************************************************************)
EXTENDS PduSession, NfRegistry, CoreRegistration, PolicyCharging, SliceSelection,
        Epc, Ims, MediaResource

VARIABLE focus

coreVars == <<pduVars, nrfVars, regVars, pcfVars, bsfVars, chfVars, nssfVars>>
epcVars  == <<mmeVars, sgwVars, pgwVars, hssVars>>
imsVars  == <<scscfVars, icscfVars, pcscfVars, mrfVars>>
vars     == <<focus, coreVars, epcVars, imsVars>>

\* Where a group may start in several states and is not in focus, one will do.
Init ==
  /\ focus \in {"session", "registry", "registration", "policy", "binding", "charging",
                "slice", "mme", "sgw", "pgw", "hss", "scscf", "icscf", "pcscf", "media"}
  /\ PduInit /\ NrfInit /\ RegInit /\ PolInit /\ NssfInit
  /\ EpcInit /\ ImsInit /\ MrfInit
  /\ focus # "session" => \A c, d \in Calls : call[c].ue = call[d].ue /\ call[c].ue = CHOOSE u \in UEs : TRUE
  /\ focus # "registration" => nasDiscovered
  /\ focus # "scscf" => \A i \in Impus : impuToImpi[i] = Gone

Focus(part) == focus = part /\ UNCHANGED focus

Next ==
  \/ Focus("session") /\ PduNext
       /\ UNCHANGED <<nrfVars, regVars, pcfVars, bsfVars, chfVars, nssfVars, epcVars, imsVars>>
  \/ Focus("registry") /\ NrfNext
       /\ UNCHANGED <<pduVars, regVars, pcfVars, bsfVars, chfVars, nssfVars, epcVars, imsVars>>
  \/ Focus("registration") /\ RegNext
       /\ UNCHANGED <<pduVars, nrfVars, pcfVars, bsfVars, chfVars, nssfVars, epcVars, imsVars>>
  \/ Focus("policy") /\ PcfNext
       /\ UNCHANGED <<pduVars, nrfVars, regVars, bsfVars, chfVars, nssfVars, epcVars, imsVars>>
  \/ Focus("binding") /\ BsfNext
       /\ UNCHANGED <<pduVars, nrfVars, regVars, pcfVars, chfVars, nssfVars, epcVars, imsVars>>
  \/ Focus("charging") /\ ChfNext
       /\ UNCHANGED <<pduVars, nrfVars, regVars, pcfVars, bsfVars, nssfVars, epcVars, imsVars>>
  \/ Focus("slice") /\ NssfNext
       /\ UNCHANGED <<pduVars, nrfVars, regVars, pcfVars, bsfVars, chfVars, epcVars, imsVars>>
  \/ Focus("mme") /\ MmeNext /\ UNCHANGED <<coreVars, sgwVars, pgwVars, hssVars, imsVars>>
  \/ Focus("sgw") /\ SgwNext /\ UNCHANGED <<coreVars, mmeVars, pgwVars, hssVars, imsVars>>
  \/ Focus("pgw") /\ PgwNext /\ UNCHANGED <<coreVars, mmeVars, sgwVars, hssVars, imsVars>>
  \/ Focus("hss") /\ HssNext /\ UNCHANGED <<coreVars, mmeVars, sgwVars, pgwVars, imsVars>>
  \/ Focus("scscf") /\ ScscfNext /\ UNCHANGED <<coreVars, epcVars, icscfVars, pcscfVars, mrfVars>>
  \/ Focus("icscf") /\ IcscfNext /\ UNCHANGED <<coreVars, epcVars, scscfVars, pcscfVars, mrfVars>>
  \/ Focus("pcscf") /\ PcscfNext /\ UNCHANGED <<coreVars, epcVars, scscfVars, icscfVars, mrfVars>>
  \/ Focus("media") /\ MrfNext /\ UNCHANGED <<coreVars, epcVars, scscfVars, icscfVars, pcscfVars>>

\* A call that was made goes on: it is answered or its limit expires.
Spec ==
  /\ Init /\ [][Next]_vars
  /\ \A c \in Calls : WF_pduVars(focus = "session" /\ PduProgress(c))
  /\ \A p \in Procedures : WF_scscfVars(focus = "scscf" /\ ImsProgress(p))
-----------------------------------------------------------------------------
\* (Each invariant says nothing of states in which its group only rests.)

\* The AMF, the SMF and the UPF agree on a PDU session wherever no call was lost
\* (amf.py:656-728, smf.py:226-337, upf.py:220-330).
SessionInv == focus = "session" => PduTypeOK /\ SessionsAgree

\* Discovery, slice selection and registration answer from what was registered: the NRF
\* (nrf.py), the NSSF (nssf.py), and the AMF, the AUSF and the UDM about one subscriber.
RegistrationInv ==
  /\ focus = "registry" => NrfTypeOK /\ DiscoveryIsSound
  /\ focus = "slice" => SelectionIsSound
  /\ focus = "registration" => RegTypeOK /\ UdmViewsAgree

\* The tables of the PCF, the BSF and the CHF hang together: rules and their QoS, bindings
\* and their index, charges and the balance (pcf.py, bsf.py, chf.py).
PolicyInv ==
  focus \in {"policy", "binding", "charging"} =>
    PolTypeOK /\ RulesHaveTheirQos /\ BindingsFindable /\ ChargesAddUp

\* So do those of the EPC: the MME's indexes, the gateways' sessions, bearers and
\* addresses, the HSS's numbers (mme.py, sgw.py, pgw.py, hss.py).
EpcInv ==
  focus \in {"mme", "sgw", "pgw", "hss"} =>
    EpcTypeOK /\ MmeIndexesAgree /\ GatewaysAgree /\ NumbersLeadToOwners

\* S-CSCF and IMS HSS agree on who is registered, and the I-CSCF's load covers its
\* assignments (scscf.py, ims_hss.py, icscf.py).
ImsInv ==
  focus \in {"scscf", "icscf", "pcscf"} => ImsTypeOK /\ RegistrarsAgree /\ LoadCoversAssignments

\* The MRF's ports are each in the pool or in one use, and what a member shows follows from
\* its flags (mrf.py).
MediaInv == focus = "media" => MrfTypeOK /\ PortsAreAccountedFor /\ StateExplainedByFlags
==============================================================================
