--------------------------- MODULE SliceSelection ---------------------------
(***************************************************************************)
(* The NSSF (core_network/nssf.py): which network slices a registration or *)
(* a PDU session gets, for each combination of requested and subscribed    *)
(* slices, tracking area and home PLMN, over the built-in configuration.   *)
(*                                                                         *)
(* The availability documents are left out: the PUT handler (728-754)      *)
(* stores into its own argument and always answers 500, so the table stays *)
(* empty and PATCH and DELETE answer 404.                                  *)
(***************************************************************************)
EXTENDS Naturals, FiniteSets

CONSTANTS
  SliceSubscriptions,   \* ids of availability subscriptions
  NoSlices              \* no request under way, or no answer

VARIABLES
  sliceRequest,         \* what the consumer asked
  sliceAnswer,          \* AuthorizedNetworkSliceInfo
  sliceSubscribed       \* nssai_availability_subscriptions

nssfVars == <<sliceRequest, sliceAnswer, sliceSubscribed>>
-----------------------------------------------------------------------------
(* The configuration, for one tracking area of 001-01 and one of 310-260.  *)

Slices == {"embb", "urllc", "std", "home"}
Standard == {"std"}                                     \* is_standard_snssai
TrackingAreas == {"none", "ta1", "ta310", "unknown"}
HomePlmns == {"none", "supported", "other"}

\* check_snssai_in_ta: an area without an entry has its PLMN's slices.
SlicesIn(tai) ==
  CASE tai = "ta1" -> {"embb", "std", "urllc"}
    [] tai = "ta310" -> {"embb", "std"}
    [] OTHER -> Slices                                  \* no area is given
\* supported_snssai_in_plmn of the area's PLMN.
SlicesOfPlmn(tai) ==
  CASE tai = "ta1" -> {"embb", "urllc", "std"}
    [] tai = "ta310" -> {"embb", "std"}
    [] OTHER -> Slices
NsiInformation(s) ==
  CASE s = "embb" -> {"nsi-embb-001", "nsi-embb-002"}
    [] s = "urllc" -> {"nsi-urllc-001"}
    [] s = "std" -> {"nsi-default-001"}
    [] OTHER -> {}
ServingOf(s) == IF s = "home" THEN {"embb"} ELSE {}     \* snssai_mapping

SliceRequests ==
  {r \in [plmn : HomePlmns, tai : TrackingAreas, requested : SUBSET {"embb", "urllc", "std"},
          subscribed : SUBSET {"embb", "urllc", "home"}, defaults : SUBSET {"embb", "urllc"},
          mapping : {{}, {<<"embb", "home">>}}, requestMapping : BOOLEAN,
          defaultInd : BOOLEAN] :
     r.defaults \subseteq r.subscribed}
-----------------------------------------------------------------------------
Answer(allowed, inPlmn, inTa, configured) ==
  [allowed |-> allowed, rejectedInPlmn |-> inPlmn, rejectedInTa |-> inTa, configured |-> configured]

\* _handle_mapping_request: the serving slices of the subscribed home ones.
MappedSlices(r) == Answer(UNION {ServingOf(s) : s \in r.subscribed \ Standard}, {}, {}, {})

\* A home PLMN makes a custom slice count as subscribed through its mapping.
IsSubscribed(r, s) ==
  IF r.plmn # "none" /\ s \notin Standard
  THEN \E home \in r.subscribed : <<s, home>> \in r.mapping
  ELSE s \in r.subscribed

ConfiguredNssai(r) == r.subscribed \cap SlicesOfPlmn(r.tai)

\* ns_selection_for_registration, in the order of its early returns.
SelectForRegistration(r) ==
  LET inTa    == r.requested \ SlicesIn(r.tai)
      allowed == {s \in r.requested \ inTa : IsSubscribed(r, s)}
      inPlmn  == r.requested \ (inTa \cup allowed)
      default == r.defaults \cap SlicesIn(r.tai)
  IN IF r.plmn = "other" THEN Answer({}, r.requested, {}, {})
     ELSE IF r.tai = "unknown" THEN Answer({}, {}, r.requested, {})
     ELSE IF r.requestMapping /\ r.plmn # "none" THEN MappedSlices(r)
     ELSE Answer(IF allowed = {} THEN default ELSE allowed, inPlmn, inTa,
                 IF inPlmn # {} \/ r.defaultInd THEN ConfiguredNssai(r) ELSE {})

\* ns_selection_for_pdu_session: the answers for one slice, an instance of it
\* drawn at random.
SelectForPduSession(s, tai, plmn) ==
  IF plmn = "other" THEN {[nsi |-> {}, rejected |-> TRUE]}
  ELSE IF tai = "unknown" \/ s \notin SlicesIn(tai) THEN {[nsi |-> {}, rejected |-> TRUE]}
  ELSE IF NsiInformation(s) = {} THEN {[nsi |-> {}, rejected |-> FALSE]}
  ELSE {[nsi |-> {n}, rejected |-> FALSE] : n \in NsiInformation(s)}
-----------------------------------------------------------------------------
NssfInit ==
  /\ sliceRequest = NoSlices /\ sliceAnswer = NoSlices /\ sliceSubscribed = {}

\* get_network_slice_information.
GetForRegistration(r) ==
  /\ sliceRequest' = r /\ sliceAnswer' = SelectForRegistration(r)
  /\ UNCHANGED sliceSubscribed

GetForPduSession(s, tai, plmn) ==
  /\ sliceRequest' = [slice |-> s, tai |-> tai]
  /\ sliceAnswer' \in SelectForPduSession(s, tai, plmn)
  /\ UNCHANGED sliceSubscribed

\* The consumer has its answer.
AnswerTaken ==
  /\ sliceRequest # NoSlices
  /\ sliceRequest' = NoSlices /\ sliceAnswer' = NoSlices /\ UNCHANGED sliceSubscribed

SubscribeAvailability(n) ==
  /\ n \notin sliceSubscribed /\ sliceSubscribed' = sliceSubscribed \cup {n}
  /\ UNCHANGED <<sliceRequest, sliceAnswer>>
UnsubscribeAvailability(n) ==
  /\ n \in sliceSubscribed /\ sliceSubscribed' = sliceSubscribed \ {n}
  /\ UNCHANGED <<sliceRequest, sliceAnswer>>

NssfNext ==
  \/ /\ sliceRequest = NoSlices  \* one request at a time: no handler awaits
     /\ \/ \E r \in SliceRequests : GetForRegistration(r)
        \/ \E s \in Slices, tai \in TrackingAreas, plmn \in HomePlmns : GetForPduSession(s, tai, plmn)
  \/ AnswerTaken
  \/ \E n \in SliceSubscriptions : SubscribeAvailability(n) \/ UnsubscribeAvailability(n)

\* The requested slices that are not rejected are what is allowed; only when
\* all are rejected (or none was requested) do default subscriptions take
\* their place (nssf.py:428-439), even one that was just rejected for the PLMN
\* but never one the tracking area lacks; configured slices are subscribed;
\* and the instance a PDU session gets serves its area (565-574).
SelectionIsSound ==
  sliceRequest # NoSlices =>
    LET r == sliceRequest  a == sliceAnswer
    IN IF "slice" \in DOMAIN r
       THEN a.nsi # {} => /\ r.tai # "unknown" /\ r.slice \in SlicesIn(r.tai)
                          /\ a.nsi \subseteq NsiInformation(r.slice)
       ELSE LET accepted == r.requested \ (a.rejectedInPlmn \cup a.rejectedInTa)
                mapped   == r.requestMapping /\ r.plmn = "supported" /\ r.tai # "unknown"
            IN /\ ~ mapped => /\ IF accepted # {} THEN a.allowed = accepted
                                                  ELSE a.allowed \subseteq r.defaults
                              /\ a.allowed \subseteq SlicesIn(r.tai)
               /\ a.allowed \cap a.rejectedInTa = {}
               /\ a.rejectedInPlmn \cup a.rejectedInTa \subseteq r.requested
               /\ a.configured \subseteq r.subscribed
=============================================================================
