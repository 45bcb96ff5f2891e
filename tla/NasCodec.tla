------------------------------- MODULE NasCodec -------------------------------
(***************************************************************************)
(* The 5G NAS codec (protocols/nas/nas_5g.py), octet by octet: what the     *)
(* encoders put on the wire and what the decoders take from it.  A message  *)
(* is sent and the peer decodes it.  Reading past the end of the data is an *)
(* exception of the decoder, here the result NotDecoded; taking a slice past    *)
(* the end is not, it is just short.                                       *)
(***************************************************************************)
EXTENDS Integers, Sequences, FiniteSets, SequencesExt

CONSTANTS
  Plmns,        \* <<mcc digits, mnc digits>>
  Octets,       \* values tried for opaque octets
  Ksis,         \* key set identifiers, 0..15
  SessionIds,   \* PDU session ids, 0..15
  Absent, NotDecoded

ASSUME NasAssumption ==
  /\ Octets \subseteq 0..255 /\ Ksis \subseteq 0..15 /\ SessionIds \subseteq 0..15
  /\ LET Digits(n) == [1..n -> 0..9] IN Plmns \subseteq Digits(3) \X (Digits(2) \cup Digits(3))

Mobility == 126      \* ExtendedProtocolDiscriminator
Session == 46
PlainNas == 0
RegistrationRequest == 65   RegistrationAccept == 66
AuthenticationRequest == 86  AuthenticationResponse == 87
SecurityModeCommand == 93  SecurityModeComplete == 94
EstablishmentRequest == 193  EstablishmentAccept == 194

\* The values the enumerations know; any other is a ValueError.
MobilityTypes == 65..72 \cup 76..78 \cup 84..95 \cup 100..104
SessionTypes == 193..195 \cup 197..199 \cup 201..205 \cup 209..212 \cup {214}
RegistrationTypes == 1..4

-----------------------------------------------------------------------------
\* The octets of each part of a message.

Header(epd, second, type) == <<epd, second, type>>

EncodePlmn(p) ==
  LET mcc == p[1]  mnc == p[2]  third == IF Len(mnc) = 2 THEN 15 ELSE mnc[3] IN
  <<mcc[2] * 16 + mcc[1], third * 16 + mcc[3], mnc[2] * 16 + mnc[1]>>

DecodePlmn(d) ==
  << <<d[1] % 16, d[1] \div 16, d[2] % 16>>,
     IF d[2] \div 16 = 15 THEN <<d[3] % 16, d[3] \div 16>>
                          ELSE <<d[3] % 16, d[3] \div 16, d[2] \div 16>> >>

EncodeSnssai(s) == IF s.sd # Absent THEN <<4, s.sst>> \o s.sd ELSE <<1, s.sst>>
DecodeSnssai(d) ==
  [value |-> [sst |-> d[2], sd |-> IF d[1] >= 4 THEN SubSeq(d, 3, 5) ELSE Absent],
   used |-> d[1] + 1]

EncodeCapability(c) == <<Len(c)>> \o c      \* 2 octets, or 4 with the EPS algorithms
DecodeCapability(d) ==
  [value |-> IF d[1] >= 4 THEN SubSeq(d, 2, 5) ELSE SubSeq(d, 2, 3), used |-> d[1] + 1]

\* A 5G-GUTI starts with its own element identifier, a SUCI with its length.
EncodeGuti(g) ==
  LET amf == g.region * 65536 + g.set * 64 + g.pointer IN
  <<119, 11, 47>> \o EncodePlmn(g.plmn)
  \o <<amf \div 65536, (amf \div 256) % 256, amf % 256>> \o g.tmsi
EncodeSuci(s) == LET content == <<16>> \o EncodePlmn(s.plmn) \o <<0, 0, 0, 0>> \o s.output IN
                 <<Len(content)>> \o content
EncodeIdentity(i) == IF i.kind = "guti" THEN EncodeGuti(i) ELSE EncodeSuci(i)

\* d: from the element identifier on
DecodeGuti(d) ==
  LET amf == d[7] * 65536 + d[8] * 256 + d[9] IN
  [kind |-> "guti", plmn |-> DecodePlmn(SubSeq(d, 4, 6)), region |-> amf \div 65536,
   set |-> (amf \div 64) % 1024, pointer |-> amf % 64, tmsi |-> SubSeq(d, 10, 13)]

Nssai(list) == FlattenSeq([i \in 1..Len(list) |-> EncodeSnssai(list[i])])
Tlv(iei, value) == <<iei, Len(value)>> \o value
Optional(iei, value) == IF value = Absent THEN <<>> ELSE Tlv(iei, value)

\* Messages: m.type tells which; the other fields are the encoder's arguments.
EncodeRegistrationRequest(m) ==
  Header(Mobility, PlainNas, RegistrationRequest) \o <<m.ksi * 16 + m.regType>>
  \o EncodeIdentity(m.identity)
  \o (IF m.capability = Absent THEN <<>> ELSE <<46>> \o EncodeCapability(m.capability))
  \o (IF m.nssai = Absent THEN <<>> ELSE Tlv(47, Nssai(m.nssai)))

EncodeRegistrationAccept(m) ==
  Header(Mobility, PlainNas, RegistrationAccept) \o <<m.result % 8>>
  \o (IF m.guti = Absent THEN <<>> ELSE EncodeGuti(m.guti))
  \o (IF m.nssai = Absent THEN <<>> ELSE Tlv(21, Nssai(m.nssai)))

EncodeAuthenticationRequest(m) ==
  Header(Mobility, PlainNas, AuthenticationRequest) \o <<m.ksi, Len(m.abba)>> \o m.abba
  \o <<33>> \o m.rand \o Tlv(32, m.autn)

EncodeAuthenticationResponse(m) ==
  Header(Mobility, PlainNas, AuthenticationResponse) \o Tlv(45, m.res)

EncodeSecurityModeCommand(m) ==
  Header(Mobility, PlainNas, SecurityModeCommand) \o <<m.algorithms, m.ksi>>
  \o EncodeCapability(m.capability) \o Optional(56, m.abba)

EncodeSecurityModeComplete(m) ==
  Header(Mobility, PlainNas, SecurityModeComplete) \o Optional(119, m.imeisv)

\* The session id takes the place of the security header.
EncodeEstablishmentRequest(m) ==
  Header(Session, m.session, EstablishmentRequest) \o <<m.pti, 255, 255, 145, 161>>

EncodeEstablishmentAccept(m) ==
  Header(Session, m.session, EstablishmentAccept) \o <<m.pti, 17, 0, Len(m.rules)>> \o m.rules
  \o <<6, 0, 0, 0, 0, 0, 0>> \o Optional(41, m.address)

Encode(m) ==
  CASE m.type = RegistrationRequest -> EncodeRegistrationRequest(m)
    [] m.type = RegistrationAccept -> EncodeRegistrationAccept(m)
    [] m.type = AuthenticationRequest -> EncodeAuthenticationRequest(m)
    [] m.type = AuthenticationResponse -> EncodeAuthenticationResponse(m)
    [] m.type = SecurityModeCommand -> EncodeSecurityModeCommand(m)
    [] m.type = SecurityModeComplete -> EncodeSecurityModeComplete(m)
    [] m.type = EstablishmentRequest -> EncodeEstablishmentRequest(m)
    [] m.type = EstablishmentAccept -> EncodeEstablishmentAccept(m)

-----------------------------------------------------------------------------
\* The decoders.  d is the whole message, o the next octet to read.

From(d, o) == SubSeq(d, o, Len(d))

\* The S-NSSAIs from o up to end, and where the reading stopped.
DecodeNssai(d, o, end) ==
  LET read[p \in Nat \ {0}] ==
        IF p >= end THEN [list |-> <<>>, next |-> p]
        ELSE IF p + 1 > Len(d) THEN [list |-> NotDecoded, next |-> p]
        ELSE LET one == DecodeSnssai(From(d, p))  rest == read[p + one.used] IN
             [rest EXCEPT !.list = IF @ = NotDecoded THEN NotDecoded ELSE <<one.value>> \o @]
  IN read[o]

\* Optional elements: the two that are known, tag-only ones, others by their length.
DecodeElements(d, o) ==
  LET read[p \in Nat \ {0}] ==
        IF p > Len(d) THEN [capability |-> Absent, nssai |-> Absent]
        ELSE IF d[p] >= 128 THEN read[p + 1]
        ELSE IF p + 1 > Len(d) THEN NotDecoded
        ELSE IF d[p] = 46 THEN
          LET one == DecodeCapability(From(d, p + 1))  rest == read[p + 1 + one.used] IN
          IF rest = NotDecoded THEN NotDecoded
          ELSE [rest EXCEPT !.capability = IF @ = Absent THEN one.value ELSE @]
        ELSE IF d[p] = 47 THEN
          LET all == DecodeNssai(d, p + 2, p + 2 + d[p + 1])  rest == read[all.next] IN
          IF all.list = NotDecoded \/ rest = NotDecoded THEN NotDecoded
          ELSE [rest EXCEPT !.nssai = IF @ = Absent THEN all.list ELSE @]
        ELSE read[p + 2 + d[p + 1]]
  IN read[o]

DecodeRegistrationRequest(d) ==
  LET size == d[5]  kind == (d[6] \div 16) % 8
      raw == SubSeq(d, 5, IF 5 + size > Len(d) THEN Len(d) ELSE 5 + size)
      elements == DecodeElements(d, IF 6 + size > Len(d) THEN Len(d) + 1 ELSE 6 + size) IN
  IF elements = NotDecoded THEN NotDecoded
  ELSE [type |-> RegistrationRequest, ksi |-> d[4] \div 16, regType |-> d[4] % 16,
        identity |-> IF kind = 2 THEN DecodeGuti(raw) ELSE raw,
        capability |-> elements.capability, nssai |-> elements.nssai]

\* The last RES* element there is; an EAP message is passed over by its two octets of length,
\* octets that are no known identifier one at a time.
DecodeRes(d, o) ==
  LET read[p \in Nat \ {0}] ==
        IF p > Len(d) THEN Absent
        ELSE IF d[p] = 120 THEN
          IF p + 2 > Len(d) THEN NotDecoded ELSE read[p + 3 + (d[p + 1] * 256 + d[p + 2])]
        ELSE IF d[p] # 45 THEN read[p + 1]
        ELSE IF p + 1 > Len(d) THEN NotDecoded
        ELSE LET past == p + 2 + d[p + 1]  rest == read[past] IN
             IF rest = Absent THEN SubSeq(d, p + 2, IF past > Len(d) THEN Len(d) ELSE past - 1) ELSE rest
  IN read[o]

DecodeAuthenticationResponse(d) ==
  LET res == DecodeRes(d, 4) IN
  IF res = NotDecoded THEN NotDecoded ELSE [type |-> AuthenticationResponse, res |-> res]

\* What decode_message tells of these two messages, and of any.
RegistrationReport(d) ==
  LET m == DecodeRegistrationRequest(d) IN
  IF m = NotDecoded \/ m.regType \notin RegistrationTypes THEN NotDecoded
  ELSE [type |-> m.type, ksi |-> m.ksi, regType |-> m.regType]

ResponseReport(d) ==
  LET m == DecodeAuthenticationResponse(d) IN
  IF m = NotDecoded THEN NotDecoded
  ELSE [type |-> m.type, res |-> IF m.res = <<>> THEN Absent ELSE m.res]

\* A non-zero second octet means a security header of seven octets, whatever the protocol.
DecodeMessage(d) ==
  LET inner == IF d[2] % 16 = PlainNas THEN d ELSE From(d, 8) IN
  IF Len(inner) < 3 THEN NotDecoded
  ELSE IF inner[1] = Mobility /\ inner[3] \notin MobilityTypes THEN NotDecoded
  ELSE IF inner[1] = Session /\ inner[3] \notin SessionTypes THEN NotDecoded
  ELSE IF inner[1] = Mobility /\ inner[3] = RegistrationRequest THEN RegistrationReport(inner)
  ELSE IF inner[1] = Mobility /\ inner[3] = AuthenticationResponse THEN ResponseReport(inner)
  ELSE [type |-> inner[3]]

-----------------------------------------------------------------------------
VARIABLES message,   \* what the sender encodes, or Absent
          nasWire,      \* its octets
          nasReceived   \* what the peer's decode_message returned
nasVars == <<message, nasWire, nasReceived>>

NasInit == message = Absent /\ nasWire = <<>> /\ nasReceived = Absent

Snssais == [sst : Octets, sd : {Absent} \cup {<<o, 1, 2>> : o \in Octets}]
Lists == {<<s>> : s \in Snssais} \cup {<<s, [sst |-> 1, sd |-> Absent]>> : s \in Snssais}
Gutis == [kind : {"guti"}, plmn : Plmns, region : Octets, set : {0, 1023}, pointer : {0, 63},
          tmsi : {<<o, 0, 0, 1>> : o \in Octets}]
Sucis == [kind : {"suci"}, plmn : Plmns, output : {<<o>> : o \in Octets}]
Capabilities == {<<o, 1>> : o \in Octets} \cup {<<1, o, 1, 1>> : o \in Octets}

Messages ==
  [type : {RegistrationRequest}, ksi : Ksis, regType : {1, 4}, identity : Sucis \cup {g \in Gutis : g.set = 0},
   capability : Capabilities \cup {Absent}, nssai : {Absent} \cup Lists]
  \cup [type : {RegistrationAccept}, result : {1}, guti : Gutis \cup {Absent}, nssai : {Absent} \cup Lists]
  \cup [type : {AuthenticationRequest}, ksi : Ksis, abba : {<<0, 0>>}, rand : {<<1>>}, autn : {<<2>>}]
  \cup [type : {AuthenticationResponse}, res : {<<o, p>> : o \in Octets, p \in Octets}]
  \cup [type : {SecurityModeCommand}, algorithms : Octets, ksi : Ksis, capability : Capabilities,
        abba : {Absent, <<0, 0>>}]
  \cup [type : {SecurityModeComplete}, imeisv : {Absent, <<1>>}]
  \cup [type : {EstablishmentRequest}, session : SessionIds, pti : Octets]
  \cup [type : {EstablishmentAccept}, session : SessionIds, pti : Octets, rules : {<<1>>},
        address : {Absent, <<1, 10, 0, 0, 1>>}]

\* The decoder's exception is no value: no list it has come to, no elements it has found,
\* no message.
ASSUME NotDecodedAssumption ==
  /\ NotDecoded \notin Lists \cup {<<>>, <<[sst |-> 1, sd |-> Absent]>>}
  /\ NotDecoded \notin [capability : Capabilities \cup {Absent}, nssai : Lists \cup {Absent}]
  /\ NotDecoded \notin {<<o, p>> : o \in Octets, p \in Octets}
  /\ \A m \in Messages : m.type = AuthenticationResponse => NotDecoded # m
  /\ NotDecoded \notin [type : {RegistrationRequest}, ksi : Ksis, regType : {1, 4},
                        identity : {EncodeSuci(s) : s \in Sucis},
                        capability : Capabilities \cup {Absent}, nssai : Lists \cup {Absent}]

Send(m) == message = Absent /\ message' = m /\ nasWire' = Encode(m) /\ nasReceived' = Absent
Receive == /\ message # Absent /\ nasReceived = Absent
           /\ nasReceived' = DecodeMessage(nasWire) /\ UNCHANGED <<message, nasWire>>
NasNext == (\E m \in Messages : Send(m)) \/ Receive

-----------------------------------------------------------------------------
\* What decode_message is to return of a message.
Understood(m, r) ==
  CASE m.type = RegistrationRequest -> r = [type |-> m.type, ksi |-> m.ksi, regType |-> m.regType]
    [] m.type = AuthenticationResponse -> r = m
    [] OTHER -> r = [type |-> m.type]

\* The decoder of a registration request recovers every field of it.
Recovered(m, r) ==
  /\ r # NotDecoded /\ r.type = m.type
  /\ <<r.ksi, r.regType, r.capability, r.nssai>> = <<m.ksi, m.regType, m.capability, m.nssai>>
  /\ r.identity = EncodeSuci(m.identity)

Addressed(m) == m.type = RegistrationRequest /\ m.identity.kind = "guti"
OfSession(m) == m.type \in {EstablishmentRequest, EstablishmentAccept} /\ m.session # 0

\* A registration by SUCI and an authentication response are decoded to what was encoded,
\* whatever octets their elements hold, identifiers of other elements among them: the
\* registration's own decoder recovers identity, capability and S-NSSAIs too, the codec's
\* decode_message tells key set and registration type, or RES*.  Of a message without a
\* decoder it tells the type, which is right; the 5G-GUTI in a registration accept, PLMN
\* included, reads back by its own decoder (nas_5g.py:285-395, 520-577, 688-711, 904-971).
\* A registration by 5G-GUTI and a 5GSM message of a session are left out: the codec does
\* not decode what it encodes of them.
DecodeInvertsEncode ==
  /\ nasReceived # Absent /\ ~Addressed(message) /\ ~OfSession(message) => Understood(message, nasReceived)
  /\ message # Absent /\ message.type = RegistrationRequest /\ ~Addressed(message) =>
       Recovered(message, DecodeRegistrationRequest(nasWire))
  /\ message # Absent /\ message.type = RegistrationAccept /\ message.guti # Absent =>
       DecodeGuti(From(nasWire, 5)) = message.guti
=============================================================================
