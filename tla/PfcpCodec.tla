------------------------------- MODULE PfcpCodec -------------------------------
(***************************************************************************)
(* The PFCP codec (protocols/pfcp/pfcp.py), octet by octet.  The node on    *)
(* one side numbers and encodes a message; the other side decodes its       *)
(* header and splits what follows into information elements.  A message is  *)
(* a tree: an element holds octets or, if it is grouped, further elements.  *)
(* What the trees say is the dataclasses' business; that a reader of the    *)
(* octets can find the same tree again depends on every length and on every *)
(* flag that tells which optional part is there.                            *)
(***************************************************************************)
EXTENDS Integers, Sequences, SequencesExt, TLC

CONSTANTS
  Numbers,       \* values of four-octet fields and SEIDs, < 2^31
  FirstNumbers,  \* sequence numbers the node may have reached
  Missing        \* an argument left out

\* TLC's integers end at 2^31 - 1, below the largest value of these fields.
Largest == 2147483647

ASSUME PfcpCodecAssumption ==
  /\ \A n \in Numbers : n \in Nat /\ n <= Largest
  /\ \A n \in FirstNumbers : n \in Nat /\ n <= 16777215

-----------------------------------------------------------------------------
\* Octets.  n in k octets, the highest first; n < 2^31, so octets above are 0.
Short(n) == <<(n \div 256) % 256, n % 256>>
Word(n, k) == IF k = 2 THEN Short(n)
              ELSE [i \in 1 .. k - 4 |-> 0] \o Short(n \div 65536) \o Short(n % 65536)
ShortAt(d, first) == d[first] * 256 + d[first + 1]
LongAt(d, first) == ShortAt(d, first) * 65536 + ShortAt(d, first + 2)
Given(x, octets) == IF x = Missing THEN <<>> ELSE octets

Leaf(type, value) == [type |-> type, value |-> value]
Group(type, parts) == [type |-> type, parts |-> parts]
Grouped == {1, 2, 3, 4, 7}

\* mutated form: the length counts the four octets of type and length
TypeLengthCountingHead(type, value) == Word(type, 2) \o Word(Len(value) + 4, 2) \o value

\* What each encode method does last: type, length of the content, content.
TypeLengthValue(type, value) == Word(type, 2) \o Word(Len(value), 2) \o value

\* A group holds leaves, or a group of leaves: a PDI, forwarding parameters.
LeafOctets(e) == TypeLengthValue(e.type, e.value)
GroupOctets(Inner(_), e) ==
  IF e.type \in Grouped
  THEN TypeLengthValue(e.type, FlattenSeq([i \in 1..Len(e.parts) |-> Inner(e.parts[i])]))
  ELSE LeafOctets(e)
ElementOctets(e) == GroupOctets(LAMBDA part : GroupOctets(LeafOctets, part), e)

Content(elements) == FlattenSeq([i \in 1..Len(elements) |-> ElementOctets(elements[i])])

\* InformationElement.decode over and over; fewer than four octets are left alone.
Split(d) ==
  LET from[first \in Nat \ {0}] ==
        IF first + 3 > Len(d) THEN <<>>
        ELSE LET past == first + 4 + ShortAt(d, first + 2)
             IN <<Leaf(ShortAt(d, first),
                       SubSeq(d, first + 4, IF past > Len(d) THEN Len(d) ELSE past - 1))>> \o from[past]
  IN from[1]

\* The same inside the grouped elements.
SplitInside(Deeper(_), d) ==
  LET top == Split(d) IN
  [i \in 1..Len(top) |-> IF top[i].type \in Grouped THEN Group(top[i].type, Deeper(top[i].value))
                         ELSE top[i]]
SplitDeep(d) == SplitInside(LAMBDA group : SplitInside(Split, group), d)

-----------------------------------------------------------------------------
\* Elements.
NodeId(n) == Leaf(60, <<n.kind>> \o n.id)
DecodeNodeId(v) ==
  [kind |-> v[1], id |-> CASE v[1] = 0 -> SubSeq(v, 2, 5) [] v[1] = 1 -> SubSeq(v, 2, 17)
                           [] OTHER -> SubSeq(v, 2, Len(v))]

Flag(x, bit) == IF x = Missing THEN 0 ELSE bit

FSeid(s) == Leaf(57, <<Flag(s.v4, 2) + Flag(s.v6, 1)>> \o Word(s.seid, 8)
                     \o Given(s.v4, s.v4) \o Given(s.v6, s.v6))
DecodeFSeid(v) ==
  LET has4 == (v[1] \div 2) % 2 = 1   o == IF has4 THEN 14 ELSE 10 IN
  [seid |-> LongAt(v, 6), v4 |-> IF has4 THEN SubSeq(v, 10, 13) ELSE Missing,
   v6 |-> IF v[1] % 2 = 1 THEN SubSeq(v, o, o + 15) ELSE Missing]

FTeid(f) ==
  Leaf(21, <<Flag(f.choose, 4) + Flag(f.v4, 2) + Flag(f.v6, 1)>> \o Word(f.teid, 4)
           \o Given(f.v4, f.v4) \o Given(f.v6, f.v6) \o Given(f.choose, <<f.choose>>))
DecodeFTeid(v) ==
  LET has4 == (v[1] \div 2) % 2 = 1   has6 == v[1] % 2 = 1
      o == IF has4 THEN 10 ELSE 6   p == IF has6 THEN o + 16 ELSE o IN
  [teid |-> LongAt(v, 2), v4 |-> IF has4 THEN SubSeq(v, 6, 9) ELSE Missing,
   v6 |-> IF has6 THEN SubSeq(v, o, o + 15) ELSE Missing,
   choose |-> IF (v[1] \div 4) % 2 = 1 THEN v[p] ELSE Missing]

UeIpAddress(a) ==
  Leaf(93, <<a.side * 4 + Flag(a.v4, 2) + Flag(a.v6, 1)>> \o Given(a.v4, a.v4)
           \o Given(a.v6, a.v6 \o Given(a.prefix, <<a.prefix>>)))

OuterHeaderCreation(h) == Leaf(84, Word(h.description, 2) \o Given(h.teid, Word(h.teid, 4)) \o Given(h.v4, h.v4))
BitRates(type, r) == Leaf(type, Word(r.ul, 5) \o Word(r.dl, 5))
RuleId(type, id, k) == Leaf(type, Word(id, k))
RecoveryTimeStamp(n) == Leaf(96, Word(n, 4))
NetworkInstance(ni) == Given(ni, <<Leaf(22, ni)>>)
Qfi(q) == Given(q, <<Leaf(124, <<q % 64>>)>>)
OneElement(x, e) == Given(x, <<e>>)

Pdi(p) ==
  Group(2, <<Leaf(20, <<p.source>>)>> \o OneElement(p.fteid, FTeid(p.fteid))
           \o OneElement(p.ueIp, UeIpAddress(p.ueIp)) \o NetworkInstance(p.ni) \o Qfi(p.qfi))

ForwardingParameters(f) ==
  Group(4, <<Leaf(42, <<f.destination>>)>> \o NetworkInstance(f.ni)
           \o OneElement(f.outer, OuterHeaderCreation(f.outer)))

CreatePdr(p) ==
  Group(1, <<RuleId(56, p.id, 2), Leaf(29, Word(p.precedence, 4)), Pdi(p.pdi)>>
           \o OneElement(p.removal, Leaf(95, <<p.removal>>)) \o OneElement(p.far, RuleId(108, p.far, 4))
           \o [i \in 1..Len(p.urrs) |-> RuleId(81, p.urrs[i], 4)] \o OneElement(p.qer, RuleId(109, p.qer, 4)))

CreateFar(f) ==
  Group(3, <<RuleId(108, f.id, 4), Leaf(44, Word(f.action, 2))>>
           \o OneElement(f.forwarding, ForwardingParameters(f.forwarding))
           \o OneElement(f.bar, Leaf(88, <<f.bar>>)))

CreateQer(q) ==
  Group(7, <<RuleId(109, q.id, 4), Leaf(25, <<q.dl * 4 + q.ul>>)>> \o OneElement(q.mbr, BitRates(26, q.mbr))
           \o OneElement(q.gbr, BitRates(27, q.gbr)) \o Qfi(q.qfi))

-----------------------------------------------------------------------------
\* Messages.
HeartbeatRequest == 1   HeartbeatResponse == 2
AssociationSetupRequest == 5   AssociationSetupResponse == 6
SessionEstablishmentRequest == 50   SessionEstablishmentResponse == 51
SessionDeletionRequest == 54   SessionDeletionResponse == 55

Cause(c) == Leaf(19, <<c>>)
EachOf(Encode(_), list) == [i \in 1..Len(list) |-> Encode(list[i])]

ElementsOf(m) ==
  CASE m.type \in {HeartbeatRequest, HeartbeatResponse} -> <<RecoveryTimeStamp(m.time)>>
    [] m.type = AssociationSetupRequest ->
         <<NodeId(m.node), RecoveryTimeStamp(m.time)>> \o OneElement(m.features, Leaf(89, Word(m.features, 2)))
    [] m.type = AssociationSetupResponse ->
         <<NodeId(m.node), Cause(m.cause), RecoveryTimeStamp(m.time)>>
         \o OneElement(m.features, Leaf(43, Word(m.features, 2)))
    [] m.type = SessionEstablishmentRequest ->
         <<NodeId(m.node), FSeid(m.fseid)>> \o EachOf(CreatePdr, m.pdrs) \o EachOf(CreateFar, m.fars)
         \o EachOf(CreateQer, m.qers) \o OneElement(m.pdnType, Leaf(113, <<m.pdnType>>))
    [] m.type = SessionEstablishmentResponse ->
         <<NodeId(m.node), Cause(m.cause)>> \o OneElement(m.fseid, FSeid(m.fseid))
    [] m.type = SessionDeletionRequest -> <<>>
    [] m.type = SessionDeletionResponse -> <<Cause(m.cause)>>

OfSessions == {SessionEstablishmentRequest, SessionEstablishmentResponse,
               SessionDeletionRequest, SessionDeletionResponse}

\* The number takes four octets and two spare ones follow it: 18 octets, or 10 without
\* a SEID.
PfcpHeader(type, length, seid, number) ==
  <<32 + (IF type \in OfSessions THEN 1 ELSE 0), type>> \o Word(length, 2)
  \o (IF type \in OfSessions THEN Word(seid, 8) ELSE <<>>) \o Word(number, 4) \o <<0, 0>>
HeaderSize(type) == IF type \in OfSessions THEN 18 ELSE 10

EncodePfcp(m, number) ==
  PfcpHeader(m.type, Len(Content(ElementsOf(m))), m.seid, number) \o Content(ElementsOf(m))

\* Reading back takes 16 octets, or 8, and the low octet of the number for a spare one.
DecodePfcpHeader(d) ==
  LET ofSession == d[1] % 2 = 1 IN
  [version |-> d[1] \div 32, type |-> d[2], length |-> ShortAt(d, 3),
   seid |-> IF ofSession THEN LongAt(d, 9) ELSE 0,
   number |-> LongAt(d, IF ofSession THEN 13 ELSE 5) \div 256,
   used |-> IF ofSession THEN 16 ELSE 8]

\* decode_message
DecodePfcp(d) ==
  LET h == DecodePfcpHeader(d) IN [header |-> h, elements |-> Split(SubSeq(d, h.used + 1, Len(d)))]

\* send_and_wait: the key of the call that sent these octets.
WaitsUnder(d) == LongAt(d, IF d[1] % 2 = 0 THEN 5 ELSE 13) \div 256

-----------------------------------------------------------------------------
\* What may be sent: each optional part present and absent.
V4 == <<10, 0, 0, 1>>
V6 == [i \in 1..16 |-> IF i = 16 THEN 1 ELSE 0]
Maybe(x) == {Missing, x}

NodeIds == {[kind |-> 0, id |-> V4], [kind |-> 1, id |-> V6], [kind |-> 2, id |-> <<117, 112>>]}
FSeids == [seid : Numbers, v4 : Maybe(V4), v6 : Maybe(V6)]
FTeids == [teid : Numbers, v4 : Maybe(V4), v6 : Maybe(V6), choose : Maybe(7)]
UeIps == [side : {0, 1}, v4 : Maybe(V4), v6 : Maybe(V6), prefix : Maybe(64)]
Pdis == [source : {0, 1}, fteid : FTeids \cup {Missing}, ueIp : UeIps \cup {Missing},
         ni : {Missing}, qfi : {9}]
        \cup [source : {0}, fteid : {Missing}, ueIp : {Missing}, ni : Maybe(<<105, 110>>), qfi : {Missing, 1, 65}]
Pdrs == [id : {1}, precedence : {100}, pdi : Pdis, removal : {0}, far : {1}, urrs : {<<>>}, qer : {Missing}]
        \cup [id : {1}, precedence : Numbers, pdi : {CHOOSE p \in Pdis : TRUE}, removal : Maybe(0),
              far : Maybe(1), urrs : {<<>>, <<1, 2>>}, qer : Maybe(1)]
Fars == [id : Numbers, action : {2, 256}, bar : Maybe(1),
         forwarding : {Missing} \cup [destination : {0, 1}, ni : Maybe(<<105, 110>>),
           outer : {Missing} \cup [description : {256}, teid : Numbers \cup {Missing}, v4 : Maybe(V4)]]]
Rates2 == [ul : {100000}, dl : {0, 100000}]
Qers == [id : Numbers, ul : {0, 1}, dl : {0, 1}, mbr : Rates2 \cup {Missing}, gbr : Rates2 \cup {Missing},
         qfi : Maybe(1)]

\* create_session_establishment_request: one rule each way and a QoS rule.
NodeRequest(seid, ueIp, teid) ==
  [type |-> SessionEstablishmentRequest, seid |-> seid, node |-> [kind |-> 0, id |-> V4],
   fseid |-> [seid |-> seid, v4 |-> V4, v6 |-> Missing], pdnType |-> Missing,
   pdrs |-> LET rule(id, removal, pdi) == [id |-> id, precedence |-> 100, pdi |-> pdi, removal |-> removal,
                                            far |-> id, urrs |-> <<>>, qer |-> Missing] IN
     <<rule(1, 0, [source |-> 0, fteid |-> [teid |-> teid, v4 |-> V4, v6 |-> Missing, choose |-> Missing],
                   ueIp |-> Missing, ni |-> Missing, qfi |-> 1]),
       rule(2, Missing, [source |-> 1, fteid |-> Missing, ni |-> Missing, qfi |-> 1,
                   ueIp |-> [side |-> 1, v4 |-> ueIp, v6 |-> Missing, prefix |-> Missing]])>>,
   fars |-> <<[id |-> 1, action |-> 2, bar |-> Missing,
               forwarding |-> [destination |-> 1, ni |-> <<105, 110>>, outer |-> Missing]],
              [id |-> 2, action |-> 2, bar |-> Missing,
               forwarding |-> [destination |-> 0, ni |-> Missing,
                               outer |-> [description |-> 256, teid |-> teid, v4 |-> V4]]]>>,
   qers |-> <<[id |-> 1, ul |-> 0, dl |-> 0, mbr |-> [ul |-> 100000, dl |-> 100000], gbr |-> Missing, qfi |-> 1]>>]

OneRule(pdrs, fars, qers, pdn) ==
  [type : {SessionEstablishmentRequest}, seid : {1}, node : {[kind |-> 0, id |-> V4]},
   fseid : {[seid |-> 1, v4 |-> V4, v6 |-> Missing]}, pdrs : pdrs, fars : fars, qers : qers, pdnType : pdn]

PfcpMessages ==
  [type : {HeartbeatRequest, HeartbeatResponse}, seid : {0}, time : Numbers]
  \cup [type : {AssociationSetupRequest}, seid : {0}, node : NodeIds, time : Numbers, features : Maybe(1)]
  \cup [type : {AssociationSetupResponse}, seid : {0}, node : NodeIds, cause : {1, 72}, time : Numbers, features : Maybe(1)]
  \cup {NodeRequest(s, V4, t) : s \in Numbers, t \in Numbers}
  \cup OneRule({<<p>> : p \in Pdrs}, {<<>>}, {<<>>}, {Missing}) \cup OneRule({<<>>}, {<<f>> : f \in Fars}, {<<>>}, Maybe(1))
  \cup OneRule({<<>>}, {<<>>}, {<<q>> : q \in Qers}, {Missing})
  \cup [type : {SessionEstablishmentResponse}, seid : Numbers, node : NodeIds, cause : {1, 72}, fseid : FSeids \cup {Missing}]
  \cup [type : {SessionDeletionRequest}, seid : Numbers]
  \cup [type : {SessionDeletionResponse}, seid : Numbers, cause : {1}]

VARIABLES nodeNumber,   \* PFCPCodec.sequence_number
          pfcpSent,     \* what the node encodes, or Missing
          pfcpWire,     \* its octets
          pfcpRead      \* what the peer decoded
codecVars == <<nodeNumber, pfcpSent, pfcpWire, pfcpRead>>

CodecInit == nodeNumber \in FirstNumbers /\ pfcpSent = Missing /\ pfcpWire = <<>> /\ pfcpRead = Missing

NodeSends(m) ==
  /\ pfcpSent = Missing /\ nodeNumber' = (nodeNumber + 1) % 16777216
  /\ pfcpSent' = m /\ pfcpWire' = EncodePfcp(m, nodeNumber') /\ UNCHANGED pfcpRead
PeerReads == /\ pfcpSent # Missing /\ pfcpRead = Missing
             /\ pfcpRead' = DecodePfcp(pfcpWire) /\ UNCHANGED <<nodeNumber, pfcpSent, pfcpWire>>
CodecNext == (\E m \in PfcpMessages : NodeSends(m)) \/ PeerReads

-----------------------------------------------------------------------------
\* The elements after the header the encoder wrote, at every depth.
ElementsFound == SplitDeep(SubSeq(pfcpWire, HeaderSize(pfcpSent.type) + 1, Len(pfcpWire)))

\* The arguments of the message that have a decoder come back from its elements.
ArgumentsSurvive(m) ==
  /\ "node" \in DOMAIN m => DecodeNodeId(ElementsFound[1].value) = m.node
  /\ m.type = SessionEstablishmentRequest =>
       /\ DecodeFSeid(ElementsFound[2].value) = m.fseid
       /\ Len(m.pdrs) = 1 /\ m.pdrs[1].pdi.fteid # Missing =>
            DecodeFTeid(ElementsFound[3].parts[3].parts[2].value) = m.pdrs[1].pdi.fteid
  /\ m.type = SessionEstablishmentResponse /\ m.fseid # Missing =>
       DecodeFSeid(ElementsFound[3].value) = m.fseid

\* Whatever optional parts a message has, its octets still hold exactly the elements it
\* was made of, at every depth; type, length and SEID are decoded as encoded, the length
\* is that of the content; and the peer reads the very number under which the sender
\* waits (pfcp.py:294-444, 643-881, 1099-1137, 1331).  decode_message itself splits from
\* two octets before the elements on and finds others: nothing is said of those.
PfcpReadBack ==
  /\ pfcpSent # Missing => /\ ElementsFound = ElementsOf(pfcpSent)
                           /\ ArgumentsSurvive(pfcpSent)
  /\ pfcpRead # Missing =>
       LET h == pfcpRead.header IN
       /\ h.version = 1 /\ h.type = pfcpSent.type
       /\ h.seid = (IF h.type \in OfSessions THEN pfcpSent.seid ELSE 0)
       /\ h.length = Len(pfcpWire) - HeaderSize(h.type)
       /\ h.number = WaitsUnder(pfcpWire) /\ h.number = nodeNumber \div 256
=============================================================================
