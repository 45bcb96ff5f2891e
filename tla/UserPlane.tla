------------------------------- MODULE UserPlane -------------------------------
(***************************************************************************)
(* The user plane and the transports under it: the enhanced UPF's sessions  *)
(* (core_network/upf_enhanced.py), the wait for a PFCP response             *)
(* (protocols/pfcp/pfcp.py), the NGAP server over framed TCP                *)
(* (core_network/transport.py) and the TCP fallback of the SCTP transport   *)
(* (protocols/sctp/sctp_transport.py).  The datagram network loses, delays,  *)
(* duplicates and reorders; a TCP connection only breaks.                    *)
(***************************************************************************)
EXTENDS Integers, Sequences, FiniteSets, FiniteSetsExt, SequencesExt

CONSTANTS
  Seids, GtpTunnels, QerIds,     \* sessions, tunnels and QoS rules of the UPF
  PoolV4,                        \* IPv4 addresses; members of Nat, taken in order
  Rates, Malformed,              \* maximum bit rates; one that is not an object of two rates
  Exchanges, FirstSeq, MaxSeq,   \* PFCP calls; sequence numbers FirstSeq + 1 .. MaxSeq
  Conns, MaxFrames,              \* TCP connections; bound: frames sent on one
  NoneHere                       \* no entry

SessionRecords == [addrs : SUBSET PoolV4, tunnels : SUBSET GtpTunnels,
                   rates : UNION {[q -> Rates \cup {Malformed}] : q \in SUBSET QerIds}]
ExchangeSeqs == FirstSeq + 1 .. MaxSeq
Datagrams == [kind : {"answer", "request"}, seq : ExchangeSeqs]
ExchangeRecords == [seq : ExchangeSeqs, state : {"waiting", "resolved", "done"},
                    result : Datagrams \cup {NoneHere}]

ASSUME UserPlaneAssumption ==
  /\ PoolV4 \subseteq Nat
  /\ FirstSeq \in Nat /\ MaxSeq \in Nat /\ MaxSeq < 16777216 /\ MaxFrames \in Nat
  /\ IsFiniteSet(Conns)
  /\ NoneHere \notin SessionRecords \cup Rates \cup {Malformed} \cup Datagrams \cup ExchangeRecords \cup Exchanges \cup Conns

VARIABLES
  upfSession,   \* pfcp_sessions: Seids -> [addrs, tunnels, mbr of each rule], or NoneHere
  allocated,    \* allocated_ipv4
  gtpTunnel,    \* the keys of gtp_tunnels
  enforced,     \* qos_enforcement: the maximum rate under <<seid, qer>>, or NoneHere
  leaked,       \* history: addresses taken for sessions that were not made
  apart         \* history: <<seid, qer>> whose entry was last changed without its rule, or not with it

upfeVars == <<upfSession, allocated, gtpTunnel, enforced, leaked, apart>>

UpfeInit ==
  /\ upfSession = [s \in Seids |-> NoneHere] /\ allocated = {} /\ gtpTunnel = {}
  /\ enforced = [k \in Seids \X QerIds |-> NoneHere] /\ leaked = {} /\ apart = {}

\* The first free address of the pool, or none: the session is made without it.
AllocateFrom(pool) == LET free == pool \ allocated IN IF free = {} THEN {} ELSE {Min(free)}
Addresses(pdnType) == IF pdnType \in {"IPV4", "IPV4V6"} THEN AllocateFrom(PoolV4) ELSE {}

\* A tunnel for each PDR with an F-TEID and a FAR, an enforcement entry for each QER.
EstablishSession(s) ==
  /\ upfSession[s] = NoneHere
  /\ \E p \in {"IPV4", "Ethernet"}, tunnels \in SUBSET (GtpTunnels \ gtpTunnel),
        rates \in UNION {[q -> Rates] : q \in SUBSET QerIds} :
       /\ upfSession' = [upfSession EXCEPT ![s] =
            [addrs |-> Addresses(p), tunnels |-> tunnels, rates |-> rates]]
       /\ allocated' = allocated \cup Addresses(p) /\ gtpTunnel' = gtpTunnel \cup tunnels
       /\ enforced' = [k \in Seids \X QerIds |->
            IF k[1] = s /\ k[2] \in DOMAIN rates THEN rates[k[2]] ELSE enforced[k]]
  /\ UNCHANGED <<leaked, apart>>

\* An IPv6 address is looked for in the list of all the hosts of a /64, which no memory
\* holds: the session is refused, the IPv4 address taken before it is kept, or the
\* process dies of it and starts again.
AskForIpv6(pdnType) ==
  \/ /\ allocated' = allocated \cup Addresses(pdnType)
     /\ leaked' = leaked \cup Addresses(pdnType)
     /\ UNCHANGED <<upfSession, gtpTunnel, enforced, apart>>
  \/ /\ upfSession' = [s \in Seids |-> NoneHere] /\ allocated' = {} /\ gtpTunnel' = {}
     /\ enforced' = [k \in Seids \X QerIds |-> NoneHere] /\ leaked' = {} /\ apart' = {}

\* An unknown rule is passed over; a known one is changed, and with its maximum bit
\* rate its entry's.  (A new gbr or qfi changes the rule only: neither is kept here.)
ModifySession(s, q, r) ==
  /\ upfSession[s] # NoneHere /\ q \in DOMAIN upfSession[s].rates
  /\ upfSession' = [upfSession EXCEPT ![s].rates[q] = r]
  /\ enforced' = [enforced EXCEPT ![<<s, q>>] = IF @ = NoneHere THEN @ ELSE r]
  /\ apart' = apart \ {<<s, q>>}
  /\ UNCHANGED <<allocated, gtpTunnel, leaked>>

\* A maximum that is no object raises, after the rule was changed.
ModifySessionRaises(s, q) ==
  /\ upfSession[s] # NoneHere /\ q \in DOMAIN upfSession[s].rates
  /\ upfSession' = [upfSession EXCEPT ![s].rates[q] = Malformed]
  /\ apart' = apart \cup {<<s, q>>}
  /\ UNCHANGED <<allocated, gtpTunnel, enforced, leaked>>

\* /qos/update changes the entry, not the session's rule.
UpdateQos(s, q, r) ==
  /\ enforced[<<s, q>>] # NoneHere
  /\ enforced' = [enforced EXCEPT ![<<s, q>>] = r] /\ apart' = apart \cup {<<s, q>>}
  /\ UNCHANGED <<upfSession, allocated, gtpTunnel, leaked>>

DeleteSession(s) ==
  /\ upfSession[s] # NoneHere /\ upfSession' = [upfSession EXCEPT ![s] = NoneHere]
  /\ allocated' = allocated \ upfSession[s].addrs
  /\ gtpTunnel' = gtpTunnel \ upfSession[s].tunnels
  /\ enforced' = [k \in Seids \X QerIds |-> IF k[1] = s THEN NoneHere ELSE enforced[k]]
  /\ apart' = {k \in apart : k[1] # s}
  /\ UNCHANGED leaked

UpfeNext ==
  \/ \E s \in Seids :
       \/ EstablishSession(s) \/ DeleteSession(s)
       \/ \E q \in QerIds : \/ \E r \in Rates : ModifySession(s, q, r) \/ UpdateQos(s, q, r)
                            \/ ModifySessionRaises(s, q)
  \/ \E p \in {"IPV6", "IPV4V6"} : AskForIpv6(p)

\* Whatever order sessions come, change and go in, the UPF's tables hold exactly what
\* the sessions in place own: every address allocated is one session's or was lost to a
\* refused IPv6 session, every tunnel is one session's, and every maximum bit rate
\* enforced is that of its session's rule, unless /qos/update changed it or an update
\* failed half way since (upf_enhanced.py:309-345, 643-871, 918-984).
UpfTablesAgree ==
  LET live == {s \in Seids : upfSession[s] # NoneHere}
  IN /\ allocated = leaked \cup UNION {upfSession[s].addrs : s \in live}
     /\ gtpTunnel = UNION {upfSession[s].tunnels : s \in live}
     /\ \A s, t \in live : s # t => /\ upfSession[s].addrs \cap upfSession[t].addrs = {}
                                    /\ upfSession[s].tunnels \cap upfSession[t].tunnels = {}
     /\ \A s \in live : upfSession[s].addrs \cap leaked = {}
     /\ \A k \in Seids \X QerIds :
          IF k[1] \in live /\ k[2] \in DOMAIN upfSession[k[1]].rates
          THEN enforced[k] \in Rates /\ (k \in apart \/ enforced[k] = upfSession[k[1]].rates[k[2]])
          ELSE enforced[k] = NoneHere

-----------------------------------------------------------------------------
VARIABLES
  seqNumber,  \* PFCPCodec.sequence_number
  exchange,   \* Exchanges -> [seq, state, result], or NoneHere before send_and_wait
  pending,    \* pending_responses: keys -> the call whose future it holds, or NoneHere
  network     \* datagrams under way to this node: [kind, seq]

pfcpVars == <<seqNumber, exchange, pending, network>>

\* The header packs the number into four bytes; reading it back drops the low eight
\* bits, where the spare byte was expected, for the request and for the answer alike.
PfcpKey(n) == n \div 256
PfcpKeys == {PfcpKey(n) : n \in FirstSeq .. MaxSeq}

PfcpInit ==
  /\ seqNumber = FirstSeq /\ exchange = [c \in Exchanges |-> NoneHere]
  /\ pending = [k \in PfcpKeys |-> NoneHere] /\ network = {}

\* send_and_wait: any request of a PFCPNode; the answer may come or never come.
SendAndWait(c) ==
  /\ exchange[c] = NoneHere /\ seqNumber < MaxSeq /\ seqNumber' = seqNumber + 1
  /\ exchange' = [exchange EXCEPT ![c] =
       [seq |-> seqNumber', state |-> "waiting", result |-> NoneHere]]
  /\ pending' = [pending EXCEPT ![PfcpKey(seqNumber')] = c]
  /\ network' \in {network, network \cup {[kind |-> "answer", seq |-> seqNumber']}}

\* The peer's own requests bear the peer's own numbers.
PeerRequests(n) ==
  /\ network' = network \cup {[kind |-> "request", seq |-> n]}
  /\ UNCHANGED <<seqNumber, exchange, pending>>

\* _handle_message: a datagram, perhaps to come again, resolves the future under its
\* key; one already resolved refuses, and without an entry a handler gets it.
HandleMessage(m) ==
  /\ m \in network /\ network' \in {network, network \ {m}}
  /\ LET c == pending[PfcpKey(m.seq)] IN
       exchange' = IF c = NoneHere \/ exchange[c].state # "waiting" THEN exchange
                   ELSE [exchange EXCEPT ![c].state = "resolved", ![c].result = m]
  /\ UNCHANGED <<seqNumber, pending>>

\* mutated form: a call that ends leaves its future behind
CallReturnsKeeping(c) ==
  /\ exchange[c] # NoneHere /\ exchange[c].state \in {"waiting", "resolved"}
  /\ exchange' = [exchange EXCEPT ![c].state = "done"]
  /\ UNCHANGED <<seqNumber, pending, network>>

\* The future's result, or None at the timeout; the entry goes, whoever's it is now.
CallReturns(c) ==
  /\ exchange[c] # NoneHere /\ exchange[c].state \in {"waiting", "resolved"}
  /\ exchange' = [exchange EXCEPT ![c].state = "done"]
  /\ pending' = [pending EXCEPT ![PfcpKey(exchange[c].seq)] = NoneHere]
  /\ UNCHANGED <<seqNumber, network>>

PfcpNext ==
  \/ \E c \in Exchanges : SendAndWait(c) \/ CallReturns(c)
  \/ \E n \in ExchangeSeqs : PeerRequests(n)
  \/ \E m \in network : HandleMessage(m)

\* A future that can still be resolved is one some call waits for, under the key of
\* that call: nothing is handed to a call that has returned (pfcp.py:1328-1358).
PendingIsAwaited ==
  \A k \in PfcpKeys : pending[k] # NoneHere =>
    /\ exchange[pending[k]].state \in {"waiting", "resolved"}
    /\ PfcpKey(exchange[pending[k]].seq) = k

\* "Send message and wait for response" (pfcp.py:1329): what a call returns is the
\* answer to the message it sent.
ResponseIsToTheRequest ==
  \A c \in Exchanges : exchange[c] # NoneHere /\ exchange[c].result # NoneHere =>
    exchange[c].result = [kind |-> "answer", seq |-> exchange[c].seq]

-----------------------------------------------------------------------------
VARIABLES
  conn,      \* Conns -> "idle", "open", "illegal": a frame of no legal length was sent,
             \*   and nothing after it matters; "broken", "closed" or, for that frame, "refused"
  wire,      \* Conns -> what the peer sent and nobody read: frames' headers and bodies
  framesSent,\* Conns -> frames the peer has sent
  reading,   \* Conns -> what the server's coroutine awaits, of NgapServer
  handled,   \* Conns -> the frames given to the message handler, in order
  cast,      \* peers a broadcast has still to write to; NoneHere: none under way
  current,   \* the TCP fallback's self.reader
  awaited,   \* what its recv awaits: "idle", "header" or "body", and from which reader
  received   \* frames its recv returned: <<connection of the header, and of the body>>

ngapVars == <<conn, wire, framesSent, reading, handled, cast, current, awaited, received>>

NgapInit ==
  /\ conn = [c \in Conns |-> "idle"] /\ wire = [c \in Conns |-> <<>>]
  /\ framesSent = [c \in Conns |-> 0] /\ reading = [c \in Conns |-> "none"]
  /\ handled = [c \in Conns |-> <<>>] /\ cast = NoneHere
  /\ current = NoneHere /\ awaited = <<"idle", NoneHere>> /\ received = <<>>

\* Either server: NgapServer reads each connection in a coroutine of its own; the
\* fallback's _handle_connection overwrites the reader it has.
Accept(c) ==
  /\ conn[c] = "idle" /\ conn' = [conn EXCEPT ![c] = "open"]
  /\ reading' = [reading EXCEPT ![c] = "header"] /\ current' = c
  /\ UNCHANGED <<wire, framesSent, handled, cast, awaited, received>>

PeerSends(c) ==
  /\ conn[c] = "open" /\ framesSent[c] < MaxFrames
  /\ framesSent' = [framesSent EXCEPT ![c] = @ + 1]
  /\ wire' = [wire EXCEPT ![c] = @ \o << <<"header", framesSent'[c]>>, <<"body", framesSent'[c]>> >>]
  /\ UNCHANGED <<conn, reading, handled, cast, current, awaited, received>>

\* An empty frame, or one of more than 65535 octets.
PeerSendsIllegal(c) ==
  /\ conn[c] = "open" /\ conn' = [conn EXCEPT ![c] = "illegal"]
  /\ UNCHANGED <<wire, framesSent, reading, handled, cast, current, awaited, received>>

\* The connection breaks: the end of what was sent may be lost.
Breaks(c) ==
  /\ conn[c] \in {"open", "illegal"} /\ conn' = [conn EXCEPT ![c] = "broken"]
  /\ \E n \in 0 .. Len(wire[c]) : wire' = [wire EXCEPT ![c] = SubSeq(@, 1, n)]
  /\ UNCHANGED <<framesSent, reading, handled, cast, current, awaited, received>>

\* ngap_frame_read
ReadPart(c, part, next) ==
  /\ reading[c] = part /\ wire[c] # <<>> /\ Head(wire[c])[1] = part
  /\ reading' = [reading EXCEPT ![c] = next] /\ wire' = [wire EXCEPT ![c] = Tail(@)]
  /\ UNCHANGED <<conn, framesSent, cast, current, awaited, received>>

ServerReads(c) ==
  \/ ReadPart(c, "header", "body") /\ UNCHANGED handled
  \/ ReadPart(c, "body", "header") /\ handled' = [handled EXCEPT ![c] = Append(@, Head(wire[c])[2])]

\* IncompleteReadError, or None for a header that announces no legal length, while the
\* peer is there: the connection's entry is popped and its writer closed.
ServerDrops(c) ==
  /\ conn[c] \in {"broken", "illegal"} /\ wire[c] = <<>>
  /\ conn' = [conn EXCEPT ![c] = IF @ = "broken" THEN "closed" ELSE "refused"]
  /\ reading' = [reading EXCEPT ![c] = "none"]
  /\ UNCHANGED <<wire, framesSent, handled, cast, current, awaited, received>>

Connected == {c \in Conns : conn[c] \in {"open", "illegal", "broken"}}
StartBroadcast ==
  /\ cast = NoneHere /\ Connected # {} /\ cast' = Connected
  /\ UNCHANGED <<conn, wire, framesSent, reading, handled, current, awaited, received>>

\* A peer that is gone is skipped; a write that raises ends the whole broadcast.
BroadcastNext(c) ==
  /\ cast # NoneHere /\ c \in cast
  /\ cast' \in {IF cast = {c} THEN NoneHere ELSE cast \ {c}}
              \cup (IF conn[c] = "broken" THEN {NoneHere} ELSE {})
  /\ UNCHANGED <<conn, wire, framesSent, reading, handled, current, awaited, received>>

\* The fallback's recv: the header from the reader it has, the body from the reader it
\* has by then, of any length; with a timeout only on the header.  The end of a broken
\* connection ends the wait.
Recv ==
  /\ current # NoneHere
  /\ \/ awaited[1] = "idle" /\ awaited' = <<"header", current>> /\ UNCHANGED <<wire, received>>
     \/ /\ \/ awaited[1] = "header"
           \/ awaited[1] = "body" /\ conn[awaited[2]] = "broken" /\ wire[awaited[2]] = <<>>
        /\ awaited' = <<"idle", NoneHere>> /\ UNCHANGED <<wire, received>>
     \/ LET c == awaited[2] IN
        /\ awaited[1] = "header" /\ wire[c] # <<>> /\ wire' = [wire EXCEPT ![c] = Tail(@)]
        /\ awaited' = <<"body", current, c>> /\ UNCHANGED received
     \/ LET c == awaited[2] IN
        /\ awaited[1] = "body" /\ wire[c] # <<>> /\ wire' = [wire EXCEPT ![c] = Tail(@)]
        /\ awaited' = <<"idle", NoneHere>>
        /\ received' = Append(received, <<awaited[3], Head(wire[c])>>)
  /\ UNCHANGED <<conn, framesSent, reading, handled, cast, current>>

NgapNext ==
  \/ \E c \in Conns : \/ Accept(c) \/ PeerSends(c) \/ PeerSendsIllegal(c) \/ Breaks(c)
                      \/ ServerReads(c) \/ ServerDrops(c) \/ BroadcastNext(c)
  \/ StartBroadcast

FallbackNext == Recv \/ \E c \in Conns : Accept(c) \/ PeerSends(c) \/ Breaks(c)

\* Each connection's frames reach the handler in the order sent, each once and whole,
\* however reads, breaks and other connections interleave, and none is missed before the
\* server itself closes a connection over an illegal length (transport.py:329-390).
FramesInOrder ==
  \A c \in Conns :
    /\ handled[c] = [i \in 1 .. Len(handled[c]) |-> i] /\ Len(handled[c]) <= framesSent[c]
    /\ conn[c] = "refused" => Len(handled[c]) = framesSent[c]
    /\ conn[c] \in {"open", "illegal"} => 2 * (framesSent[c] - Len(handled[c]))
                                      = Len(wire[c]) + (IF reading[c] = "body" THEN 1 ELSE 0)

\* As long as the fallback has had one connection, a message it returns is the body that
\* the header before it announced, and none is skipped, whatever times out between
\* (sctp_transport.py:434-545).  A second connection takes the reader over in between.
OneConnectionIsFramed ==
  Cardinality({c \in Conns : conn[c] # "idle"}) = 1 =>
    \A i \in 1 .. Len(received) : received[i] = <<current, <<"body", i>>>>

\* "Receive message with framing" (sctp_transport.py:486; "Message framing", 378): what
\* recv returns is the body of a frame, however many gNBs connect.
MessagesAreFramed == \A i \in 1 .. Len(received) : received[i][2][1] = "body"
=============================================================================
