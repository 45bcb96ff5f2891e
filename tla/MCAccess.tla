-------------------------------- MODULE MCAccess --------------------------------
(***************************************************************************)
(* The way in and the way through: service communication proxy, exposure    *)
(* function and non-3GPP interworking; the user plane, PFCP and the two     *)
(* NGAP transports; gNB, CU and DU; the NAS and PFCP codecs and 5G-AKA.  The *)
(* groups share no state and send each other nothing, so a behaviour is one *)
(* of one group, the one in focus, while the others rest in an initial state. *)
(***************************************************************************)
EXTENDS Interworking, UserPlane, Ran, NasCodec, PfcpCodec, Aka, TLC

CONSTANTS n1, n2, A, B  \* two instances at the proxy and what they may be

VARIABLE focus

edgeVars    == <<scpVars, nefVars, n3iwfVars>>
userVars    == <<upfeVars, pfcpVars, ngapVars>>
ranVars     == <<gnbVars, f1Vars, rlcVars>>
secureVars  == <<nasVars, codecVars, akaVars>>
vars        == <<focus, edgeVars, userVars, ranVars, secureVars>>

\* Where a group may start in several states and is not in focus, one will do.
Init ==
  /\ focus \in {"scp", "nef", "n3iwf", "upf", "pfcp", "ngap", "fallback",
                "gnb", "f1", "rlc", "nas", "codec", "aka"}
  /\ ScpInit /\ NefInit /\ N3iwfInit /\ UpfeInit /\ PfcpInit /\ NgapInit
  /\ GnbInit /\ F1Init /\ RlcInit /\ NasInit /\ CodecInit /\ AkaInit
  /\ focus # "gnb" => amfLink
  /\ focus # "codec" => nodeNumber = 0

Focus(part) == focus = part /\ UNCHANGED focus

Next ==
  \/ Focus("scp") /\ ScpNext /\ UNCHANGED <<nefVars, n3iwfVars, userVars, ranVars, secureVars>>
  \/ Focus("nef") /\ NefNext /\ UNCHANGED <<scpVars, n3iwfVars, userVars, ranVars, secureVars>>
  \/ Focus("n3iwf") /\ N3iwfNext /\ UNCHANGED <<scpVars, nefVars, userVars, ranVars, secureVars>>
  \/ Focus("upf") /\ UpfeNext /\ UNCHANGED <<edgeVars, pfcpVars, ngapVars, ranVars, secureVars>>
  \/ Focus("pfcp") /\ PfcpNext /\ UNCHANGED <<edgeVars, upfeVars, ngapVars, ranVars, secureVars>>
  \/ Focus("ngap") /\ NgapNext /\ UNCHANGED <<edgeVars, upfeVars, pfcpVars, ranVars, secureVars>>
  \/ Focus("fallback") /\ FallbackNext
       /\ UNCHANGED <<edgeVars, upfeVars, pfcpVars, ranVars, secureVars>>
  \/ Focus("gnb") /\ GnbNext /\ UNCHANGED <<edgeVars, userVars, f1Vars, rlcVars, secureVars>>
  \/ Focus("f1") /\ F1Next /\ UNCHANGED <<edgeVars, userVars, gnbVars, rlcVars, secureVars>>
  \/ Focus("rlc") /\ RlcNext /\ UNCHANGED <<edgeVars, userVars, gnbVars, f1Vars, secureVars>>
  \/ Focus("nas") /\ NasNext /\ UNCHANGED <<edgeVars, userVars, ranVars, codecVars, akaVars>>
  \/ Focus("codec") /\ CodecNext /\ UNCHANGED <<edgeVars, userVars, ranVars, nasVars, akaVars>>
  \/ Focus("aka") /\ AkaNext /\ UNCHANGED <<edgeVars, userVars, ranVars, nasVars, codecVars>>

Spec == Init /\ [][Next]_vars
-----------------------------------------------------------------------------
MCTypesOf == (n1 :> {A, B}) @@ (n2 :> {A})
\* A mobile network code of two digits and one of three.
MCPlmns == { << <<0, 0, 1>>, <<0, 1>> >>, << <<3, 1, 0>>, <<4, 1, 0>> >> }
-----------------------------------------------------------------------------
\* (Each invariant says nothing of states in which its group only rests.)

\* The proxy's calls go to instances that were registered when chosen and each failure is
\* counted once, the exposure function starts no report once it has counted as many as
\* were asked for, and the N3IWF's tables of UEs, tunnels and addresses agree (scp.py,
\* nef.py, n3iwf.py).
InterworkingInv ==
  focus \in {"scp", "nef", "n3iwf"} =>
    InterworkingTypeOK /\ RoutingIsSound /\ QuotaIsKept /\ N3iwfAgrees

\* The UPF's tables of sessions, addresses, tunnels and QoS agree, no PFCP answer reaches a
\* call that has returned, and NGAP frames come in order and whole, over the TCP fallback
\* at least with one connection (upf_enhanced.py, pfcp.py, transport.py, sctp_transport.py).
UserPlaneInv ==
  /\ focus = "upf" => UpfTablesAgree
  /\ focus = "pfcp" => PendingIsAwaited
  /\ focus = "ngap" => FramesInOrder
  /\ focus = "fallback" => OneConnectionIsFramed

\* gNB, AMF, DU and CU do not confuse UEs, RLC hands on in order, and UE and network come to
\* the same keys (gnb.py, cu.py, du.py, aka_5g.py).
RanInv ==
  /\ focus = "gnb" => UplinkNamesItsUe
  /\ focus = "f1" => F1ContextsAgree
  /\ focus = "rlc" => RlcDeliversInOrder
  /\ focus = "aka" => KeysAgree

\* What one side encodes the other understands: the NAS messages that have a decoder, the
\* type of those that have none, and PFCP messages (nas_5g.py, pfcp.py).
BothSidesAgree ==
  /\ focus = "nas" => DecodeInvertsEncode
  /\ focus = "codec" => PfcpReadBack
==============================================================================
