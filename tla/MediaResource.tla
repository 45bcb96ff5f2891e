----------------------------- MODULE MediaResource -----------------------------
(***************************************************************************)
(* The media resource function (core_network/mrf.py): conferences, their    *)
(* members and floor, transcoding sessions, and the RTP ports both take     *)
(* from one pool.                                                           *)
(***************************************************************************)
EXTENDS Integers, FiniteSets, FiniteSetsExt

CONSTANTS
  Conferences, Members, Transcodings,  \* identities the server may hand out
  Ports,       \* rtp_port_pool at start; members of Nat
  MaxMembers,  \* max_members of every conference
  Unused       \* no such conference, member, session or port

ConferenceRecords == [state : {"active", "locked"}, muteOnEntry : BOOLEAN]
MemberRecords ==
  [conf : Conferences, port : Ports, moderator : BOOLEAN, canHear : BOOLEAN, canSpeak : BOOLEAN,
   state : {"connected", "muted", "deaf"}]

ASSUME MrfAssumption ==
  /\ Ports \subseteq Nat /\ MaxMembers \in Nat
  /\ IsFiniteSet(Ports) /\ IsFiniteSet(Members) /\ IsFiniteSet(Transcodings)
  /\ Unused \notin Ports \cup ConferenceRecords \cup MemberRecords

VARIABLES
  conference,   \* Conferences -> its state and mute_on_entry, or Unused
  member,       \* Members -> its conference, port, flags and state, or Unused
  transcoding,  \* Transcodings -> the port of input_rtp, or Unused
  portPool,     \* rtp_port_pool
  outputPorts   \* history: ports allocated to a transcoding's output side

mrfVars == <<conference, member, transcoding, portPool, outputPorts>>

In(m, k) == member[m] # Unused /\ member[m].conf = k
MembersOf(k) == {m \in Members : In(m, k)}
\* The pool is kept sorted: allocation takes its least port.
NextPort == Min(portPool)

MrfInit ==
  /\ conference = [k \in Conferences |-> Unused] /\ member = [m \in Members |-> Unused]
  /\ transcoding = [t \in Transcodings |-> Unused]
  /\ portPool = Ports /\ outputPorts = {}

CreateConference(k) ==
  /\ conference[k] = Unused
  /\ \E onEntry \in BOOLEAN :
       conference' = [conference EXCEPT ![k] = [state |-> "active", muteOnEntry |-> onEntry]]
  /\ UNCHANGED <<member, transcoding, portPool, outputPorts>>

\* mutated form: the members' ports stay allocated
DestroyConferenceOnly(k) ==
  /\ conference[k] # Unused
  /\ conference' = [conference EXCEPT ![k] = Unused]
  /\ member' = [m \in Members |-> IF In(m, k) THEN Unused ELSE member[m]]
  /\ UNCHANGED <<transcoding, portPool, outputPorts>>

DestroyConference(k) ==
  /\ conference[k] # Unused
  /\ conference' = [conference EXCEPT ![k] = Unused]
  /\ member' = [m \in Members |-> IF In(m, k) THEN Unused ELSE member[m]]
  /\ portPool' = portPool \cup {member[m].port : m \in MembersOf(k)}
  /\ UNCHANGED <<transcoding, outputPorts>>

LockConference(k, s) ==
  /\ conference[k] # Unused /\ conference' = [conference EXCEPT ![k].state = s]
  /\ UNCHANGED <<member, transcoding, portPool, outputPorts>>

\* Refused when locked, full, or no port is left.
AddMember(k, m) ==
  /\ conference[k] # Unused /\ conference[k].state = "active"
  /\ member[m] = Unused /\ Cardinality(MembersOf(k)) < MaxMembers
  /\ portPool # {}
  /\ \E moderator \in BOOLEAN :
       member' = [member EXCEPT ![m] =
         [conf |-> k, port |-> NextPort, moderator |-> moderator, canHear |-> TRUE,
          canSpeak |-> ~conference[k].muteOnEntry, state |-> "connected"]]
  /\ portPool' = portPool \ {NextPort}
  /\ UNCHANGED <<conference, transcoding, outputPorts>>

\* end_conference_on_exit keeps its default: no handler sets it.
RemoveMember(m) ==
  /\ member[m] # Unused
  /\ portPool' = portPool \cup {member[m].port} /\ member' = [member EXCEPT ![m] = Unused]
  /\ UNCHANGED <<conference, transcoding, outputPorts>>

MuteMember(m) == [member[m] EXCEPT !.canSpeak = FALSE, !.state = "muted"]
UnmuteMember(m) == [member[m] EXCEPT !.canSpeak = TRUE, !.state = "connected"]
DeafMember(m) == [member[m] EXCEPT !.canHear = FALSE, !.state = "deaf"]
UndeafMember(m) ==
  [member[m] EXCEPT !.canHear = TRUE, !.state = IF member[m].canSpeak THEN "connected" ELSE "muted"]

FloorControl(m) ==
  /\ member[m] # Unused
  /\ \E f \in {MuteMember(m), UnmuteMember(m), DeafMember(m), UndeafMember(m)} :
       member' = [member EXCEPT ![m] = f]
  /\ UNCHANGED <<conference, transcoding, portPool, outputPorts>>

MuteAll(k, sparing) ==
  /\ conference[k] # Unused
  /\ member' = [m \in Members |-> IF In(m, k) /\ ~(sparing /\ member[m].moderator)
                                  THEN MuteMember(m) ELSE member[m]]
  /\ UNCHANGED <<conference, transcoding, portPool, outputPorts>>

UnmuteAll(k) ==
  /\ conference[k] # Unused
  /\ member' = [m \in Members |-> IF In(m, k) THEN UnmuteMember(m) ELSE member[m]]
  /\ UNCHANGED <<conference, transcoding, portPool, outputPorts>>

\* Two ports are taken, one of them kept; a pool of one is emptied by a request
\* that then fails.
CreateTranscodingSession(t) ==
  /\ transcoding[t] = Unused /\ portPool # {}
  /\ LET first == NextPort
         rest == portPool \ {first}
     IN IF rest = {}
        THEN portPool' = {} /\ outputPorts' = outputPorts \cup {first} /\ UNCHANGED transcoding
        ELSE /\ portPool' = rest \ {Min(rest)} /\ outputPorts' = outputPorts \cup {Min(rest)}
             /\ transcoding' = [transcoding EXCEPT ![t] = first]
  /\ UNCHANGED <<conference, member>>

DeleteTranscodingSession(t) ==
  /\ transcoding[t] # Unused
  /\ portPool' = portPool \cup {transcoding[t]} /\ transcoding' = [transcoding EXCEPT ![t] = Unused]
  /\ UNCHANGED <<conference, member, outputPorts>>

MrfNext ==
  \/ \E k \in Conferences :
       \/ CreateConference(k) \/ DestroyConference(k) \/ UnmuteAll(k)
       \/ \E s \in {"active", "locked"} : LockConference(k, s)
       \/ \E sparing \in BOOLEAN : MuteAll(k, sparing)
       \/ \E m \in Members : AddMember(k, m)
  \/ \E m \in Members : RemoveMember(m) \/ FloorControl(m)
  \/ \E t \in Transcodings : CreateTranscodingSession(t) \/ DeleteTranscodingSession(t)

MrfTypeOK ==
  /\ conference \in [Conferences -> ConferenceRecords \cup {Unused}]
  /\ member \in [Members -> MemberRecords \cup {Unused}]
  /\ transcoding \in [Transcodings -> Ports \cup {Unused}]
  /\ portPool \subseteq Ports /\ outputPorts \subseteq Ports

\* A port is in the pool or carries one stream, never both and never two, and
\* no port is lost but those a transcoding session took for its output side
\* and never returns (mrf.py:331-336, 459-468, 688-709, 731-733).
PortsAreAccountedFor ==
  LET held == {member[m].port : m \in {n \in Members : member[n] # Unused}}
              \cup {transcoding[t] : t \in {u \in Transcodings : transcoding[u] # Unused}}
  IN /\ held \cap portPool = {}
     /\ Cardinality(held) = Cardinality({n \in Members : member[n] # Unused})
                            + Cardinality({u \in Transcodings : transcoding[u] # Unused})
     /\ Ports = held \cup portPool \cup outputPorts
     /\ outputPorts \cap (held \cup portPool) = {}

\* Nobody stays in a conference that is gone, and the state shown for a
\* member is one its flags explain: "muted" cannot speak, "deaf" cannot hear
\* (mrf.py:331-336, 489-490, 521-522, 537-541, 554-575). The converse fails in
\* the code: unmuting a deaf member shows it connected.
StateExplainedByFlags ==
  \A m \in Members : member[m] # Unused =>
    /\ conference[member[m].conf] # Unused
    /\ member[m].state = "muted" => ~member[m].canSpeak
    /\ member[m].state = "deaf" => ~member[m].canHear
=============================================================================
