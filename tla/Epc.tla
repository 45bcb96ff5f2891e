-------------------------------- MODULE Epc --------------------------------
(***************************************************************************)
(* The 4G core: the MME's UE contexts and their four indexes               *)
(* (core_network/mme.py), the sessions and bearers of SGW and PGW and the  *)
(* PGW's address pools (sgw.py, pgw.py), and the HSS's subscribers with    *)
(* their MSISDN index and sequence numbers (hss.py).  The four do not call *)
(* each other: a client walks a UE through them in any order.              *)
(***************************************************************************)
EXTENDS Integers, Sequences, FiniteSets, FiniteSetsExt

CONSTANTS
  Imsis,          \* subscribers
  UeContexts,     \* UE contexts the MME creates
  MaxGuti,        \* bound: GUTIs allocated
  MaxPdns,        \* bound: PDN connections of one UE
  GwSessions,     \* sessions of a gateway
  PoolSize,       \* addresses of the internet pool: 65533 in the code
  MaxEbi,         \* highest EPS bearer id: 15 in the code, the first is 5
  MaxTeid,        \* bound: bearers a gateway creates
  Msisdns,
  MaxSqn,         \* bound: sequence numbers drawn
  Nobody

\* What the four tables hold.
Ebis == 5..MaxEbi
UeRecords == [imsi : Imsis, state : {"REGISTERED", "DEREGISTERED"},
              guti : 1..MaxGuti, pdns : 0..MaxPdns]
PgwRecords == [apn : {"internet", "unknown"}, ip : 0..PoolSize, asked : SUBSET Ebis]
Bearers == [session : GwSessions, teid : 1..MaxTeid, ebi : Ebis]
SubscriberRecords == [active : BOOLEAN, msisdn : Msisdns \cup {Nobody},
                      mme : {"mme1", "mme2", Nobody}, sqn : 0..MaxSqn]

ASSUME EpcAssumption ==
  /\ MaxGuti \in Nat /\ MaxPdns \in Nat \ {0} /\ PoolSize \in Nat /\ MaxSqn \in Nat
  /\ MaxEbi \in Nat /\ MaxEbi >= 5 /\ MaxTeid \in Nat
  /\ Nobody \notin UeContexts \cup GwSessions \cup Imsis \cup Msisdns
  /\ Nobody \notin UeRecords \cup PgwRecords \cup SubscriberRecords

VARIABLES
  ue,             \* context -> imsi, EMM state, current GUTI, PDN connections
  ueById,         \* keys of ue_by_id
  ueByImsi, ueByGuti,   \* the index of each, or Nobody
  mTmsi,          \* m_tmsi_counter
  sgwSession,     \* session of the SGW -> its IMSI, or Nobody
  sgwUes, ueBefore,         \* the UEs the SGW knows; <<i, j>> where i is listed before j
  sgwBearer, sgwActive,     \* its sessions' bearers; the TEIDs of those that are ACTIVE
  pgwSession,     \* session -> its APN, its address; the EBIs it was asked for (history)
  pgwBearer,      \* the bearers of the PGW's sessions
  poolAllocated,  \* IpPool.allocated of the internet pool
  poolCounter,    \* ip_counter: addresses given out
  sgwTeid, pgwTeid,         \* teid_counter: bearers each has created
  sgwBearers, pgwBearers,   \* total_bearers of each
  sgwStray, pgwStray,       \* those counted for requests that failed half-way (history)
  subscriber,     \* IMSI -> status, MSISDN, serving MME, SQN, or Nobody
  byMsisdn        \* subscribers_by_msisdn

mmeVars == <<ue, ueById, ueByImsi, ueByGuti, mTmsi>>
sgwVars == <<sgwSession, sgwUes, ueBefore, sgwBearer, sgwActive, sgwTeid, sgwBearers, sgwStray>>
pgwVars == <<pgwSession, pgwBearer, poolAllocated, poolCounter, pgwTeid, pgwBearers, pgwStray>>
hssVars == <<subscriber, byMsisdn>>

EpcInit ==
  /\ ue = [u \in UeContexts |-> Nobody] /\ ueById = {} /\ mTmsi = 0
  /\ ueByImsi = [i \in Imsis |-> Nobody] /\ ueByGuti = [g \in 1..MaxGuti |-> Nobody]
  /\ sgwSession = [s \in GwSessions |-> Nobody] /\ pgwSession = [s \in GwSessions |-> Nobody]
  /\ sgwUes = {} /\ ueBefore = {} /\ sgwBearer = {} /\ sgwActive = {} /\ pgwBearer = {}
  /\ poolAllocated = {} /\ poolCounter = 0
  /\ sgwTeid = 0 /\ sgwBearers = 0 /\ sgwStray = 0
  /\ pgwTeid = 0 /\ pgwBearers = 0 /\ pgwStray = 0
  /\ subscriber = [i \in Imsis |-> Nobody] /\ byMsisdn = [m \in Msisdns |-> Nobody]
-----------------------------------------------------------------------------
(* MME.                                                                     *)

NextGuti == mTmsi + 1
\* add_ue, after the attach has given the context a GUTI and one connection.
AddUe(u, imsi) ==
  /\ ue' = [ue EXCEPT ![u] = [imsi |-> imsi, state |-> "REGISTERED", guti |-> NextGuti, pdns |-> 1]]
  /\ ueById' = ueById \cup {u}
  /\ ueByImsi' = [ueByImsi EXCEPT ![imsi] = u]
  /\ ueByGuti' = [ueByGuti EXCEPT ![NextGuti] = u]
  /\ mTmsi' = NextGuti

\* emm_attach_request by IMSI: the context found is used again, its former
\* GUTI keeps resolving to it.
AttachByImsi(imsi) ==
  /\ mTmsi < MaxGuti
  /\ IF ueByImsi[imsi] # Nobody THEN AddUe(ueByImsi[imsi], imsi)
     ELSE \E u \in UeContexts : ue[u] = Nobody /\ AddUe(u, imsi)

AttachByGuti(g) ==
  /\ mTmsi < MaxGuti /\ ueByGuti[g] # Nobody
  /\ AddUe(ueByGuti[g], ue[ueByGuti[g]].imsi)

\* remove_ue: the entries of the context's current names go.
RemoveUe(u) ==
  /\ ue' = [ue EXCEPT ![u].state = "DEREGISTERED"]
  /\ ueById' = ueById \ {u}
  /\ IF u \in ueById
     THEN /\ ueByImsi' = [ueByImsi EXCEPT ![ue[u].imsi] = Nobody]
          /\ ueByGuti' = [ueByGuti EXCEPT ![ue[u].guti] = Nobody]
     ELSE UNCHANGED <<ueByImsi, ueByGuti>>
  /\ UNCHANGED mTmsi

Detach(u) ==
  /\ u \in {ueByImsi[i] : i \in Imsis} \cup {ueByGuti[g] : g \in 1..MaxGuti}
  /\ u # Nobody
  /\ RemoveUe(u)

\* mutated form: the new GUTI is not entered
TrackingAreaUpdateUnindexed(g) ==
  /\ ueByGuti[g] # Nobody /\ mTmsi < MaxGuti
  /\ LET u == ueByGuti[g]
     IN /\ ueByGuti' = [ueByGuti EXCEPT ![ue[u].guti] = Nobody]
        /\ ue' = [ue EXCEPT ![u].guti = NextGuti]
  /\ mTmsi' = NextGuti /\ UNCHANGED <<ueById, ueByImsi>>

\* emm_tau_request: whatever GUTI found the UE, its current one is replaced.
TrackingAreaUpdate(g) ==
  /\ ueByGuti[g] # Nobody /\ mTmsi < MaxGuti
  /\ LET u == ueByGuti[g]
     IN /\ ueByGuti' = [ueByGuti EXCEPT ![ue[u].guti] = Nobody, ![NextGuti] = u]
        /\ ue' = [ue EXCEPT ![u].guti = NextGuti]
  /\ mTmsi' = NextGuti /\ UNCHANGED <<ueById, ueByImsi>>

PdnConnectivity(u) ==
  /\ u \in ueById /\ ue[u].pdns < MaxPdns
  /\ ue' = [ue EXCEPT ![u].pdns = @ + 1]
  /\ UNCHANGED <<ueById, ueByImsi, ueByGuti, mTmsi>>
\* esm_pdn_disconnect_request: not the last one of a registered UE.
PdnDisconnect(u) ==
  /\ u \in ueById /\ ue[u].pdns > 0
  /\ ~ (ue[u].pdns = 1 /\ ue[u].state = "REGISTERED")
  /\ ue' = [ue EXCEPT ![u].pdns = @ - 1]
  /\ UNCHANGED <<ueById, ueByImsi, ueByGuti, mTmsi>>

MmeNext ==
  \/ \E i \in Imsis : AttachByImsi(i)
  \/ \E g \in 1..MaxGuti : AttachByGuti(g) \/ TrackingAreaUpdate(g)
  \/ \E u \in UeContexts : Detach(u) \/ PdnConnectivity(u) \/ PdnDisconnect(u)
-----------------------------------------------------------------------------
(* SGW and PGW.  A bearer is its session, the tunnel id it was created with *)
(* and its EBI; a session lists its bearers in the order of their tunnels.  *)

Of(bearers, s) == {b \in bearers : b.session = s}
NewEbi(bearers) == Max({b.ebi : b \in bearers}) + 1      \* create_dedicated_bearer, both
\* next((b for b in session.bearers if b.ebi == e), None)
IsFirst(bearers, b) == \A c \in bearers : c.session = b.session /\ c.ebi = b.ebi => b.teid <= c.teid
Live(table) == {s \in GwSessions : table[s] # Nobody}

\* A client names the EBIs of the bearers it wants, in any number and twice if it likes.
BearerLists == UNION {[1..n -> Ebis] : n \in 0..MaxTeid}
NewBearers(s, teid, ebis) ==
  {[session |-> s, teid |-> teid + i, ebi |-> ebis[i]] : i \in DOMAIN ebis}

\* The UE is listed with its first session; or before, when its request failed.
SgwUeKnown(imsi) ==
  /\ sgwUes' = sgwUes \cup {imsi}
  /\ ueBefore' = ueBefore \cup (IF imsi \in sgwUes THEN {} ELSE sgwUes \X {imsi})

CreateSgwSession(s, imsi, ebis) ==
  /\ sgwSession[s] = Nobody /\ sgwTeid + Len(ebis) <= MaxTeid
  /\ SgwUeKnown(imsi)
  /\ sgwSession' = [sgwSession EXCEPT ![s] = imsi]
  /\ sgwBearer' = sgwBearer \cup NewBearers(s, sgwTeid, ebis)
  /\ sgwActive' = sgwActive \cup {b.teid : b \in NewBearers(s, sgwTeid, ebis)}
  /\ sgwTeid' = sgwTeid + Len(ebis)
  /\ sgwBearers' = sgwBearers + Len(ebis) /\ UNCHANGED sgwStray

\* An entry whose EBI is no number raises, after those before it were counted.
CreateSgwSessionRaises(imsi, done) ==
  /\ sgwTeid + done <= MaxTeid
  /\ SgwUeKnown(imsi)
  /\ sgwTeid' = sgwTeid + done
  /\ sgwBearers' = sgwBearers + done /\ sgwStray' = sgwStray + done
  /\ UNCHANGED <<sgwSession, sgwBearer, sgwActive>>

\* modify_bearer sets the eNB's tunnel, release_access_bearers drops them all.
ModifyBearer(b) ==
  /\ b \in sgwBearer /\ IsFirst(sgwBearer, b)
  /\ sgwActive' = sgwActive \cup {b.teid}
  /\ UNCHANGED <<sgwSession, sgwUes, ueBefore, sgwBearer, sgwTeid, sgwBearers, sgwStray>>
ReleaseAccessBearers(s) ==
  /\ sgwSession[s] # Nobody
  /\ sgwActive' = sgwActive \ {b.teid : b \in Of(sgwBearer, s)}
  /\ UNCHANGED <<sgwSession, sgwUes, ueBefore, sgwBearer, sgwTeid, sgwBearers, sgwStray>>

\* Sessions are searched UE by UE, and each UE's in the order of their creation.
SearchedBefore(t, s) ==
  \/ <<sgwSession[t], sgwSession[s]>> \in ueBefore
  \/ /\ sgwSession[t] = sgwSession[s]
     /\ Min({b.teid : b \in Of(sgwBearer, t)}) < Min({b.teid : b \in Of(sgwBearer, s)})

\* create_dedicated_bearer of the SGW goes to the first session with the
\* linked EBI; the MME's TEID in the request is not looked at.
CreateSgwBearer(linked) ==
  LET having == {b.session : b \in {x \in sgwBearer : x.ebi = linked}}
  IN \E s \in having :
       /\ \A t \in having : ~ SearchedBefore(t, s)
       /\ NewEbi(Of(sgwBearer, s)) <= MaxEbi /\ sgwTeid < MaxTeid
       /\ sgwBearer' = sgwBearer \cup
            {[session |-> s, teid |-> sgwTeid + 1, ebi |-> NewEbi(Of(sgwBearer, s))]}
       /\ sgwActive' = sgwActive \cup {sgwTeid + 1}
       /\ sgwTeid' = sgwTeid + 1 /\ sgwBearers' = sgwBearers + 1
       /\ UNCHANGED <<sgwSession, sgwUes, ueBefore, sgwStray>>

\* delete_session: the UE goes with its last session.
DeleteSgwSession(s) ==
  LET imsi == sgwSession[s]
      gone == IF \E t \in GwSessions \ {s} : sgwSession[t] = imsi THEN {} ELSE {imsi}
  IN /\ imsi # Nobody
     /\ sgwBearers' = sgwBearers - Cardinality(Of(sgwBearer, s))
     /\ sgwBearer' = sgwBearer \ Of(sgwBearer, s)
     /\ sgwActive' = sgwActive \ {b.teid : b \in Of(sgwBearer, s)}
     /\ sgwSession' = [sgwSession EXCEPT ![s] = Nobody]
     /\ sgwUes' = sgwUes \ gone
     /\ ueBefore' = {p \in ueBefore : p[1] \notin gone /\ p[2] \notin gone}
     /\ UNCHANGED <<sgwTeid, sgwStray>>

\* create_session of the PGW: an APN without a configuration draws from the
\* internet pool too; allocate_ip never goes back to a released address.
AllocateIp ==
  /\ poolCounter < PoolSize
  /\ poolAllocated' = poolAllocated \cup {poolCounter}
  /\ poolCounter' = poolCounter + 1

CreatePgwSession(s, apn, ebis) ==
  /\ pgwSession[s] = Nobody /\ pgwTeid + Len(ebis) <= MaxTeid
  /\ AllocateIp
  /\ pgwSession' = [pgwSession EXCEPT ![s] =
                      [apn |-> apn, ip |-> poolCounter, asked |-> {ebis[i] : i \in DOMAIN ebis}]]
  /\ pgwBearer' = pgwBearer \cup NewBearers(s, pgwTeid, ebis)
  /\ pgwTeid' = pgwTeid + Len(ebis)
  /\ pgwBearers' = pgwBearers + Len(ebis) /\ UNCHANGED pgwStray

\* As in the SGW; the address is not given back either.
CreatePgwSessionRaises(done) ==
  /\ pgwTeid + done <= MaxTeid
  /\ AllocateIp
  /\ pgwTeid' = pgwTeid + done
  /\ pgwBearers' = pgwBearers + done /\ pgwStray' = pgwStray + done
  /\ UNCHANGED <<pgwSession, pgwBearer>>

CreatePgwBearer(s, linked) ==
  /\ \E b \in Of(pgwBearer, s) : b.ebi = linked
  /\ NewEbi(Of(pgwBearer, s)) <= MaxEbi /\ pgwTeid < MaxTeid
  /\ pgwBearer' = pgwBearer \cup
       {[session |-> s, teid |-> pgwTeid + 1, ebi |-> NewEbi(Of(pgwBearer, s))]}
  /\ pgwTeid' = pgwTeid + 1 /\ pgwBearers' = pgwBearers + 1
  /\ UNCHANGED <<pgwSession, poolAllocated, poolCounter, pgwStray>>
DeletePgwBearer(b) ==
  /\ b \in pgwBearer /\ IsFirst(pgwBearer, b) /\ b.ebi # 5
  /\ pgwBearer' = pgwBearer \ {b}
  /\ pgwBearers' = pgwBearers - 1
  /\ UNCHANGED <<pgwSession, poolAllocated, poolCounter, pgwTeid, pgwStray>>

\* delete_session: the address of an unknown APN's session stays allocated.
DeletePgwSession(s) ==
  /\ pgwSession[s] # Nobody
  /\ poolAllocated' = IF pgwSession[s].apn = "internet" THEN poolAllocated \ {pgwSession[s].ip}
                      ELSE poolAllocated
  /\ pgwBearers' = pgwBearers - Cardinality(Of(pgwBearer, s))
  /\ pgwBearer' = pgwBearer \ Of(pgwBearer, s)
  /\ pgwSession' = [pgwSession EXCEPT ![s] = Nobody]
  /\ UNCHANGED <<poolCounter, pgwTeid, pgwStray>>

SgwNext ==
  \/ \E s \in GwSessions :
       \/ \E imsi \in Imsis, ebis \in BearerLists : CreateSgwSession(s, imsi, ebis)
       \/ ReleaseAccessBearers(s) \/ DeleteSgwSession(s)
  \/ \E imsi \in Imsis, done \in 0..1 : CreateSgwSessionRaises(imsi, done)
  \/ \E b \in sgwBearer : ModifyBearer(b)
  \/ \E e \in Ebis : CreateSgwBearer(e)

PgwNext ==
  \/ \E s \in GwSessions :
       \/ \E apn \in {"internet", "unknown"}, ebis \in BearerLists : CreatePgwSession(s, apn, ebis)
       \/ \E e \in Ebis : CreatePgwBearer(s, e)
       \/ DeletePgwSession(s)
  \/ \E done \in 0..1 : CreatePgwSessionRaises(done)
  \/ \E b \in pgwBearer : DeletePgwBearer(b)
-----------------------------------------------------------------------------
(* HSS.                                                                     *)

CreateSubscriber(i, m) ==
  /\ subscriber[i] = Nobody
  /\ subscriber' = [subscriber EXCEPT ![i] = [active |-> TRUE, msisdn |-> m, mme |-> Nobody, sqn |-> 0]]
  /\ byMsisdn' = [x \in Msisdns |-> IF x = m THEN i ELSE byMsisdn[x]]
UpdateSubscriber(i, m) ==
  /\ subscriber[i] # Nobody
  /\ subscriber' = [subscriber EXCEPT ![i].msisdn = m]
  /\ byMsisdn' = [x \in Msisdns |-> IF x = m THEN i
                                    ELSE IF x = subscriber[i].msisdn THEN Nobody ELSE byMsisdn[x]]
SetStatus(i) ==
  /\ subscriber[i] # Nobody
  /\ subscriber' = [subscriber EXCEPT ![i].active = ~ @] /\ UNCHANGED byMsisdn
DeleteSubscriber(i) ==
  /\ subscriber[i] # Nobody
  /\ subscriber' = [subscriber EXCEPT ![i] = Nobody]
  /\ byMsisdn' = [x \in Msisdns |-> IF x = subscriber[i].msisdn THEN Nobody ELSE byMsisdn[x]]
\* AIR: each vector has a sequence number of its own.
AuthenticationInformation(i, vectors) ==
  /\ subscriber[i] # Nobody /\ subscriber[i].active
  /\ subscriber[i].sqn + vectors <= MaxSqn
  /\ subscriber' = [subscriber EXCEPT ![i].sqn = @ + vectors] /\ UNCHANGED byMsisdn
UpdateLocation(i, mme) ==
  /\ subscriber[i] # Nobody /\ subscriber[i].active
  /\ subscriber' = [subscriber EXCEPT ![i].mme = mme] /\ UNCHANGED byMsisdn
\* PUR: only the MME on record can clear it.
PurgeUe(i, mme) ==
  /\ subscriber[i] # Nobody /\ subscriber[i].mme = mme
  /\ subscriber' = [subscriber EXCEPT ![i].mme = Nobody] /\ UNCHANGED byMsisdn

HssNext ==
  \E i \in Imsis :
    \/ \E m \in Msisdns \cup {Nobody} : CreateSubscriber(i, m)
    \/ \E m \in Msisdns : UpdateSubscriber(i, m)
    \/ SetStatus(i) \/ DeleteSubscriber(i)
    \/ \E vectors \in 1..2 : AuthenticationInformation(i, vectors)
    \/ \E mme \in {"mme1", "mme2"} : UpdateLocation(i, mme) \/ PurgeUe(i, mme)
-----------------------------------------------------------------------------
MmeTypeOK ==
  /\ ueById \subseteq UeContexts /\ mTmsi \in 0..MaxGuti
  /\ ue \in [UeContexts -> UeRecords \cup {Nobody}]
  /\ ueByImsi \in [Imsis -> UeContexts \cup {Nobody}]
  /\ ueByGuti \in [1..MaxGuti -> UeContexts \cup {Nobody}]
SgwTypeOK ==
  /\ sgwSession \in [GwSessions -> Imsis \cup {Nobody}]
  /\ sgwUes \subseteq Imsis /\ ueBefore \subseteq Imsis \X Imsis
  /\ sgwBearer \subseteq Bearers /\ sgwActive \subseteq 1..MaxTeid
  /\ sgwTeid \in 0..MaxTeid /\ sgwBearers \in Nat /\ sgwStray \in Nat
PgwTypeOK ==
  /\ pgwSession \in [GwSessions -> PgwRecords \cup {Nobody}]
  /\ poolAllocated \subseteq 0..PoolSize /\ poolCounter \in 0..PoolSize
  /\ pgwBearer \subseteq Bearers
  /\ pgwTeid \in 0..MaxTeid /\ pgwBearers \in Nat /\ pgwStray \in Nat
HssTypeOK ==
  /\ subscriber \in [Imsis -> SubscriberRecords \cup {Nobody}]
  /\ byMsisdn \in [Msisdns -> Imsis \cup {Nobody}]
EpcTypeOK == MmeTypeOK /\ SgwTypeOK /\ PgwTypeOK /\ HssTypeOK

\* Through attaches, re-attaches by stale GUTIs, updates and detaches
\* (mme.py:251-284, 399-472, 578-603), a UE the MME lists is registered, has
\* its last PDN connection, and answers to its current GUTI; an IMSI never
\* leads to a context the MME has dropped; and no two share a GUTI.
MmeIndexesAgree ==
  /\ \A u \in ueById : /\ ue[u].state = "REGISTERED" /\ ue[u].pdns > 0
                       /\ ueByGuti[ue[u].guti] = u
  /\ \A i \in Imsis : ueByImsi[i] # Nobody => ueByImsi[i] \in ueById /\ ue[ueByImsi[i]].imsi = i
  /\ \A u, w \in ueById : ue[u].guti = ue[w].guti => u = w

\* Live PGW sessions have addresses of their own, all allocated. Each has a bearer with
\* EBI 5 exactly if its request listed one: dedicated bearers come above those there are
\* and the deletion of bearers spares it (pgw.py:585, 650-656). No bearer outlives its
\* session, and both gateways' counters are the number of their bearers and of those a
\* request that failed half-way had counted (sgw.py:319, 406, 491; pgw.py:320, 447, 618,
\* 658), although an EBI may be listed twice and bearers and sessions come and go in any
\* order.
GatewaysAgree ==
  /\ \A s \in Live(pgwSession) :
       /\ pgwSession[s].ip \in poolAllocated
       /\ 5 \in pgwSession[s].asked <=> \E b \in Of(pgwBearer, s) : b.ebi = 5
  /\ \A s, t \in Live(pgwSession) : pgwSession[s].ip = pgwSession[t].ip => s = t
  /\ \A b \in sgwBearer : sgwSession[b.session] # Nobody
  /\ \A b \in pgwBearer : pgwSession[b.session] # Nobody
  /\ sgwBearers = Cardinality(sgwBearer) + sgwStray
  /\ pgwBearers = Cardinality(pgwBearer) + pgwStray

\* A number never leads to a deleted subscriber or to one that has another
\* number, although numbers are taken over and given up (hss.py:333-337,
\* 700-705, 728-730).
NumbersLeadToOwners ==
  \A m \in Msisdns : byMsisdn[m] # Nobody =>
    subscriber[byMsisdn[m]] # Nobody /\ subscriber[byMsisdn[m]].msisdn = m
=============================================================================
