----------------------------- MODULE NfRegistry -----------------------------
(***************************************************************************)
(* The NRF's registry of network functions (core_network/nrf.py): the      *)
(* token every request needs, registration, status patches and             *)
(* deregistration of profiles, and the ranked search.                      *)
(***************************************************************************)
EXTENDS Naturals, FiniteSets

CONSTANTS
  NfIds,     \* NF instances that register
  NoProfile

NfTypes == {"AUSF", "gNodeB"}   \* all upper-case, and the one that is not
NfStatuses == {"REGISTERED", "SUSPENDED"}   \* UNDISCOVERABLE does what SUSPENDED does
Ranks   == 0..1   \* priority and capacity, small numbers

\* What find_nf_instances and legacy_discover_nf read of an NFProfile.
NfProfiles ==
  [nfType   : NfTypes,
   nfStatus : NfStatuses,
   allowed  : {{}, {"AMF"}},       \* allowedNfTypes, empty: no restriction
   endpoint : BOOLEAN,             \* its first service, if it has one, has an ipEndPoint
   priority : Ranks,
   capacity : Ranks]

ASSUME NfRegistryAssumption == NoProfile \notin NfProfiles /\ IsFiniteSet(NfIds)

VARIABLES
  nfProfile,   \* nf_profiles
  nfOrder,     \* the order the dictionary keeps them in: <<i, j>> where i is before j
  accessToken  \* the token clients share: "none", "valid", "expired"

nrfVars == <<nfProfile, nfOrder, accessToken>>

Listed == {i \in NfIds : nfProfile[i] # NoProfile}
\* A new key is the last of the dictionary, a key that is there keeps its place.
Appended(i) == IF i \in Listed THEN nfOrder ELSE nfOrder \cup (Listed \X {i})

NrfInit ==
  /\ nfProfile = [i \in NfIds |-> NoProfile]
  /\ nfOrder = {} /\ accessToken = "none"
-----------------------------------------------------------------------------
(* All but the token endpoint ask for a token that verifies. *)

Authorized == accessToken = "valid"

\* get_access_token: also replaces one that has expired.
GetAccessToken ==
  /\ accessToken' = "valid"
  /\ UNCHANGED <<nfProfile, nfOrder>>

\* Sixty minutes pass.
TokenExpires ==
  /\ accessToken = "valid" /\ accessToken' = "expired"
  /\ UNCHANGED <<nfProfile, nfOrder>>

\* register_nf_instance.
RegisterNf(i, profile) ==
  /\ Authorized
  /\ nfProfile' = [nfProfile EXCEPT ![i] = profile]
  /\ nfOrder' = Appended(i)
  /\ UNCHANGED accessToken

\* update_nf_instance, path /nfStatus.
PatchNfStatus(i, status) ==
  /\ Authorized /\ nfProfile[i] # NoProfile
  /\ nfProfile' = [nfProfile EXCEPT ![i].nfStatus = status]
  /\ UNCHANGED <<nfOrder, accessToken>>

DeregisterNf(i) ==
  /\ Authorized /\ nfProfile[i] # NoProfile
  /\ nfProfile' = [nfProfile EXCEPT ![i] = NoProfile]
  /\ nfOrder' = {before \in nfOrder : i \notin {before[1], before[2]}}
  /\ UNCHANGED accessToken

\* legacy_register_nf, which most functions use: no token, and a new id every
\* time, so that a function that restarts is listed twice.
LegacyRegisterNf(i, type) ==
  /\ nfProfile[i] = NoProfile
  /\ nfProfile' = [nfProfile EXCEPT ![i] = [nfType |-> type, nfStatus |-> "REGISTERED",
                                           allowed |-> {}, endpoint |-> TRUE,
                                           priority |-> 0, capacity |-> 0]]
  /\ nfOrder' = Appended(i)
  /\ UNCHANGED accessToken

\* The endpoint compares the types' values with upper().
UpperCase(type) == IF type = "gNodeB" THEN "GNODEB" ELSE type

\* legacy_discover_nf: the first of the type that says where it is, whatever its status.
LegacyDiscover(type) ==
  LET found == {i \in Listed : nfProfile[i].nfType = UpperCase(type) /\ nfProfile[i].endpoint}
  IN {i \in found : \A j \in found : <<j, i>> \notin nfOrder}

\* The filters of find_nf_instances.
MatchesQuery(p, target, requester) ==
  /\ p.nfType = target
  /\ p.allowed = {} \/ requester \in p.allowed
  /\ p.nfStatus = "REGISTERED"

\* mutated form: the smallest capacity of a priority first
RanksBeforeByLeast(i, j) ==
  LET p == nfProfile[i]  q == nfProfile[j]
  IN \/ p.priority < q.priority
     \/ p.priority = q.priority /\ p.capacity < q.capacity
     \/ p.priority = q.priority /\ p.capacity = q.capacity /\ <<i, j>> \in nfOrder

\* The sort by (priority, -capacity), which is stable.
RanksBefore(i, j) ==
  LET p == nfProfile[i]  q == nfProfile[j]
  IN \/ p.priority < q.priority
     \/ p.priority = q.priority /\ p.capacity > q.capacity
     \/ p.priority = q.priority /\ p.capacity = q.capacity /\ <<i, j>> \in nfOrder

\* find_nf_instances, the answer of search_nf_instances: the first `limit` of
\* the sorted list, all of it for limit 0.
FindNfInstances(target, requester, limit) ==
  LET found == {i \in Listed : MatchesQuery(nfProfile[i], target, requester)}
  IN IF limit = 0 THEN found
     ELSE {i \in found : Cardinality({j \in found : RanksBefore(j, i)}) < limit}
-----------------------------------------------------------------------------
NrfNext ==
  \/ GetAccessToken \/ TokenExpires
  \/ \E i \in NfIds :
       \/ \E profile \in NfProfiles : RegisterNf(i, profile)
       \/ \E status \in NfStatuses : PatchNfStatus(i, status)
       \/ DeregisterNf(i)
       \/ \E type \in NfTypes : LegacyRegisterNf(i, type)

NrfTypeOK ==
  /\ nfProfile \in [NfIds -> NfProfiles \cup {NoProfile}]
  /\ nfOrder \subseteq NfIds \X NfIds
  /\ accessToken \in {"none", "valid", "expired"}

\* However NFs register, change status and leave (nrf.py:457-552), a search
\* returns only REGISTERED functions of the type that admit the requester, and
\* leaves out none that ranks higher than one it returns (nrf.py:309-379); the
\* legacy search (nrf.py:677-698) finds one function whenever one of the type has an
\* endpoint, but for gNodeBs, which it cannot find.
DiscoveryIsSound ==
  /\ LegacyDiscover("gNodeB") = {}
  /\ \A type \in NfTypes \ {"gNodeB"} :
       (\E i \in Listed : nfProfile[i].nfType = type /\ nfProfile[i].endpoint) =>
         \E i \in Listed : /\ LegacyDiscover(type) = {i}
                          /\ nfProfile[i].nfType = type /\ nfProfile[i].endpoint
  /\ \A target \in NfTypes, requester \in {"AMF", "NEF"}, limit \in 0..1 :
      LET answer == FindNfInstances(target, requester, limit)
          Fits(i) == i \in Listed /\ MatchesQuery(nfProfile[i], target, requester)
      IN /\ \A i \in answer : Fits(i)
         /\ \A i \in NfIds : Fits(i) =>
              \/ i \in answer
              \/ /\ limit > 0 /\ Cardinality(answer) = limit
                 /\ \A j \in answer :
                      \/ nfProfile[j].priority < nfProfile[i].priority
                      \/ /\ nfProfile[j].priority = nfProfile[i].priority
                         /\ nfProfile[j].capacity >= nfProfile[i].capacity
=============================================================================
