--------------------------- MODULE PolicyCharging ---------------------------
(***************************************************************************)
(* Three stores of the 5G core that requests change in any order: the      *)
(* policy decisions of the PCF (core_network/pcf.py), the bindings and     *)
(* their address indexes in the BSF (core_network/bsf.py), and the         *)
(* charging sessions and data records of the CHF (core_network/chf.py).    *)
(***************************************************************************)
EXTENDS Integers, Sequences

CONSTANTS
  Associations,    \* ids of SM policy associations
  Bindings,        \* ids of PCF bindings
  Addresses,       \* IPv4 addresses, and IPv6 prefixes
  ChargingIds,     \* ids of charging sessions
  MaxUsage,        \* bound: megabytes, and minutes, one charging session reports
  MaxReleases,     \* bound: times one session is released
  Absent

VARIABLES
  smPolicy,        \* association -> its rules and QoS decisions, or Absent
  policyOf,        \* keys of policy_associations
  throttled,       \* qos_internet has been limited to 500 Kbps / 1 Mbps
  pcfBinding,      \* binding -> its two addresses, or Absent
  ipIndex,         \* family -> address -> binding, or Absent
  charging,        \* session -> status, totals, rating groups, or Absent
  cdrs,            \* session -> the charges its data records state
  balance          \* "positive" or "spent": the subscriber's

pcfVars == <<smPolicy, policyOf, throttled>>
bsfVars == <<pcfBinding, ipIndex>>
chfVars == <<charging, cdrs, balance>>

Services == {"internet", "ims", "video", "gaming"}
Families == {"v4", "v6"}
MaybeAddress == Addresses \cup {Absent}
RatingGroups == {2, 3}                    \* Voice and Video Streaming
PerMinute(g) == IF g = 2 THEN 5 ELSE 0    \* in 0.01
PerMb(g) == IF g = 3 THEN 2 ELSE 0

\* What the three stores hold.
Decisions == [rules : SUBSET Services, qos : SUBSET (Services \cup {"voice"})]
AddressPairs == [Families -> MaybeAddress]
Charges == 0..7 * MaxUsage
GroupRecords == [open : BOOLEAN, used : 0..MaxUsage, charge : Charges]
ChargingSessions == [status : {"ACTIVE", "CLOSED"}, volume : 0..MaxUsage, time : 0..MaxUsage,
                     charge : Charges, groups : [RatingGroups -> GroupRecords]]

\* Absent is none of the values a store holds or is indexed by.
ASSUME PolicyChargingAssumption ==
  /\ MaxUsage \in Nat /\ MaxReleases \in Nat
  /\ Absent \notin Bindings \cup Addresses
  /\ Absent \notin Decisions \cup AddressPairs \cup ChargingSessions

PolInit ==
  /\ smPolicy = [a \in Associations |-> Absent]
  /\ policyOf = {} /\ throttled = FALSE
  /\ pcfBinding = [b \in Bindings |-> Absent]
  /\ ipIndex = [f \in Families |-> [x \in Addresses |-> Absent]]
  /\ charging = [s \in ChargingIds |-> Absent]
  /\ cdrs = [s \in ChargingIds |-> <<>>]
  /\ balance = "positive"
-----------------------------------------------------------------------------
(* PCF.  A rule and the QoS decision it refers to share a name here.       *)

\* create_sm_policy_decision: the default rule, and the DNN's own.
SmPolicyDecision(dnn) == [rules |-> {"internet", dnn}, qos |-> {"internet", dnn}]

CreateSmPolicy(a, dnn) ==
  /\ smPolicy[a] = Absent
  /\ policyOf' = policyOf \cup {a}
  /\ smPolicy' = [smPolicy EXCEPT ![a] = SmPolicyDecision(dnn)]
  /\ UNCHANGED throttled

\* update_sm_policy_decision, one trigger after the other. The decision's
\* copy is shallow, so the stored one changes in place.
QosRequested(d) == [d EXCEPT !.qos = @ \cup {"voice"}]            \* RES_MO_RE, 5QI 1
AppStarted(d)   == [rules |-> d.rules \cup {"video"}, qos |-> d.qos \cup {"video"}]
\* mutated form: the QoS decision of the stopped application stays
AppStoppedKeepingQos(d) == [d EXCEPT !.rules = @ \ {"video"}]
AppStopped(d)   == [rules |-> d.rules \ {"video"}, qos |-> d.qos \ {"video"}]

UpdateSmPolicy(a) ==
  /\ smPolicy[a] # Absent
  /\ \/ /\ \E d \in {QosRequested(smPolicy[a]), AppStarted(smPolicy[a]), AppStopped(smPolicy[a])} :
             smPolicy' = [smPolicy EXCEPT ![a] = d]
        /\ UNCHANGED throttled
     \* QOS_NOTIF, high congestion: the best-effort object is everyone's.
     \/ throttled' = TRUE /\ UNCHANGED smPolicy
  /\ UNCHANGED policyOf

DeleteSmPolicy(a) ==
  /\ smPolicy[a] # Absent
  /\ smPolicy' = [smPolicy EXCEPT ![a] = Absent]
  /\ policyOf' = policyOf \ {a}
  /\ UNCHANGED throttled
-----------------------------------------------------------------------------
(* BSF.                                                                     *)

\* create_binding: the index entry of an address goes to the newest binding.
CreateBinding(b, addr) ==
  /\ pcfBinding[b] = Absent
  /\ \E f \in Families : addr[f] # Absent
  /\ pcfBinding' = [pcfBinding EXCEPT ![b] = addr]
  /\ ipIndex' = [f \in Families |-> [x \in Addresses |-> IF x = addr[f] THEN b ELSE ipIndex[f][x]]]

\* update_binding on one family; `ok` is FALSE where del raises KeyError.
Rebound(st, b, f, new) ==
  LET old == st.addr[f]
  IN IF new = Absent \/ ~ st.ok THEN st
     ELSE IF old # Absent /\ st.index[f][old] = Absent THEN [st EXCEPT !.ok = FALSE]
     ELSE [st EXCEPT !.addr[f] = new,
                     !.index[f] = [x \in Addresses |-> IF x = new THEN b
                                                       ELSE IF x = old THEN Absent ELSE @[x]]]

\* The IPv4 part of a patch whose IPv6 part raises has taken effect.
PatchBinding(b, patch) ==
  /\ pcfBinding[b] # Absent
  /\ LET st == Rebound(Rebound([addr |-> pcfBinding[b], index |-> ipIndex, ok |-> TRUE],
                               b, "v4", patch["v4"]), b, "v6", patch["v6"])
     IN pcfBinding' = [pcfBinding EXCEPT ![b] = st.addr] /\ ipIndex' = st.index

\* delete_binding: drops the entries of its addresses, whoever they point to.
DeleteBinding(b) ==
  /\ pcfBinding[b] # Absent
  /\ pcfBinding' = [pcfBinding EXCEPT ![b] = Absent]
  /\ ipIndex' = [f \in Families |-> [x \in Addresses |->
                   IF x = pcfBinding[b][f] THEN Absent ELSE ipIndex[f][x]]]

\* find_bindings by an address: the indexed binding alone, else a scan.
FindBindings(f, x) ==
  IF ipIndex[f][x] # Absent THEN {ipIndex[f][x]} \ {b \in Bindings : pcfBinding[b] = Absent}
  ELSE {b \in Bindings : pcfBinding[b] # Absent /\ pcfBinding[b][f] = x}
-----------------------------------------------------------------------------
(* CHF.  A report is a rating group, and the megabytes and minutes used in  *)
(* it.                                                                     *)
Reports == [group : RatingGroups, volume : 0..1, time : 0..1]

NoGroups == [g \in RatingGroups |-> [open |-> FALSE, used |-> 0, charge |-> 0]]

\* _process_quota_request: no group is opened once the balance is spent.
Granted(s, g) ==
  IF balance = "spent" THEN s ELSE [s EXCEPT !.groups[g].open = TRUE]

\* _record_usage: the session's totals, and the group's where there is one. The time of a
\* report is charged, but a group's used units are its volume alone.
Recorded(s, r) ==
  LET more == r.volume * PerMb(r.group) + r.time * PerMinute(r.group)
      t == [s EXCEPT !.volume = @ + r.volume, !.time = @ + r.time, !.charge = @ + more]
  IN IF s.groups[r.group].open
     THEN [t EXCEPT !.groups[r.group] = [open |-> TRUE, used |-> @.used + r.volume,
                                         charge |-> @.charge + more]]
     ELSE t

CreateChargingSession(s, g) ==
  /\ charging[s] = Absent
  /\ charging' = [charging EXCEPT ![s] =
       Granted([status |-> "ACTIVE", volume |-> 0, time |-> 0, charge |-> 0,
                groups |-> NoGroups], g)]
  /\ UNCHANGED <<cdrs, balance>>

WithinBound(s, r) ==
  charging[s] # Absent /\ charging[s].volume + r.volume <= MaxUsage /\ charging[s].time + r.time <= MaxUsage

\* Neither an update nor a release looks at the status.
UpdateChargingSession(s, r) ==
  /\ WithinBound(s, r)
  /\ charging' = [charging EXCEPT ![s] = Granted(Recorded(@, r), r.group)]
  /\ UNCHANGED <<cdrs, balance>>

ReleaseChargingSession(s, r) ==
  /\ WithinBound(s, r)
  /\ Len(cdrs[s]) < MaxReleases
  /\ LET t == Recorded(charging[s], r)
     IN /\ cdrs' = [cdrs EXCEPT ![s] = Append(@, t.charge)]
        /\ charging' = [charging EXCEPT ![s] = [t EXCEPT !.status = "CLOSED"]]
  /\ UNCHANGED balance

\* set_subscriber_balance; no charge ever lowers it.
SetSubscriberBalance(value) ==
  /\ balance' = value
  /\ UNCHANGED <<charging, cdrs>>
-----------------------------------------------------------------------------
PcfNext ==
  \E a \in Associations :
    \/ \E dnn \in Services : CreateSmPolicy(a, dnn)
    \/ UpdateSmPolicy(a)
    \/ DeleteSmPolicy(a)

BsfNext ==
  \E b \in Bindings :
    \/ \E addr \in AddressPairs : CreateBinding(b, addr) \/ PatchBinding(b, addr)
    \/ DeleteBinding(b)

ChfNext ==
  \/ \E s \in ChargingIds :
       \/ \E g \in RatingGroups : CreateChargingSession(s, g)
       \/ \E r \in Reports : UpdateChargingSession(s, r) \/ ReleaseChargingSession(s, r)
  \/ \E value \in {"positive", "spent"} : SetSubscriberBalance(value)

PcfTypeOK ==
  /\ smPolicy \in [Associations -> Decisions \cup {Absent}]
  /\ policyOf \subseteq Associations /\ throttled \in BOOLEAN
BsfTypeOK ==
  /\ pcfBinding \in [Bindings -> AddressPairs \cup {Absent}]
  /\ ipIndex \in [Families -> [Addresses -> Bindings \cup {Absent}]]
ChfTypeOK ==
  /\ charging \in [ChargingIds -> ChargingSessions \cup {Absent}]
  /\ cdrs \in [ChargingIds -> Seq(Charges)]
  /\ balance \in {"positive", "spent"}
PolTypeOK == PcfTypeOK /\ BsfTypeOK /\ ChfTypeOK

\* Whatever triggers arrive in whatever order (pcf.py:397-438), each rule of
\* a decision has the QoS decision it refers to, so that stopping the video
\* application never deletes a key that is not there (424-426), and
\* associations and decisions are created and deleted together (533-537).
RulesHaveTheirQos ==
  /\ policyOf = {a \in Associations : smPolicy[a] # Absent}
  /\ \A a \in policyOf : smPolicy[a].qos \ {"voice"} = smPolicy[a].rules

\* An index never points to a binding without that address, and the search
\* by an address (bsf.py:147-183) finds a binding exactly when one has it,
\* although creations overwrite entries others rely on and updates and
\* deletions remove them (121-128, 209-220, 245-252).
BindingsFindable ==
  \A f \in Families, x \in Addresses :
    /\ ipIndex[f][x] # Absent =>
         pcfBinding[ipIndex[f][x]] # Absent /\ pcfBinding[ipIndex[f][x]][f] = x
    /\ FindBindings(f, x) = {} <=> \A b \in Bindings : pcfBinding[b] # Absent => pcfBinding[b][f] # x

\* A session's totals cover what its rating groups account for, the rest being what was
\* reported before a grant (chf.py:434-436). A group's charge is its units at their rate and
\* some of the session's minutes at theirs (428-430): for a group without a rate by the
\* minute its units explain it, for Voice only the minutes do. No record states more than
\* was charged or less than the record before it, although reports arrive after a release;
\* and a session is closed exactly when it has one.
ChargesAddUp ==
  \A s \in ChargingIds :
    IF charging[s] = Absent THEN cdrs[s] = <<>>
    ELSE LET c == charging[s] IN
      /\ c.groups[2].used + c.groups[3].used <= c.volume
      /\ c.groups[2].charge + c.groups[3].charge <= c.charge
      /\ \A g \in RatingGroups : \E minutes \in 0..c.time :
           c.groups[g].charge = c.groups[g].used * PerMb(g) + minutes * PerMinute(g)
      /\ \A i \in DOMAIN cdrs[s] :
           cdrs[s][i] <= c.charge /\ (i > 1 => cdrs[s][i - 1] <= cdrs[s][i])
      /\ (c.status = "CLOSED") = (cdrs[s] # <<>>)
=============================================================================
