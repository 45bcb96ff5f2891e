-------------------------------- MODULE Slicing --------------------------------
(***************************************************************************)
(* RAN slicing (ran/slicing/oran_slicing.py): slices (NSI) and their        *)
(* subnets (NSSI), which refer to each other, the PRB policy of a slice, and  *)
(* the conformance report over its throughput.  No handler awaits, so each   *)
(* is a step.                                                              *)
(***************************************************************************)
EXTENDS Integers

CONSTANTS
  Nsis, Nssis,      \* identifiers of slices and of subnets
  Throughputs,      \* what a slice may be guaranteed or limited to, in 1/100 Mbit/s
  Ratios,           \* PRB ratios, in percent
  Seeds,            \* the default slices: identifier -> record
  NoSlice           \* None

NsiRecords == [subnets : SUBSET Nssis, guaranteed : Throughputs, limit : Throughputs,
               dedicated : Ratios, least : Ratios]

\* Each default slice lists subnets of its own.
ASSUME SlicingAssumption ==
  /\ Throughputs \subseteq Nat /\ Ratios \subseteq 0..100 /\ NoSlice \notin Nsis \cup NsiRecords
  /\ DOMAIN Seeds \subseteq Nsis /\ \A n \in DOMAIN Seeds : Seeds[n] \in NsiRecords
  /\ \A n, o \in DOMAIN Seeds : n # o => Seeds[n].subnets \cap Seeds[o].subnets = {}

VARIABLES
  nsi,          \* nsi_store: the slice's record, or NoSlice
  nssi          \* nssi_store: parent_nsi_id of each subnet there

sliceVars == <<nsi, nssi>>

\* _seed_slices: default slices, and their subnets with them as their parents.
SliceInit ==
  /\ nsi = [n \in Nsis |-> IF n \in DOMAIN Seeds THEN Seeds[n] ELSE NoSlice]
  /\ nssi = [s \in UNION {Seeds[n].subnets : n \in DOMAIN Seeds} |->
               CHOOSE n \in DOMAIN Seeds : s \in Seeds[n].subnets]

CreateNssi(s) ==
  /\ s \notin DOMAIN nssi
  /\ nssi' = [t \in DOMAIN nssi \cup {s} |-> IF t = s THEN NoSlice ELSE nssi[t]]
  /\ UNCHANGED nsi

\* 400 for a subnet that does not exist; the new slice takes its subnets over from
\* any other that lists them.  The ratios are not compared with each other here.
CreateNsi(n, rec) ==
  /\ nsi[n] = NoSlice /\ rec.subnets \subseteq DOMAIN nssi
  /\ nsi' = [nsi EXCEPT ![n] = rec]
  /\ nssi' = [s \in DOMAIN nssi |-> IF s \in rec.subnets THEN n ELSE nssi[s]]

\* Every subnet the slice lists loses its parent, whoever that is by now.
DeleteNsi(n) ==
  /\ nsi[n] # NoSlice /\ nsi' = [nsi EXCEPT ![n] = NoSlice]
  /\ nssi' = [s \in DOMAIN nssi |-> IF s \in nsi[n].subnets THEN NoSlice ELSE nssi[s]]

\* 400 unless dedicated <= min (<= max).
SetRrmPolicy(n, dedicated, least) ==
  /\ nsi[n] # NoSlice /\ dedicated <= least
  /\ nsi' = [nsi EXCEPT ![n].dedicated = dedicated, ![n].least = least]
  /\ UNCHANGED nssi

Share(rec) == IF rec.dedicated > rec.least THEN rec.dedicated ELSE rec.least

\* The downlink throughput measured, in 1/10000 Mbit/s: the guarantee and on top the
\* slice's share of its limit, never more than the limit, rounded to 1/10 Mbit/s.  Which
\* of two equally near values is taken depends on the floating-point representation.
Achieved(rec) ==
  LET limit == 100 * rec.limit
      sum   == 100 * rec.guaranteed + Share(rec) * rec.limit
      exact == IF limit < sum THEN limit ELSE sum
      down  == 1000 * (exact \div 1000)
  IN  {m \in {down, down + 1000} : m - 500 <= exact /\ exact <= m + 500}

\* The verdicts that are possible on it.  The uplink has values of its own and the same
\* formula; latency and reliability are drawn at random and left out.
Conformant(rec) == {m >= 100 * rec.guaranteed : m \in Achieved(rec)}

\* What sla_report may say of a slice's throughput.
SlaReport(n) == IF nsi[n] = NoSlice THEN {} ELSE Conformant(nsi[n])

SliceNext ==
  \/ \E s \in Nssis : CreateNssi(s)
  \/ \E n \in Nsis : \/ \E rec \in NsiRecords : CreateNsi(n, rec)
                     \/ DeleteNsi(n)
                     \/ \E d, l \in Ratios : SetRrmPolicy(n, d, l)

\* A subnet's parent is a slice that exists and lists it, through take-overs and
\* deletions in any order (oran_slicing.py:402-451).
SubnetsBelong ==
  \A s \in DOMAIN nssi :
    nssi[s] # NoSlice => nsi[nssi[s]] # NoSlice /\ s \in nsi[nssi[s]].subnets

\* Where the guarantee and the limit of a slice are whole tenths of a Mbit/s, its report
\* says "conformant" exactly if it is promised no more than its own limit, whatever its
\* share of the PRBs.  Elsewhere the rounding may hide a promise broken by up to 0.05
\* Mbit/s, and report as broken a kept one only if the limit or the share of it leaves
\* less than 0.05 Mbit/s above the promise (oran_slicing.py:219-295, 529-550).
ReportsFollowTheLimit ==
  \A n \in Nsis : nsi[n] # NoSlice =>
    LET promised == nsi[n].guaranteed  limit == nsi[n].limit IN
    /\ TRUE \in SlaReport(n) => promised <= limit + 5
    /\ FALSE \in SlaReport(n) => limit < promised + 5 \/ Share(nsi[n]) * limit < 500
    /\ promised % 10 = 0 /\ limit % 10 = 0 => SlaReport(n) = {promised <= limit}
=============================================================================
