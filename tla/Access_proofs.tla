----------------------------- MODULE Access_proofs -----------------------------
(***************************************************************************)
(* What MCAccess checks on one small instance of the proxy, exposure,      *)
(* interworking, user plane, radio and authentication groups holds for all *)
(* values of their constants.  As in the other groups' proofs, a group     *)
(* that is not in focus rests in an initial state and keeps its invariant; *)
(* only the two NGAP transports share their variables, so each one's       *)
(* invariant is claimed where that transport is in focus.                  *)
(***************************************************************************)
EXTENDS MCAccess, Codec_proofs, FiniteSetTheorems, WellFoundedInduction, TLAPS

-----------------------------------------------------------------------------
(* The service communication proxy.                                         *)

\* The cache and the index of types list the same instances, but for one that moved.
IndexIsSound ==
  /\ nfCache \in [Instances -> NfRecords \cup {Nil}]
  /\ typeIndex \in [NfTypes -> Seq(Instances)] /\ moved \subseteq Instances
  /\ \A t \in NfTypes :
       /\ IsInjective(typeIndex[t])
       /\ \A n \in Range(typeIndex[t]) : nfCache[n] = Nil \/ nfCache[n].type # t => n \in moved
  /\ \A n \in Instances : nfCache[n] # Nil => n \in Range(typeIndex[nfCache[n].type])

\* The breakers b count the calls that failed, and are not closed from the threshold on.
BreakersCount(b, failed) ==
  /\ b \in [Instances -> BreakerStates \cup {Nil}] /\ failed \in [Instances -> Nat]
  /\ \A n \in Instances : /\ b[n] = Nil => failed[n] = 0
                          /\ b[n] # Nil => failed[n] = b[n].failures
                          /\ b[n] # Nil /\ failed[n] >= Threshold => b[n].open # "no"

\* A call under way has its target among the instances.
CallsAreTyped ==
  /\ forward \in [Forwards -> ForwardRecords \cup {Nil}]
  /\ turn \in [NfTypes -> 0 .. Cardinality(Instances)]

\* A call under way is with an instance that can be reached under its type, or that left.
CallsReach ==
  \A f \in Forwards : forward[f] # Nil /\ f \notin parted => Reaches(forward[f])

\* The parts of the proxy.
ScpIInv ==
  IndexIsSound /\ BreakersCount(breaker, failedSince) /\ CallsAreTyped /\ CallsReach

\* What is left of a list of instances, each there once, when one is taken out of it.
LEMMA RemovedFromList ==
  ASSUME NEW list \in Seq(Instances), IsInjective(list), NEW n \in Range(list)
  PROVE  /\ Removed(list, n) \in Seq(Instances) /\ IsInjective(Removed(list, n))
         /\ Range(Removed(list, n)) = Range(list) \ {n}
<1> DEFINE k == CHOOSE i \in DOMAIN list : list[i] = n /\ \A j \in DOMAIN list : list[j] = n => i <= j
<1> DEFINE short == [i \in 1 .. Len(list) - 1 |-> IF i < k THEN list[i] ELSE list[i + 1]]
<1>1. PICK len \in Nat : len = Len(list) /\ DOMAIN list = 1 .. len
  OBVIOUS
<1>2. \A i, j \in 1 .. len : list[i] = list[j] => i = j
  BY <1>1 DEF IsInjective
<1>3. k \in 1 .. len /\ list[k] = n
  <2>1. PICK i \in 1 .. len : list[i] = n
    BY <1>1 DEF Range
  <2>2. \A j \in 1 .. len : list[j] = n => i <= j
    BY <1>2, <2>1
  <2>3. i \in DOMAIN list /\ list[i] = n /\ \A j \in DOMAIN list : list[j] = n => i <= j
    BY <1>1, <2>1, <2>2
  <2>4. k \in DOMAIN list /\ list[k] = n
    BY <2>3
  <2> QED
    BY <1>1, <2>4
<1>4. Removed(list, n) = short
  BY DEF Removed
<1> HIDE DEF k
<1>5. /\ DOMAIN short = 1 .. len - 1
      /\ \A i \in 1 .. len - 1 : i < k => short[i] = list[i] /\ i \in 1 .. len /\ i # k
      /\ \A i \in 1 .. len - 1 : ~(i < k) => short[i] = list[i + 1] /\ i + 1 \in 1 .. len /\ i + 1 # k
  BY <1>1, <1>3
<1>6. \A i \in 1 .. len : list[i] \in Instances
  BY <1>1
<1>7. short \in Seq(Instances)
  <2>1. \A i \in 1 .. len - 1 : short[i] \in Instances
    BY <1>5, <1>6
  <2>2. len - 1 \in Nat
    BY <1>1, <1>3
  <2>3. short = [i \in 1 .. len - 1 |-> short[i]]
    BY <1>1
  <2> HIDE DEF short
  <2>4. short \in [1 .. len - 1 -> Instances]
    BY <2>1, <2>3
  <2> QED
    BY <2>2, <2>4
<1> HIDE DEF short
<1>8. IsInjective(short)
  <2>1. ASSUME NEW i \in 1 .. len - 1, NEW j \in 1 .. len - 1, short[i] = short[j]
        PROVE  i = j
    <3>1. CASE i < k /\ j < k
      BY <1>2, <1>5, <2>1, <3>1
    <3>2. CASE i < k /\ ~(j < k)
      <4>1. i = j + 1
        BY <1>2, <1>5, <2>1, <3>2
      <4> QED
        BY <1>1, <1>3, <3>2, <4>1
    <3>3. CASE ~(i < k) /\ j < k
      <4>1. i + 1 = j
        BY <1>2, <1>5, <2>1, <3>3
      <4> QED
        BY <1>1, <1>3, <3>3, <4>1
    <3>4. CASE ~(i < k) /\ ~(j < k)
      <4>1. i + 1 = j + 1
        BY <1>2, <1>5, <2>1, <3>4
      <4> QED
        BY <1>1, <4>1
    <3> QED
      BY <3>1, <3>2, <3>3, <3>4
  <2> QED
    BY <1>5, <2>1 DEF IsInjective
<1>9. ASSUME NEW m \in Range(short)  PROVE m \in Range(list) /\ m # n
  <2>1. PICK i \in 1 .. len - 1 : m = short[i]
    BY <1>5, <1>9 DEF Range
  <2>2. PICK j \in 1 .. len : m = list[j] /\ j # k
    BY <1>5, <2>1
  <2> QED
    BY <1>1, <1>2, <1>3, <2>2 DEF Range
<1>10. ASSUME NEW m \in Range(list), m # n  PROVE m \in Range(short)
  <2>1. PICK j \in 1 .. len : m = list[j]
    BY <1>1 DEF Range
  <2>2. j # k
    BY <1>3, <1>10, <2>1
  <2>3. CASE j < k
    <3>1. j \in 1 .. len - 1
      BY <1>1, <1>3, <2>3
    <3> QED
      BY <1>5, <2>1, <2>3, <3>1 DEF Range
  <2>4. CASE ~(j < k)
    <3>1. j - 1 \in 1 .. len - 1 /\ ~(j - 1 < k) /\ j - 1 + 1 = j
      BY <1>1, <1>3, <2>2, <2>4
    <3> QED
      BY <1>5, <2>1, <3>1 DEF Range
  <2> QED
    BY <2>3, <2>4
<1> QED
  BY <1>4, <1>7, <1>8, <1>9, <1>10

\* A list with an instance more, that it did not have.
LEMMA AppendedToList ==
  ASSUME NEW list \in Seq(Instances), IsInjective(list), NEW n \in Instances, n \notin Range(list)
  PROVE  /\ Append(list, n) \in Seq(Instances) /\ IsInjective(Append(list, n))
         /\ Range(Append(list, n)) = Range(list) \cup {n}
<1>1. PICK len \in Nat : len = Len(list) /\ DOMAIN list = 1 .. len
  OBVIOUS
<1>2. PICK long : long = Append(list, n)
  OBVIOUS
<1>3. /\ long \in Seq(Instances) /\ DOMAIN long = 1 .. len + 1
      /\ long[len + 1] = n /\ \A i \in 1 .. len : long[i] = list[i] /\ i \in 1 .. len + 1
      /\ \A i \in 1 .. len + 1 : i \in 1 .. len \/ i = len + 1
  BY <1>1, <1>2
<1>4. \A i \in 1 .. len : list[i] # n /\ \A j \in 1 .. len : list[i] = list[j] => i = j
  BY <1>1 DEF IsInjective, Range
<1>5. IsInjective(long)
  BY <1>3, <1>4 DEF IsInjective
<1>6. Range(long) = Range(list) \cup {n}
  <2>1. len + 1 \in 1 .. len + 1
    BY <1>1
  <2> QED
    BY <1>1, <1>3, <2>1 DEF Range
<1> QED
  BY <1>2, <1>3, <1>5, <1>6

\* An instance is listed under its type after it registers.
LEMMA RegisterKeepsIndex ==
  ASSUME IndexIsSound, NEW n \in Instances, NEW t \in TypesOf[n],
         NEW s \in {"REGISTERED", "SUSPENDED"}, NEW h \in BOOLEAN,
         RegisterWithScp(n, t, s, h)
  PROVE  IndexIsSound'
<1> USE DEF IndexIsSound
<1>1. t \in NfTypes /\ Nil \notin NfRecords
  BY InterworkingAssumption
<1>2. PICK r \in NfRecords : r = [type |-> t, status |-> s, host |-> h] /\ r.type = t
  <2>1. [type |-> t, status |-> s, host |-> h] \in NfRecords
    BY <1>1 DEF NfRecords
  <2> QED
    BY <2>1
<1>3. /\ nfCache' = [nfCache EXCEPT ![n] = r]
      /\ typeIndex' = (IF n \in Range(typeIndex[t]) THEN typeIndex
                       ELSE [typeIndex EXCEPT ![t] = Append(typeIndex[t], n)])
      /\ moved' = (IF nfCache[n] # Nil /\ nfCache[n].type # t THEN moved \cup {n} ELSE moved)
  BY <1>2 DEF RegisterWithScp
<1>4. /\ nfCache' \in [Instances -> NfRecords \cup {Nil}] /\ nfCache'[n] = r /\ r # Nil
      /\ \A m \in Instances : m # n => nfCache'[m] = nfCache[m]
  BY <1>1, <1>3
<1>5. moved \subseteq moved' /\ moved' \subseteq Instances
      /\ (nfCache[n] # Nil /\ nfCache[n].type # t => n \in moved')
  BY <1>3
<1>6. /\ typeIndex' \in [NfTypes -> Seq(Instances)] /\ IsInjective(typeIndex'[t])
      /\ Range(typeIndex'[t]) = Range(typeIndex[t]) \cup {n}
      /\ \A u \in NfTypes : u # t => typeIndex'[u] = typeIndex[u]
  <2>1. CASE n \in Range(typeIndex[t])
    BY <1>1, <1>3, <2>1
  <2>2. CASE n \notin Range(typeIndex[t])
    <3>1. PICK long : long = Append(typeIndex[t], n)
      OBVIOUS
    <3>2. long \in Seq(Instances) /\ IsInjective(long) /\ Range(long) = Range(typeIndex[t]) \cup {n}
      BY <1>1, <2>2, <3>1, AppendedToList
    <3>3. typeIndex' = [typeIndex EXCEPT ![t] = long]
      BY <1>3, <2>2, <3>1
    <3> QED
      BY <1>1, <3>2, <3>3
  <2> QED
    BY <2>1, <2>2
<1>7. \A u \in NfTypes : \A m \in Range(typeIndex[u]) : m \in Instances
  BY DEF Range
<1>8. ASSUME NEW u \in NfTypes, NEW m \in Range(typeIndex'[u]), nfCache'[m] = Nil \/ nfCache'[m].type # u
      PROVE  m \in moved'
  <2>1. CASE m = n
    <3>1. u # t /\ m \in Range(typeIndex[u])
      BY <1>2, <1>4, <1>6, <1>8, <2>1
    <3>2. nfCache[n] # Nil /\ nfCache[n].type = u => n \in moved'
      BY <1>5, <3>1
    <3> QED
      BY <1>5, <2>1, <3>1, <3>2
  <2>2. CASE m # n
    <3>1. m \in Range(typeIndex[u])
      BY <1>6, <2>2, <1>8
    <3>2. nfCache'[m] = nfCache[m]
      BY <1>4, <1>7, <2>2, <3>1
    <3> QED
      BY <1>5, <1>8, <3>1, <3>2
  <2> QED
    BY <2>1, <2>2
<1>9. ASSUME NEW m \in Instances, nfCache'[m] # Nil
      PROVE  m \in Range(typeIndex'[nfCache'[m].type])
  <2>1. CASE m = n
    BY <1>2, <1>4, <1>6, <2>1
  <2>2. CASE m # n
    <3>1. m \in Range(typeIndex[nfCache[m].type]) /\ nfCache'[m] = nfCache[m]
      BY <1>4, <1>9, <2>2
    <3>2. nfCache[m].type \in NfTypes
      BY <1>9, <3>1 DEF NfRecords
    <3> QED
      BY <1>6, <3>1, <3>2
  <2> QED
    BY <2>1, <2>2
<1> QED
  BY <1>1, <1>4, <1>5, <1>6, <1>8, <1>9

\* An instance goes from the list of its type when it deregisters.
LEMMA DeregisterKeepsIndex ==
  ASSUME IndexIsSound, NEW n \in Instances, DeregisterFromScp(n)
  PROVE  IndexIsSound'
<1> USE DEF IndexIsSound
<1>1. Nil \notin NfRecords
  BY InterworkingAssumption
<1>2. PICK t \in NfTypes : t = nfCache[n].type /\ nfCache[n] # Nil
  BY <1>1 DEF DeregisterFromScp, NfRecords
<1>3. n \in Range(typeIndex[t])
  BY <1>2
<1>4. PICK short : short = Removed(typeIndex[t], n)
  OBVIOUS
<1>5. /\ nfCache' = [nfCache EXCEPT ![n] = Nil] /\ typeIndex' = [typeIndex EXCEPT ![t] = short]
      /\ moved' = moved
  BY <1>2, <1>3, <1>4 DEF DeregisterFromScp
<1>6. short \in Seq(Instances) /\ IsInjective(short) /\ Range(short) = Range(typeIndex[t]) \ {n}
  BY <1>2, <1>3, <1>4, RemovedFromList
<1>7. /\ typeIndex' \in [NfTypes -> Seq(Instances)] /\ typeIndex'[t] = short
      /\ \A u \in NfTypes : u # t => typeIndex'[u] = typeIndex[u]
  BY <1>2, <1>5, <1>6
<1>8. /\ nfCache' \in [Instances -> NfRecords \cup {Nil}] /\ nfCache'[n] = Nil
      /\ \A m \in Instances : m # n => nfCache'[m] = nfCache[m]
  BY <1>5
<1>9. \A u \in NfTypes : \A m \in Range(typeIndex[u]) : m \in Instances
  BY DEF Range
<1>10. ASSUME NEW u \in NfTypes, NEW m \in Range(typeIndex'[u]), nfCache'[m] = Nil \/ nfCache'[m].type # u
       PROVE  m \in moved
  <2>1. m \in Range(typeIndex[u]) /\ (u = t => m # n)
    BY <1>6, <1>7, <1>10
  <2>2. CASE m = n
    BY <1>2, <2>1, <2>2
  <2>3. CASE m # n
    BY <1>8, <1>9, <1>10, <2>1, <2>3
  <2> QED
    BY <2>2, <2>3
<1>11. ASSUME NEW m \in Instances, nfCache'[m] # Nil
       PROVE  m \in Range(typeIndex'[nfCache'[m].type])
  <2>1. m # n /\ nfCache'[m] = nfCache[m] /\ m \in Range(typeIndex[nfCache[m].type])
    BY <1>8, <1>11
  <2>2. nfCache[m].type \in NfTypes
    BY <1>11, <2>1 DEF NfRecords
  <2> QED
    BY <1>6, <1>7, <2>1, <2>2
<1> QED
  BY <1>5, <1>6, <1>7, <1>8, <1>10, <1>11

\* Forgetting the breakers that expired, and their counts, leaves the others exact.
LEMMA SelectKeepsCounts ==
  ASSUME CallsAreTyped, CallsReach,
         NEW f \in Forwards, NEW t \in NfTypes, NEW retries \in 0 .. MaxRetries,
         NEW b, NEW failed, BreakersCount(b, failed), typeIndex \in [NfTypes -> Seq(Instances)],
         SelectAndSend(f, t, retries, b, failed)
  PROVE  /\ BreakersCount(breaker, failedSince)' /\ CallsAreTyped' /\ CallsReach'
         /\ UNCHANGED <<nfCache, typeIndex, moved>>
<1> DEFINE listed == {n \in Range(typeIndex[t]) : Registered(n)}
           candidates == {n \in listed : ~Is(b, n, "open")}
           looked == {n \in listed : Is(b, n, "expired")}
           hosted == {n \in candidates : nfCache[n].host}
           Turned(picks) == turn' = [turn EXCEPT ![t] = (turn[t] + picks) % Cardinality(candidates)]
<1>1. /\ breaker' = [n \in Instances |-> IF n \in looked THEN Nil ELSE b[n]]
      /\ failedSince' = [n \in Instances |-> IF n \in looked THEN 0 ELSE failed[n]]
      /\ UNCHANGED <<nfCache, typeIndex, moved>> /\ parted' = parted \ {f}
      /\ \/ candidates = {} /\ forward' = [forward EXCEPT ![f] = Nil] /\ UNCHANGED turn
         \/ \E n \in hosted, k \in 0 .. MaxRetries - retries :
              /\ forward' = [forward EXCEPT ![f] = [type |-> t, retries |-> retries + k, target |-> n]]
              /\ Turned(k + 1) \/ UNCHANGED turn
         \/ /\ hosted # candidates /\ forward' = [forward EXCEPT ![f] = Nil]
            /\ Turned(MaxRetries - retries + 1) \/ UNCHANGED turn
  BY DEF SelectAndSend
<1>2. /\ candidates \subseteq Instances /\ hosted \subseteq candidates
      /\ \A n \in hosted : Registered(n) /\ nfCache[n].host /\ n \in Range(typeIndex[t])
  BY DEF Range
<1> HIDE DEF looked, candidates, hosted, Turned
<1>a. MaxRetries \in Nat /\ retries \in Nat /\ retries <= MaxRetries
  BY InterworkingAssumption
<1>b. ASSUME NEW picks \in Nat, candidates # {}, Turned(picks) \/ UNCHANGED turn
      PROVE  turn' \in [NfTypes -> 0 .. Cardinality(Instances)]
  <2>3. PICK c \in Nat \ {0}, i \in Nat : c = Cardinality(candidates) /\ i = Cardinality(Instances) /\ c <= i
    <3>1. IsFiniteSet(Instances)
      BY InterworkingAssumption
    <3>2. IsFiniteSet(candidates) /\ Cardinality(candidates) <= Cardinality(Instances)
      BY <1>2, <3>1, FS_Subset
    <3>3. Cardinality(candidates) # 0
      BY <1>b, <3>2, FS_EmptySet
    <3> QED
      BY <3>1, <3>2, <3>3, FS_CardinalityType
  <2>4. PICK k \in Nat : k = turn[t]
    BY <2>3 DEF CallsAreTyped
  <2>5. (k + picks) % c \in 0 .. i
    <3>1. k + picks \in Int /\ (k + picks) % c \in 0 .. c - 1
      BY <2>3, <2>4, SMTT(30)
    <3> QED
      BY <2>3, <3>1
  <2>6. CASE Turned(picks)
    <3>1. turn' = [turn EXCEPT ![t] = (k + picks) % c]
      BY <2>3, <2>4, <2>6 DEF Turned
    <3> QED
      BY <2>3, <2>5, <3>1 DEF CallsAreTyped
  <2> QED
    BY <1>b, <2>6 DEF CallsAreTyped
<1>3. BreakersCount(breaker, failedSince)'
  <2>1. \A n \in Instances : \/ breaker'[n] = Nil /\ failedSince'[n] = 0
                             \/ breaker'[n] = b[n] /\ failedSince'[n] = failed[n]
    BY <1>1
  <2>2. breaker' \in [Instances -> BreakerStates \cup {Nil}] /\ failedSince' \in [Instances -> Nat]
    BY <1>1 DEF BreakersCount
  <2> QED
    BY <2>1, <2>2 DEF BreakersCount
<1>4. CallsAreTyped'
  <2>1. CASE candidates = {} /\ forward' = [forward EXCEPT ![f] = Nil] /\ UNCHANGED turn
    BY <2>1 DEF CallsAreTyped
  <2>2. ASSUME NEW n \in hosted, NEW k \in 0 .. MaxRetries - retries,
               forward' = [forward EXCEPT ![f] = [type |-> t, retries |-> retries + k, target |-> n]],
               Turned(k + 1) \/ UNCHANGED turn
        PROVE  CallsAreTyped'
    <3>1. PICK r : r = [type |-> t, retries |-> retries + k, target |-> n]
      OBVIOUS
    <3>2. retries + k \in 0 .. MaxRetries /\ k + 1 \in Nat
      BY <1>a
    <3>3. r \in ForwardRecords
      BY <1>2, <3>1, <3>2 DEF ForwardRecords
    <3>4. forward' \in [Forwards -> ForwardRecords \cup {Nil}]
      BY <2>2, <3>1, <3>3 DEF CallsAreTyped
    <3>5. turn' \in [NfTypes -> 0 .. Cardinality(Instances)]
      BY <1>2, <1>b, <2>2, <3>2
    <3> QED
      BY <3>4, <3>5 DEF CallsAreTyped
  <2>3. CASE /\ hosted # candidates /\ forward' = [forward EXCEPT ![f] = Nil]
             /\ Turned(MaxRetries - retries + 1) \/ UNCHANGED turn
    <3>1. MaxRetries - retries + 1 \in Nat
      BY <1>a
    <3>2. turn' \in [NfTypes -> 0 .. Cardinality(Instances)]
      BY <1>2, <1>b, <2>3, <3>1
    <3> QED
      BY <2>3, <3>2 DEF CallsAreTyped
  <2> QED
    BY <1>1, <2>1, <2>2, <2>3
<1>5. CallsReach'
  <2>1. ASSUME NEW g \in Forwards, forward'[g] # Nil, g \notin parted'
        PROVE  Reaches(forward'[g])
    <3>1. CASE g # f
      BY <1>1, <2>1, <3>1 DEF CallsReach, CallsAreTyped
    <3>2. CASE g = f
      <4>1. PICK n \in hosted : forward'[f].target = n /\ forward'[f].type = t
        BY <1>1, <2>1, <3>2 DEF CallsAreTyped
      <4> QED
        BY <1>2, <3>2, <4>1 DEF Reaches
    <3> QED
      BY <3>1, <3>2
  <2>2. ASSUME NEW c, Reaches(c)  PROVE Reaches(c)'
    BY <1>1, <2>2 DEF Reaches, Registered
  <2> QED
    BY <2>1, <2>2 DEF CallsReach
<1> QED
  BY <1>1, <1>3, <1>4, <1>5

\* A failure is counted in the breaker and in the history alike.
LEMMA FailedCounts ==
  ASSUME BreakersCount(breaker, failedSince), NEW n \in Instances
  PROVE  BreakersCount(Failed(n), [failedSince EXCEPT ![n] = failedSince[n] + 1])
<1>1. Threshold \in Nat /\ Nil \notin BreakerStates
  BY InterworkingAssumption
<1> USE DEF BreakersCount
<1>2. PICK before \in BreakerStates :
        before = (IF breaker[n] = Nil THEN [failures |-> 0, open |-> "no"] ELSE breaker[n])
  <2>1. [failures |-> 0, open |-> "no"] \in BreakerStates
    BY DEF BreakerStates
  <2> QED
    BY <2>1
<1>3. before.failures = failedSince[n] /\ failedSince[n] \in Nat
  BY <1>2
<1>4. PICK c \in Nat : c = failedSince[n] + 1
  BY <1>3
<1>5. PICK after : after = [failures |-> c, open |-> IF c >= Threshold THEN "open" ELSE before.open]
  OBVIOUS
<1>6. /\ after \in BreakerStates /\ after # Nil /\ after.failures = c
      /\ (c >= Threshold => after.open # "no")
  BY <1>1, <1>5 DEF BreakerStates
<1>7. Failed(n) = [breaker EXCEPT ![n] = after]
  BY <1>2, <1>3, <1>4, <1>5 DEF Failed
<1>8. PICK b : b = [breaker EXCEPT ![n] = after]
  OBVIOUS
<1>9. PICK h : h = [failedSince EXCEPT ![n] = c]
  OBVIOUS
<1>10. /\ b \in [Instances -> BreakerStates \cup {Nil}] /\ h \in [Instances -> Nat]
       /\ b[n] = after /\ h[n] = c
       /\ \A m \in Instances : m # n => b[m] = breaker[m] /\ h[m] = failedSince[m]
  BY <1>6, <1>8, <1>9
<1>11. BreakersCount(b, h)
  BY <1>6, <1>10
<1> HIDE DEF BreakersCount
<1> QED
  BY <1>4, <1>7, <1>8, <1>9, <1>11

\* A registration that would part a call from its instance is noted.
LEMMA RegisterKeepsCalls ==
  ASSUME IndexIsSound, CallsAreTyped, CallsReach, NEW n \in Instances, NEW t \in TypesOf[n],
         NEW s \in {"REGISTERED", "SUSPENDED"}, NEW h \in BOOLEAN, RegisterWithScp(n, t, s, h)
  PROVE  CallsReach'
<1>1. t \in NfTypes /\ Nil \notin NfRecords \cup ForwardRecords
  BY InterworkingAssumption
<1>2. PICK r : r = [type |-> t, status |-> s, host |-> h]
  OBVIOUS
<1>3. r.status = s /\ r.host = h /\ r \in NfRecords /\ r # Nil
  BY <1>1, <1>2 DEF NfRecords
<1>4. /\ nfCache'[n] = r /\ \A m \in Instances : m # n => nfCache'[m] = nfCache[m]
      /\ forward' = forward
      /\ parted' = parted \cup {f \in Calls(n) : s # "REGISTERED" \/ ~h \/ forward[f].type # t}
  BY <1>2 DEF RegisterWithScp, IndexIsSound
<1>5. \A u \in NfTypes : \A m \in Range(typeIndex[u]) : m \in Range(typeIndex'[u])
  <2>1. CASE n \in Range(typeIndex[t])
    BY <2>1 DEF RegisterWithScp
  <2>2. CASE n \notin Range(typeIndex[t])
    <3>1. typeIndex' = [typeIndex EXCEPT ![t] = Append(typeIndex[t], n)]
      BY <2>2 DEF RegisterWithScp
    <3>2. Range(Append(typeIndex[t], n)) = Range(typeIndex[t]) \cup {n}
      BY <1>1, <2>2, AppendedToList DEF IndexIsSound
    <3>3. /\ typeIndex'[t] = Append(typeIndex[t], n)
          /\ \A u \in NfTypes : u # t => typeIndex'[u] = typeIndex[u]
      BY <1>1, <3>1 DEF IndexIsSound
    <3> QED
      BY <3>2, <3>3
  <2> QED
    BY <2>1, <2>2
<1>6. ASSUME NEW f \in Forwards, forward[f] # Nil, f \notin parted'
      PROVE  Reaches(forward[f])'
  <2>1. PICK c \in ForwardRecords : c = forward[f]
    BY <1>6 DEF CallsAreTyped
  <2>2. c.target \in Instances /\ c.type \in NfTypes
    BY DEF ForwardRecords
  <2>3. Reaches(c)
    BY <1>4, <1>6, <2>1 DEF CallsReach
  <2>4. c.target \in Range(typeIndex'[c.type])
    BY <1>5, <2>2, <2>3 DEF Reaches
  <2>5. CASE c.target = n
    <3>1. s = "REGISTERED" /\ h
      BY <1>4, <1>6, <2>1, <2>5 DEF Calls
    <3>2. Registered(c.target)' /\ nfCache'[c.target].host
      BY <1>3, <1>4, <2>5, <3>1 DEF Registered
    <3> QED
      BY <1>4, <2>1, <2>4, <3>2 DEF Reaches
  <2>6. CASE c.target # n
    <3>1. nfCache'[c.target] = nfCache[c.target]
      BY <1>4, <2>2, <2>6
    <3>2. Registered(c.target)' /\ nfCache'[c.target].host
      BY <2>3, <3>1 DEF Reaches, Registered
    <3> QED
      BY <1>4, <2>1, <2>4, <3>2 DEF Reaches
  <2> QED
    BY <2>5, <2>6
<1> QED
  BY <1>4, <1>6 DEF CallsReach

\* The calls to an instance that deregisters are noted as parted from it.
LEMMA DeregisterKeepsCalls ==
  ASSUME IndexIsSound, CallsAreTyped, CallsReach, NEW n \in Instances, DeregisterFromScp(n)
  PROVE  CallsReach'
<1>1. PICK t \in NfTypes : t = nfCache[n].type /\ n \in Range(typeIndex[t])
  BY InterworkingAssumption DEF DeregisterFromScp, IndexIsSound, NfRecords
<1>2. PICK short : short = Removed(typeIndex[t], n)
  OBVIOUS
<1>3. Range(short) = Range(typeIndex[t]) \ {n}
  BY <1>1, <1>2, RemovedFromList DEF IndexIsSound
<1>4. /\ typeIndex' = [typeIndex EXCEPT ![t] = short] /\ forward' = forward
      /\ parted' = parted \cup Calls(n)
      /\ \A m \in Instances : m # n => nfCache'[m] = nfCache[m]
  BY <1>1, <1>2 DEF DeregisterFromScp, IndexIsSound
<1>5. \A u \in NfTypes : \A m \in Range(typeIndex[u]) : m # n => m \in Range(typeIndex'[u])
  BY <1>3, <1>4 DEF IndexIsSound
<1>6. ASSUME NEW f \in Forwards, forward[f] # Nil, f \notin parted'
      PROVE  Reaches(forward[f])'
  <2>1. PICK c \in ForwardRecords : c = forward[f]
    BY <1>6 DEF CallsAreTyped
  <2>2. c.target \in Instances /\ c.type \in NfTypes /\ c.target # n
    BY <1>4, <1>6, <2>1 DEF ForwardRecords, Calls
  <2>3. Reaches(c)
    BY <1>4, <1>6, <2>1 DEF CallsReach
  <2>4. c.target \in Range(typeIndex'[c.type]) /\ nfCache'[c.target] = nfCache[c.target]
    BY <1>4, <1>5, <2>2, <2>3 DEF Reaches
  <2> QED
    BY <1>4, <2>1, <2>3, <2>4 DEF Reaches, Registered
<1> QED
  BY <1>4, <1>6 DEF CallsReach

\* A call that ends leaves the others where they were.
LEMMA CallEnds ==
  ASSUME CallsAreTyped, CallsReach, NEW f \in Forwards, forward' = [forward EXCEPT ![f] = Nil],
         parted' = parted \ {f}, UNCHANGED <<nfCache, typeIndex>>
  PROVE  CallsReach'
<1>1. \A g \in Forwards : forward'[g] # Nil => g # f /\ forward'[g] = forward[g]
  BY DEF CallsAreTyped
<1>2. ASSUME NEW c, Reaches(c)  PROVE Reaches(c)'
  BY <1>2 DEF Reaches, Registered
<1>3. \A g \in Forwards : forward'[g] # Nil /\ g \notin parted' => Reaches(forward[g])
  BY <1>1 DEF CallsReach
<1>4. \A g \in Forwards : forward'[g] # Nil /\ g \notin parted' => Reaches(forward[g])'
  BY <1>1, <1>3 DEF Reaches, Registered
<1> QED
  BY <1>1, <1>4 DEF CallsReach

\* Nothing is cached, counted or under way at the start.
LEMMA ScpInitInv == ScpInit => ScpIInv
<1> SUFFICES ASSUME ScpInit  PROVE ScpIInv
  OBVIOUS
<1>1. IsInjective(<<>>) /\ Range(<<>>) = {}
  BY DEF IsInjective, Range
<1>2. 0 \in 0 .. Cardinality(Instances)
  BY InterworkingAssumption, FS_CardinalityType
<1>3. IndexIsSound
  BY <1>1 DEF ScpInit, IndexIsSound
<1> QED
  BY <1>2, <1>3 DEF ScpInit, ScpIInv, BreakersCount, CallsAreTyped, CallsReach

\* Each step of the proxy keeps its index, its breakers and its calls.
LEMMA ScpNextInv == ScpIInv /\ [ScpNext]_scpVars => ScpIInv'
<1> SUFFICES ASSUME ScpIInv, [ScpNext]_scpVars  PROVE ScpIInv'
  OBVIOUS
<1>1. IndexIsSound /\ BreakersCount(breaker, failedSince) /\ CallsAreTyped /\ CallsReach
  BY DEF ScpIInv
<1>2. Nil \notin BreakerStates /\ Nil \notin ForwardRecords /\ MaxRetries \in Nat
  BY InterworkingAssumption
<1>3. CASE UNCHANGED scpVars
  BY <1>3 DEF ScpIInv, IndexIsSound, BreakersCount,
       CallsAreTyped, CallsReach, Reaches, Registered, scpVars
<1>4. ASSUME NEW n \in Instances, NEW t \in TypesOf[n], NEW s \in {"REGISTERED", "SUSPENDED"},
             NEW h \in BOOLEAN, RegisterWithScp(n, t, s, h)
      PROVE  ScpIInv'
  <2>1. IndexIsSound'
    BY <1>1, <1>4, RegisterKeepsIndex
  <2>2. UNCHANGED <<turn, breaker, forward, failedSince>>
    BY <1>4 DEF RegisterWithScp
  <2>3. CallsReach'
    BY <1>1, <1>4, RegisterKeepsCalls
  <2> QED
    BY <1>1, <2>1, <2>2, <2>3 DEF ScpIInv, BreakersCount, CallsAreTyped
<1>5. ASSUME NEW n \in Instances, DeregisterFromScp(n)
      PROVE  ScpIInv'
  <2>1. IndexIsSound'
    BY <1>1, <1>5, DeregisterKeepsIndex
  <2>2. UNCHANGED <<turn, breaker, forward, failedSince>>
    BY <1>5 DEF DeregisterFromScp
  <2>3. CallsReach'
    BY <1>1, <1>5, DeregisterKeepsCalls
  <2> QED
    BY <1>1, <2>1, <2>2, <2>3 DEF ScpIInv, BreakersCount, CallsAreTyped
<1>6. ASSUME NEW n \in Instances, BreakerTimesOut(n)
      PROVE  ScpIInv'
  <2>1. PICK b \in BreakerStates : b = breaker[n] /\ breaker[n] # Nil
    BY <1>1, <1>6 DEF BreakerTimesOut, BreakersCount
  <2>2. PICK d : d = [b EXCEPT !.open = "expired"]
    OBVIOUS
  <2>3. d \in BreakerStates /\ d # Nil /\ d.failures = b.failures /\ d.open = "expired"
    BY <1>2, <2>2 DEF BreakerStates
  <2>4. breaker' = [breaker EXCEPT ![n] = d] /\ UNCHANGED <<nfCache, typeIndex, turn, forward, failedSince, moved, parted>>
    BY <1>6, <2>1, <2>2 DEF BreakerTimesOut
  <2>5. BreakersCount(breaker, failedSince)'
    BY <1>1, <2>1, <2>3, <2>4 DEF BreakersCount
  <2> QED
    BY <1>1, <2>4, <2>5 DEF ScpIInv, IndexIsSound, CallsAreTyped, CallsReach, Reaches, Registered
<1>7. ASSUME NEW f \in Forwards, NEW t \in NfTypes, ForwardRequest(f, t)
      PROVE  ScpIInv'
  <2>1. SelectAndSend(f, t, 0, breaker, failedSince)
    BY <1>7 DEF ForwardRequest
  <2>2. 0 \in 0 .. MaxRetries /\ typeIndex \in [NfTypes -> Seq(Instances)]
    BY <1>1, <1>2 DEF IndexIsSound
  <2>3. BreakersCount(breaker, failedSince)' /\ CallsAreTyped' /\ CallsReach'
        /\ UNCHANGED <<nfCache, typeIndex, moved>>
    BY <1>1, <2>1, <2>2, SelectKeepsCounts
  <2> QED
    BY <1>1, <2>3 DEF ScpIInv, IndexIsSound
<1>8. ASSUME NEW f \in Forwards, ForwardAnswered(f)
      PROVE  ScpIInv'
  <2>1. PICK n \in Instances : n = forward[f].target
    BY <1>1, <1>8 DEF ForwardAnswered, CallsAreTyped, ForwardRecords
  <2>2. /\ forward' = [forward EXCEPT ![f] = Nil] /\ failedSince' = [failedSince EXCEPT ![n] = 0]
        /\ breaker' = (IF breaker[n] = Nil THEN breaker ELSE [breaker EXCEPT ![n].failures = 0])
        /\ parted' = parted \ {f} /\ UNCHANGED <<nfCache, typeIndex, turn, moved>>
    BY <1>8, <2>1 DEF ForwardAnswered
  <2>3. /\ failedSince' \in [Instances -> Nat] /\ failedSince'[n] = 0
        /\ \A m \in Instances : m # n => failedSince'[m] = failedSince[m]
    BY <1>1, <2>2 DEF BreakersCount
  <2>4. Threshold \in Nat \ {0}
    BY InterworkingAssumption
  <2>5. BreakersCount(breaker, failedSince)'
    <3>1. CASE breaker[n] = Nil
      BY <1>1, <2>2, <2>3, <3>1 DEF BreakersCount
    <3>2. CASE breaker[n] # Nil
      <4>1. PICK b \in BreakerStates : b = breaker[n]
        BY <1>1, <3>2 DEF BreakersCount
      <4>2. PICK d : d = [b EXCEPT !.failures = 0]
        OBVIOUS
      <4>3. d \in BreakerStates /\ d # Nil /\ d.failures = 0
        BY <1>2, <4>2 DEF BreakerStates
      <4>4. breaker' = [breaker EXCEPT ![n] = d]
        BY <2>2, <3>2, <4>1, <4>2
      <4> QED
        BY <1>1, <2>3, <2>4, <4>3, <4>4 DEF BreakersCount
    <3> QED
      BY <3>1, <3>2
  <2>6. CallsAreTyped'
    BY <1>1, <2>2 DEF CallsAreTyped
  <2>7. CallsReach'
    BY <1>1, <2>2, CallEnds
  <2> QED
    BY <1>1, <2>2, <2>5, <2>6, <2>7 DEF ScpIInv, IndexIsSound
<1>9. ASSUME NEW f \in Forwards, ForwardFailed(f)
      PROVE  ScpIInv'
  <2>1. PICK r \in ForwardRecords : r = forward[f] /\ forward[f] # Nil
    BY <1>1, <1>9 DEF ForwardFailed, CallsAreTyped
  <2>2. PICK n \in Instances, t \in NfTypes : n = r.target /\ t = r.type
    BY DEF ForwardRecords
  <2>3. PICK failed : failed = [failedSince EXCEPT ![n] = failedSince[n] + 1]
    OBVIOUS
  <2>4. BreakersCount(Failed(n), failed)
    BY <1>1, <2>3, FailedCounts
  <2>5. \/ r.retries < MaxRetries /\ SelectAndSend(f, t, r.retries + 1, Failed(n), failed)
        \/ /\ forward' = [forward EXCEPT ![f] = Nil] /\ breaker' = Failed(n) /\ failedSince' = failed
           /\ parted' = parted \ {f} /\ UNCHANGED <<nfCache, typeIndex, turn, moved>>
    BY <1>9, <2>1, <2>2, <2>3 DEF ForwardFailed
  <2>6. CASE r.retries < MaxRetries /\ SelectAndSend(f, t, r.retries + 1, Failed(n), failed)
    <3>1. r.retries + 1 \in 0 .. MaxRetries /\ typeIndex \in [NfTypes -> Seq(Instances)]
      BY <1>1, <1>2, <2>1, <2>6 DEF IndexIsSound, ForwardRecords
    <3>2. BreakersCount(breaker, failedSince)' /\ CallsAreTyped' /\ CallsReach'
        /\ UNCHANGED <<nfCache, typeIndex, moved>>
      BY <1>1, <2>4, <2>6, <3>1, SelectKeepsCounts
    <3> QED
      BY <1>1, <3>2 DEF ScpIInv, IndexIsSound
  <2>7. CASE /\ forward' = [forward EXCEPT ![f] = Nil] /\ breaker' = Failed(n) /\ failedSince' = failed
             /\ parted' = parted \ {f} /\ UNCHANGED <<nfCache, typeIndex, turn, moved>>
    <3>1. BreakersCount(breaker', failedSince')
      BY <2>4, <2>7
    <3>2. CallsAreTyped'
      BY <1>1, <2>7 DEF CallsAreTyped
    <3>3. IndexIsSound'
      BY <1>1, <2>7 DEF IndexIsSound
    <3>4. CallsReach'
      BY <1>1, <2>7, CallEnds
    <3> QED
      BY <3>1, <3>2, <3>3, <3>4 DEF ScpIInv
  <2> QED
    BY <2>5, <2>6, <2>7
<1> QED
  BY <1>3, <1>4, <1>5, <1>6, <1>7, <1>8, <1>9 DEF ScpNext

\* The parts together are what routing needs.
LEMMA ScpImplies == ScpIInv => RoutingIsSound
<1> SUFFICES ASSUME ScpIInv  PROVE RoutingIsSound
  OBVIOUS
<1>1. Threshold \in Nat \ {0}
  BY InterworkingAssumption
<1>2. \A n \in Instances : failedSince[n] = (IF breaker[n] = Nil THEN 0 ELSE breaker[n].failures)
  BY DEF ScpIInv, BreakersCount
<1>3. \A n \in Instances : failedSince[n] >= Threshold => breaker[n].open # "no"
  BY <1>1 DEF ScpIInv, BreakersCount
<1>4. IndexIsSound
  BY DEF ScpIInv
<1>5. \A f \in Forwards : forward[f] # Nil /\ f \notin parted => Reaches(forward[f])
  BY DEF ScpIInv, CallsReach
<1> QED
  BY <1>2, <1>3, <1>4, <1>5 DEF RoutingIsSound, IndexIsSound

-----------------------------------------------------------------------------
(* Event exposure.                                                          *)

\* The reports under way for a subscription.
UnderWay(s) == {c \in Triggers : report[c] = s}

\* A stored subscription has reports left; a deleted one gets no new ones.
SubscriptionSound(s) ==
  /\ eventSub[s] = Nil => reported[s] = 0 /\ UnderWay(s) = {}
  /\ quota[s] > 0 =>
       /\ eventSub[s] = "stored" => reported[s] + reportsLeft[s] = quota[s] /\ reportsLeft[s] > 0
       /\ reported[s] + Cardinality(UnderWay(s)) < quota[s] + Cardinality(Triggers)
  /\ quota[s] = 0 => reportsLeft[s] = 0

\* Subscriptions and reports with their types, and each subscription sound.
NefIInv ==
  /\ eventSub \in [EventSubs -> {Nil, "stored", "deleted"}]
  /\ reportsLeft \in [EventSubs -> Nat] /\ quota \in [EventSubs -> Nat] /\ reported \in [EventSubs -> Nat]
  /\ report \in [Triggers -> EventSubs \cup {Nil}]
  /\ \A s \in EventSubs : SubscriptionSound(s)

\* The reports under way are counted.
LEMMA UnderWayIsFinite ==
  ASSUME NEW S \in SUBSET Triggers
  PROVE  /\ IsFiniteSet(S) /\ Cardinality(S) \in Nat
         /\ Cardinality(Triggers) \in Nat /\ Cardinality(S) <= Cardinality(Triggers)
  BY InterworkingAssumption, FS_Subset, FS_CardinalityType

\* No subscription is there at the start.
LEMMA NefInitInv == NefInit => NefIInv
<1> SUFFICES ASSUME NefInit  PROVE NefIInv
  OBVIOUS
<1>1. Nil \notin EventSubs
  BY InterworkingAssumption
<1>2. \A s \in EventSubs : UnderWay(s) = {}
  BY <1>1 DEF NefInit, UnderWay
<1> QED
  BY <1>2 DEF NefInit, NefIInv, SubscriptionSound

\* A subscription that a step leaves alone stays sound.
LEMMA SoundnessKept ==
  ASSUME NEW s \in EventSubs, SubscriptionSound(s), UnderWay(s)' = UnderWay(s),
         eventSub'[s] = eventSub[s], reported'[s] = reported[s],
         reportsLeft'[s] = reportsLeft[s], quota'[s] = quota[s]
  PROVE  SubscriptionSound(s)'
  BY DEF SubscriptionSound

\* Each step counts a report once, and the last one ends the subscription.
LEMMA NefNextInv == NefIInv /\ [NefNext]_nefVars => NefIInv'
<1> SUFFICES ASSUME NefIInv, [NefNext]_nefVars  PROVE NefIInv'
  OBVIOUS
<1>1. Nil \notin EventSubs /\ Nil # "stored" /\ Nil # "deleted"
  BY InterworkingAssumption
<1>2. /\ eventSub \in [EventSubs -> {Nil, "stored", "deleted"}]
      /\ reportsLeft \in [EventSubs -> Nat] /\ quota \in [EventSubs -> Nat] /\ reported \in [EventSubs -> Nat]
      /\ report \in [Triggers -> EventSubs \cup {Nil}]
      /\ \A s \in EventSubs : SubscriptionSound(s)
  BY DEF NefIInv
<1>3. \A s : UnderWay(s) \subseteq Triggers
  BY DEF UnderWay
<1>4. CASE UNCHANGED nefVars
  BY <1>4 DEF NefIInv, SubscriptionSound, UnderWay, nefVars
<1>5. ASSUME NEW s \in EventSubs, CreateMonitoring(s)
      PROVE  NefIInv'
  <2>1. PICK q \in 0 .. MaxReports :
          /\ reportsLeft' = [reportsLeft EXCEPT ![s] = q] /\ quota' = [quota EXCEPT ![s] = q]
          /\ eventSub[s] = Nil /\ eventSub' = [eventSub EXCEPT ![s] = "stored"]
          /\ UNCHANGED <<report, reported>>
    BY <1>5 DEF CreateMonitoring
  <2>2. q \in Nat
    BY InterworkingAssumption
  <2>3. \A e : UnderWay(e)' = UnderWay(e)
    BY <2>1 DEF UnderWay
  <2>4. SubscriptionSound(s)'
    <3>1. reported'[s] = 0 /\ UnderWay(s)' = {} /\ eventSub'[s] = "stored" /\ reportsLeft'[s] = q /\ quota'[s] = q
      BY <1>2, <2>1, <2>3 DEF SubscriptionSound
    <3>2. Cardinality(UnderWay(s)') = 0
      BY <3>1, FS_EmptySet
    <3>3. Cardinality(Triggers) \in Nat
      BY UnderWayIsFinite
    <3> QED
      BY <1>1, <2>1, <2>2, <3>1, <3>2, <3>3 DEF SubscriptionSound
  <2>5. ASSUME NEW e \in EventSubs  PROVE SubscriptionSound(e)'
    <3>1. CASE e = s
      BY <2>4, <3>1
    <3>2. CASE e # s
      BY <1>2, <2>1, <2>3, <3>2, SoundnessKept
    <3> QED
      BY <3>1, <3>2
  <2> QED
    BY <1>2, <2>1, <2>2, <2>5 DEF NefIInv
<1>6. ASSUME NEW s \in EventSubs, DeleteMonitoring(s)
      PROVE  NefIInv'
  <2>1. /\ eventSub[s] = "stored" /\ eventSub' = [eventSub EXCEPT ![s] = "deleted"]
        /\ UNCHANGED <<reportsLeft, report, quota, reported>>
    BY <1>6 DEF DeleteMonitoring
  <2>2. \A e : UnderWay(e)' = UnderWay(e)
    BY <2>1 DEF UnderWay
  <2>3. eventSub'[s] = "deleted"
    BY <1>2, <2>1
  <2>4. ASSUME NEW e \in EventSubs  PROVE SubscriptionSound(e)'
    <3>1. CASE e = s
      BY <1>1, <1>2, <2>1, <2>2, <2>3, <3>1 DEF SubscriptionSound
    <3>2. CASE e # s
      BY <1>2, <2>1, <2>2, <3>2, SoundnessKept
    <3> QED
      BY <3>1, <3>2
  <2> QED
    BY <1>2, <2>1, <2>4 DEF NefIInv
<1>7. ASSUME NEW c \in Triggers, NEW s \in EventSubs, TriggerEvent(c, s)
      PROVE  NefIInv'
  <2>1. /\ report[c] = Nil /\ eventSub[s] = "stored" /\ report' = [report EXCEPT ![c] = s]
        /\ UNCHANGED <<eventSub, reportsLeft, quota, reported>>
    BY <1>7 DEF TriggerEvent
  <2>2. \A e \in EventSubs : e # s => UnderWay(e)' = UnderWay(e)
    BY <1>1, <1>2, <2>1 DEF UnderWay
  <2>3. SubscriptionSound(s)'
    <3>1. PICK u \in Nat : u = Cardinality(UnderWay(s)') /\ u <= Cardinality(Triggers)
      <4>1. UnderWay(s)' \subseteq Triggers
        BY DEF UnderWay
      <4> QED
        BY <4>1, UnderWayIsFinite
    <3>2. PICK n \in Nat : n = Cardinality(Triggers)
      BY UnderWayIsFinite
    <3>3. CASE quota[s] > 0
      <4>1. reported[s] + reportsLeft[s] = quota[s] /\ reportsLeft[s] > 0
        BY <1>2, <2>1, <3>3 DEF SubscriptionSound
      <4>2. reported[s] + u < quota[s] + n
        BY <1>2, <3>1, <3>2, <4>1
      <4> QED
        BY <1>1, <2>1, <3>1, <3>2, <3>3, <4>1, <4>2 DEF SubscriptionSound
    <3>4. CASE ~(quota[s] > 0)
      BY <1>1, <1>2, <2>1, <3>4 DEF SubscriptionSound
    <3> QED
      BY <3>3, <3>4
  <2>4. ASSUME NEW e \in EventSubs  PROVE SubscriptionSound(e)'
    <3>1. CASE e = s
      BY <2>3, <3>1
    <3>2. CASE e # s
      BY <1>2, <2>1, <2>2, <3>2, SoundnessKept
    <3> QED
      BY <3>1, <3>2
  <2> QED
    BY <1>2, <2>1, <2>4 DEF NefIInv
<1>8. ASSUME NEW c \in Triggers, ReportConcluded(c)
      PROVE  NefIInv'
  <2>1. PICK s \in EventSubs : s = report[c] /\ report[c] # Nil
    BY <1>2, <1>8 DEF ReportConcluded
  <2>2. PICK l \in Nat : l = reportsLeft[s]
    BY <1>2
  <2>3. /\ reported' = [reported EXCEPT ![s] = reported[s] + 1]
        /\ report' = [report EXCEPT ![c] = Nil] /\ quota' = quota
        /\ reportsLeft' = IF l = 0 THEN reportsLeft ELSE [reportsLeft EXCEPT ![s] = l - 1]
        /\ eventSub' = IF l # 0 /\ l - 1 <= 0 THEN [eventSub EXCEPT ![s] = "deleted"] ELSE eventSub
    BY <1>8, <2>1, <2>2 DEF ReportConcluded
  <2>4. /\ reported' \in [EventSubs -> Nat] /\ reported'[s] = reported[s] + 1
        /\ \A e \in EventSubs : e # s => reported'[e] = reported[e]
    BY <1>2, <2>3
  <2>5. /\ reportsLeft' \in [EventSubs -> Nat] /\ reportsLeft'[s] = (IF l = 0 THEN 0 ELSE l - 1)
        /\ \A e \in EventSubs : e # s => reportsLeft'[e] = reportsLeft[e]
    BY <1>2, <2>2, <2>3
  <2>6. /\ eventSub' \in [EventSubs -> {Nil, "stored", "deleted"}]
        /\ eventSub'[s] = (IF l = 1 THEN "deleted" ELSE eventSub[s])
        /\ \A e \in EventSubs : e # s => eventSub'[e] = eventSub[e]
    <3>1. CASE l # 0 /\ l - 1 <= 0
      <4>1. l = 1
        BY <3>1
      <4> QED
        BY <1>2, <2>3, <3>1, <4>1
    <3>2. CASE ~(l # 0 /\ l - 1 <= 0)
      <4>1. l # 1
        BY <3>2
      <4> QED
        BY <1>2, <2>3, <3>2, <4>1
    <3> QED
      BY <3>1, <3>2
  <2>7. /\ \A e \in EventSubs : e # s => UnderWay(e)' = UnderWay(e)
        /\ c \in UnderWay(s) /\ UnderWay(s)' = UnderWay(s) \ {c}
    BY <1>1, <1>2, <2>1, <2>3 DEF UnderWay
  <2>8. PICK u \in Nat : u = Cardinality(UnderWay(s))
    BY <1>3, UnderWayIsFinite
  <2>9. Cardinality(UnderWay(s)') = u - 1
    BY <1>3, <2>7, <2>8, UnderWayIsFinite, FS_RemoveElement
  <2>10. SubscriptionSound(s)'
    <3>1. PICK n \in Nat : n = Cardinality(Triggers)
      BY UnderWayIsFinite
    <3>2. PICK r \in Nat, q \in Nat : r = reported[s] /\ q = quota[s]
      BY <1>2
    <3>3. /\ eventSub[s] # Nil /\ (q = 0 => l = 0)
          /\ q > 0 => (eventSub[s] = "stored" => r + l = q /\ l > 0) /\ r + u < q + n
      BY <1>2, <2>2, <2>7, <2>8, <3>1, <3>2 DEF SubscriptionSound
    <3>4. r + 1 + (u - 1) = r + u
      BY <2>8, <3>2
    <3>5. eventSub'[s] # Nil /\ (eventSub'[s] = "stored" => l # 1 /\ eventSub[s] = "stored")
      BY <1>1, <2>6, <3>3
    <3>6. /\ q = 0 => reportsLeft'[s] = 0
          /\ q > 0 /\ eventSub'[s] = "stored" => r + 1 + reportsLeft'[s] = q /\ reportsLeft'[s] > 0
      BY <2>2, <2>5, <3>2, <3>3, <3>5
    <3> QED
      BY <2>3, <2>4, <2>9, <3>1, <3>2, <3>3, <3>4, <3>5, <3>6 DEF SubscriptionSound
  <2>11. ASSUME NEW e \in EventSubs  PROVE SubscriptionSound(e)'
    <3>1. CASE e = s
      BY <2>10, <3>1
    <3>2. CASE e # s
      BY <1>2, <2>3, <2>4, <2>5, <2>6, <2>7, <3>2, SoundnessKept
    <3> QED
      BY <3>1, <3>2
  <2>12. report' \in [Triggers -> EventSubs \cup {Nil}]
    BY <1>2, <2>3
  <2> QED
    BY <1>2, <2>3, <2>4, <2>5, <2>6, <2>11, <2>12 DEF NefIInv
<1> QED
  BY <1>4, <1>5, <1>6, <1>7, <1>8 DEF NefNext

\* What the reports leave is what the quota allows.
LEMMA NefImplies == NefIInv => QuotaIsKept
<1> SUFFICES ASSUME NefIInv, NEW s \in EventSubs, quota[s] > 0
             PROVE  /\ eventSub[s] = "stored" => reported[s] + reportsLeft[s] = quota[s] /\ reportsLeft[s] > 0
                    /\ reported[s] < quota[s] + Cardinality(Triggers)
  BY DEF QuotaIsKept
<1>1. SubscriptionSound(s) /\ reported[s] \in Nat /\ quota[s] \in Nat
  BY DEF NefIInv
<1>2. UnderWay(s) \subseteq Triggers
  BY DEF UnderWay
<1>3. PICK u \in Nat, n \in Nat : u = Cardinality(UnderWay(s)) /\ n = Cardinality(Triggers)
  BY <1>2, UnderWayIsFinite
<1>4. reported[s] + u < quota[s] + n
  BY <1>1, <1>3 DEF SubscriptionSound
<1> QED
  BY <1>1, <1>3, <1>4 DEF SubscriptionSound

-----------------------------------------------------------------------------
(* Non-3GPP interworking.                                                   *)

\* Every tunnel, address and id handed out is below the next one, and used once.
N3iwfIInv ==
  /\ ueContext \in [NonTgppUes -> ContextRecords \cup {Nil}]
  /\ ipsecTunnel \subseteq Tunnels /\ orphan \subseteq Tunnels
  /\ nextAddress \in Nat \ {0} /\ nextNgapId \in Nat \ {0}
  /\ innerAddress \in [Tunnels -> Nat] /\ \A t \in Tunnels : innerAddress[t] < nextAddress
  /\ \A t, o \in Tunnels : innerAddress[t] = innerAddress[o] /\ innerAddress[t] # 0 => t = o
  /\ \A t \in ipsecTunnel : innerAddress[t] # 0
  /\ \A t \in ipsecTunnel :
       t \in orphan \/ \E u \in NonTgppUes : ueContext[u] # Nil /\ ueContext[u].tunnel = t
  /\ ranUeNgapId \in [NonTgppUes -> Nat]
  /\ \A u \in NonTgppUes : ranUeNgapId[u] < nextNgapId /\ (ranUeNgapId[u] # 0 <=> ueContext[u] # Nil)
  /\ \A u, v \in NonTgppUes : ranUeNgapId[u] = ranUeNgapId[v] /\ ranUeNgapId[u] # 0 => u = v
  /\ amfUeNgapId \subseteq NonTgppUes /\ \A u \in amfUeNgapId : ueContext[u] # Nil
  /\ \A u \in NonTgppUes : ueContext[u] # Nil => \A a \in ueContext[u].sessions :
       a < nextAddress /\ \A t \in Tunnels : innerAddress[t] # a
  /\ \A u, v \in NonTgppUes : u # v /\ ueContext[u] # Nil /\ ueContext[v] # Nil =>
       ueContext[u].sessions \cap ueContext[v].sessions = {}

\* No UE has come over the untrusted access at the start.
LEMMA N3iwfInitInv == N3iwfInit => N3iwfIInv
  BY DEF N3iwfInit, N3iwfIInv

\* A context in place whose record is written again, with sessions it had.
LEMMA ContextWritten ==
  ASSUME N3iwfIInv, NEW u \in NonTgppUes, ueContext[u] # Nil, NEW c \in ContextRecords,
         c.tunnel = ueContext[u].tunnel, c.sessions \subseteq ueContext[u].sessions,
         ueContext' = [ueContext EXCEPT ![u] = c], amfUeNgapId' \subseteq amfUeNgapId \cup {u},
         UNCHANGED <<ipsecTunnel, innerAddress, orphan, nextAddress>>,
         \/ UNCHANGED <<ranUeNgapId, nextNgapId>>
         \/ ranUeNgapId' = [ranUeNgapId EXCEPT ![u] = nextNgapId] /\ nextNgapId' = nextNgapId + 1
  PROVE  N3iwfIInv'
<1> USE DEF N3iwfIInv
<1>1. c # Nil
  BY InterworkingAssumption
<1>2. /\ ueContext' \in [NonTgppUes -> ContextRecords \cup {Nil}] /\ ueContext'[u] = c
      /\ \A v \in NonTgppUes : v # u => ueContext'[v] = ueContext[v]
  OBVIOUS
<1>3. \A v \in NonTgppUes : ueContext'[v] # Nil <=> ueContext[v] # Nil
  BY <1>1, <1>2
<1>4. \A v \in NonTgppUes : ueContext[v] # Nil =>
        ueContext'[v].tunnel = ueContext[v].tunnel /\ ueContext'[v].sessions \subseteq ueContext[v].sessions
  BY <1>2
<1>5. /\ ranUeNgapId' \in [NonTgppUes -> Nat] /\ nextNgapId' \in Nat \ {0}
      /\ \A v \in NonTgppUes : ranUeNgapId'[v] < nextNgapId' /\ (ranUeNgapId'[v] # 0 <=> ueContext'[v] # Nil)
      /\ \A v, w \in NonTgppUes : ranUeNgapId'[v] = ranUeNgapId'[w] /\ ranUeNgapId'[v] # 0 => v = w
  <2>1. CASE UNCHANGED <<ranUeNgapId, nextNgapId>>
    BY <1>3, <2>1
  <2>2. CASE ranUeNgapId' = [ranUeNgapId EXCEPT ![u] = nextNgapId] /\ nextNgapId' = nextNgapId + 1
    <3>1. /\ ranUeNgapId'[u] = nextNgapId /\ \A v \in NonTgppUes : v # u => ranUeNgapId'[v] = ranUeNgapId[v]
          /\ ranUeNgapId' \in [NonTgppUes -> Nat] /\ nextNgapId' \in Nat \ {0}
      BY <2>2
    <3>2. \A v \in NonTgppUes : ranUeNgapId[v] # nextNgapId /\ ranUeNgapId[v] < nextNgapId'
      BY <2>2
    <3> QED
      BY <1>1, <1>2, <1>3, <2>2, <3>1, <3>2
  <2> QED
    BY <2>1, <2>2
<1>6. amfUeNgapId' \subseteq NonTgppUes /\ \A v \in amfUeNgapId' : ueContext'[v] # Nil
  BY <1>3
<1>7. \A t \in ipsecTunnel :
        t \in orphan \/ \E v \in NonTgppUes : ueContext'[v] # Nil /\ ueContext'[v].tunnel = t
  BY <1>3, <1>4
<1>8. \A v \in NonTgppUes : ueContext'[v] # Nil => \A a \in ueContext'[v].sessions :
        a < nextAddress /\ \A t \in Tunnels : innerAddress[t] # a
  BY <1>3, <1>4
<1>9. \A v, w \in NonTgppUes : v # w /\ ueContext'[v] # Nil /\ ueContext'[w] # Nil =>
        ueContext'[v].sessions \cap ueContext'[w].sessions = {}
  BY <1>3, <1>4
<1> QED
  BY <1>2, <1>5, <1>6, <1>7, <1>8, <1>9

\* Each step hands out a fresh address or id, or keeps what is linked.
LEMMA N3iwfNextInv == N3iwfIInv /\ [N3iwfNext]_n3iwfVars => N3iwfIInv'
<1> SUFFICES ASSUME N3iwfIInv, [N3iwfNext]_n3iwfVars  PROVE N3iwfIInv'
  OBVIOUS
<1>1. /\ Nil \notin ContextRecords /\ Nil \notin Tunnels /\ MaxAddress \in Nat
      /\ ueContext \in [NonTgppUes -> ContextRecords \cup {Nil}]
  BY InterworkingAssumption DEF N3iwfIInv
<1>2. CASE UNCHANGED n3iwfVars
  BY <1>2 DEF N3iwfIInv, n3iwfVars
<1>3. ASSUME NEW u \in NonTgppUes, NEW t \in Tunnels, EstablishTunnel(u, t)
      PROVE  N3iwfIInv'
  <2> USE DEF N3iwfIInv
  <2>1. PICK n \in Nat \ {0} : n = nextAddress
    OBVIOUS
  <2>2. /\ innerAddress[t] = 0 /\ ipsecTunnel' = ipsecTunnel \cup {t}
        /\ innerAddress' = [innerAddress EXCEPT ![t] = n] /\ nextAddress' = n + 1
        /\ UNCHANGED <<ranUeNgapId, amfUeNgapId, nextNgapId>>
    BY <1>3, <2>1 DEF EstablishTunnel
  <2>3. /\ innerAddress' \in [Tunnels -> Nat] /\ innerAddress'[t] = n
        /\ \A o \in Tunnels : o # t => innerAddress'[o] = innerAddress[o]
    BY <2>2
  <2>4. \A o \in Tunnels : innerAddress'[o] < nextAddress' /\ (o # t => innerAddress'[o] # n)
    BY <2>1, <2>2, <2>3
  <2>5. \A o, p \in Tunnels : innerAddress'[o] = innerAddress'[p] /\ innerAddress'[o] # 0 => o = p
    BY <2>3, <2>4
  <2>6. \A o \in ipsecTunnel' : innerAddress'[o] # 0
    BY <2>2, <2>3
  <2>7. \A v \in NonTgppUes : ueContext[v] # Nil => \A a \in ueContext[v].sessions :
          a < nextAddress' /\ \A o \in Tunnels : innerAddress'[o] # a
    <3>1. ASSUME NEW v \in NonTgppUes, ueContext[v] # Nil, NEW a \in ueContext[v].sessions
          PROVE  a < nextAddress' /\ \A o \in Tunnels : innerAddress'[o] # a
      <4>1. a < n /\ a \in Int /\ \A o \in Tunnels : innerAddress[o] # a
        BY <1>1, <2>1, <3>1 DEF ContextRecords
      <4> QED
        BY <2>1, <2>2, <2>3, <4>1
    <3> QED
      BY <3>1
  <2>8. CASE ueContext[u] = Nil
    <3>1. ueContext' = ueContext /\ orphan' = orphan \cup {t}
      BY <1>3, <2>8 DEF EstablishTunnel
    <3>2. \A o \in ipsecTunnel' :
            o \in orphan' \/ \E v \in NonTgppUes : ueContext'[v] # Nil /\ ueContext'[v].tunnel = o
      BY <2>2, <3>1
    <3> QED
      BY <2>1, <2>2, <2>3, <2>4, <2>5, <2>6, <2>7, <3>1, <3>2
  <2>9. CASE ueContext[u] # Nil
    <3>1. PICK c \in ContextRecords : c = ueContext[u]
      BY <1>1, <2>9
    <3>2. PICK d : d = [c EXCEPT !.tunnel = t]
      OBVIOUS
    <3>3. d \in ContextRecords /\ d # Nil /\ d.tunnel = t /\ d.sessions = c.sessions
          /\ c.tunnel \in Tunnels \cup {Nil}
      BY <1>1, <3>2 DEF ContextRecords
    <3>4. ueContext' = [ueContext EXCEPT ![u] = d] /\ orphan' = orphan \cup ({c.tunnel} \ {Nil})
      BY <1>3, <2>9, <3>1, <3>2 DEF EstablishTunnel
    <3>5. /\ ueContext' \in [NonTgppUes -> ContextRecords \cup {Nil}] /\ ueContext'[u] = d
          /\ \A v \in NonTgppUes : v # u => ueContext'[v] = ueContext[v]
      BY <3>3, <3>4
    <3>6. \A v \in NonTgppUes : (ueContext'[v] # Nil <=> ueContext[v] # Nil)
            /\ (ueContext[v] # Nil => ueContext'[v].sessions = ueContext[v].sessions)
      BY <2>9, <3>1, <3>3, <3>5
    <3>7. orphan' \subseteq Tunnels
      BY <3>3, <3>4
    <3>8. ASSUME NEW o \in ipsecTunnel'
          PROVE  o \in orphan' \/ \E v \in NonTgppUes : ueContext'[v] # Nil /\ ueContext'[v].tunnel = o
      <4>1. CASE o = t
        BY <3>3, <3>5, <4>1
      <4>2. CASE o \in ipsecTunnel
        <5>1. o \in orphan \/ \E v \in NonTgppUes : ueContext[v] # Nil /\ ueContext[v].tunnel = o
          BY <4>2
        <5>2. o # Nil
          BY <1>1, <4>2
        <5> QED
          BY <3>1, <3>4, <3>5, <3>6, <5>1, <5>2
      <4> QED
        BY <2>2, <4>1, <4>2
    <3>9. \A v, w \in NonTgppUes : v # w /\ ueContext'[v] # Nil /\ ueContext'[w] # Nil =>
            ueContext'[v].sessions \cap ueContext'[w].sessions = {}
      BY <3>6
    <3>10. \A v \in NonTgppUes : ueContext'[v] # Nil => \A a \in ueContext'[v].sessions :
             a < nextAddress' /\ \A o \in Tunnels : innerAddress'[o] # a
      BY <2>7, <3>6
    <3>11. \A v \in NonTgppUes : ranUeNgapId'[v] < nextNgapId' /\ (ranUeNgapId'[v] # 0 <=> ueContext'[v] # Nil)
      BY <2>2, <3>6
    <3>12. \A v \in amfUeNgapId' : ueContext'[v] # Nil
      BY <2>2, <3>6
    <3>13. ipsecTunnel' \subseteq Tunnels /\ nextAddress' \in Nat \ {0}
      BY <2>1, <2>2
    <3> QED
      BY <2>2, <2>3, <2>4, <2>5, <2>6, <3>5, <3>7, <3>8, <3>9, <3>10, <3>11, <3>12, <3>13
  <2> QED
    BY <2>8, <2>9
<1>4. ASSUME NEW u \in NonTgppUes, HandleRegistration(u)
      PROVE  N3iwfIInv'
  <2>1. /\ ranUeNgapId' = [ranUeNgapId EXCEPT ![u] = nextNgapId] /\ nextNgapId' = nextNgapId + 1
        /\ UNCHANGED <<ipsecTunnel, innerAddress, orphan, amfUeNgapId, nextAddress>>
    BY <1>4 DEF HandleRegistration
  <2>2. CASE ueContext[u] # Nil
    <3>1. PICK c \in ContextRecords : c = ueContext[u]
      BY <1>1, <2>2
    <3>2. PICK d : d = [c EXCEPT !.state = "CONNECTING"]
      OBVIOUS
    <3>3. d \in ContextRecords /\ d.tunnel = c.tunnel /\ d.sessions = c.sessions
      BY <3>2 DEF ContextRecords
    <3>4. ueContext' = [ueContext EXCEPT ![u] = d]
      BY <1>4, <2>2, <3>1, <3>2 DEF HandleRegistration
    <3> QED
      BY <2>1, <2>2, <3>1, <3>3, <3>4, ContextWritten
  <2>3. CASE ueContext[u] = Nil
    <3> USE DEF N3iwfIInv
    <3>1. PICK c : c = [state |-> "CONNECTING", tunnel |-> Nil, sessions |-> {}]
      OBVIOUS
    <3>2. c \in ContextRecords /\ c # Nil /\ c.sessions = {}
      BY <1>1, <3>1 DEF ContextRecords
    <3>3. ueContext' = [ueContext EXCEPT ![u] = c]
      BY <1>4, <2>3, <3>1 DEF HandleRegistration
    <3>4. /\ ueContext' \in [NonTgppUes -> ContextRecords \cup {Nil}] /\ ueContext'[u] = c
          /\ \A v \in NonTgppUes : v # u => ueContext'[v] = ueContext[v]
      BY <3>2, <3>3
    <3>5. /\ ranUeNgapId'[u] = nextNgapId /\ \A v \in NonTgppUes : v # u => ranUeNgapId'[v] = ranUeNgapId[v]
          /\ ranUeNgapId' \in [NonTgppUes -> Nat] /\ nextNgapId' \in Nat \ {0}
      BY <2>1
    <3>6. \A v \in NonTgppUes : ranUeNgapId[v] # nextNgapId /\ ranUeNgapId[v] < nextNgapId'
      BY <2>1
    <3>7. \A v \in NonTgppUes : ranUeNgapId'[v] < nextNgapId' /\ (ranUeNgapId'[v] # 0 <=> ueContext'[v] # Nil)
      BY <2>1, <3>2, <3>4, <3>5, <3>6
    <3>8. \A v, w \in NonTgppUes : ranUeNgapId'[v] = ranUeNgapId'[w] /\ ranUeNgapId'[v] # 0 => v = w
      BY <3>5, <3>6
    <3>9. \A v \in NonTgppUes : ueContext[v] # Nil => v # u /\ ueContext'[v] # Nil /\ ueContext'[v] = ueContext[v]
      BY <2>3, <3>4
    <3>10. \A t \in ipsecTunnel :
             t \in orphan \/ \E v \in NonTgppUes : ueContext'[v] # Nil /\ ueContext'[v].tunnel = t
      BY <3>9
    <3>11. \A v \in NonTgppUes : ueContext'[v] # Nil => \A a \in ueContext'[v].sessions :
             a < nextAddress /\ \A t \in Tunnels : innerAddress[t] # a
      BY <3>2, <3>4
    <3>12. \A v, w \in NonTgppUes : v # w /\ ueContext'[v] # Nil /\ ueContext'[w] # Nil =>
             ueContext'[v].sessions \cap ueContext'[w].sessions = {}
      BY <3>2, <3>4
    <3>13. \A v \in amfUeNgapId : ueContext'[v] # Nil
      BY <3>9
    <3> QED
      BY <2>1, <3>4, <3>5, <3>7, <3>8, <3>10, <3>11, <3>12, <3>13
  <2> QED
    BY <2>2, <2>3
<1>5. ASSUME NEW u \in NonTgppUes, CompleteRegistration(u)
      PROVE  N3iwfIInv'
  <2>1. PICK c \in ContextRecords : c = ueContext[u] /\ c # Nil
    BY <1>1, <1>5 DEF CompleteRegistration
  <2>2. PICK d : d = [c EXCEPT !.state = "CONNECTED"]
    OBVIOUS
  <2>3. d \in ContextRecords /\ d.tunnel = c.tunnel /\ d.sessions = c.sessions
    BY <2>2 DEF ContextRecords
  <2>4. ueContext' = [ueContext EXCEPT ![u] = d] /\ amfUeNgapId' \subseteq amfUeNgapId \cup {u}
        /\ UNCHANGED <<ipsecTunnel, innerAddress, orphan, ranUeNgapId, nextNgapId, nextAddress>>
    BY <1>5, <2>1, <2>2 DEF CompleteRegistration
  <2> QED
    BY <2>1, <2>3, <2>4, ContextWritten
<1>6. ASSUME NEW u \in NonTgppUes, ReleaseN3iwfSession(u)
      PROVE  N3iwfIInv'
  <2>1. PICK c \in ContextRecords : c = ueContext[u] /\ c # Nil
    BY <1>1, <1>6 DEF ReleaseN3iwfSession
  <2>2. PICK a \in c.sessions : ueContext' = [ueContext EXCEPT ![u].sessions = ueContext[u].sessions \ {a}]
    BY <1>6, <2>1 DEF ReleaseN3iwfSession
  <2>3. PICK d : d = [c EXCEPT !.sessions = c.sessions \ {a}]
    OBVIOUS
  <2>4. d \in ContextRecords /\ d.tunnel = c.tunnel /\ d.sessions \subseteq c.sessions
    BY <2>3 DEF ContextRecords
  <2>5. ueContext' = [ueContext EXCEPT ![u] = d]
    BY <2>1, <2>2, <2>3
  <2>6. UNCHANGED <<ipsecTunnel, innerAddress, orphan, ranUeNgapId, amfUeNgapId, nextNgapId, nextAddress>>
    BY <1>6 DEF ReleaseN3iwfSession
  <2> QED
    BY <2>1, <2>4, <2>5, <2>6, ContextWritten
<1>7. ASSUME NEW u \in NonTgppUes, EstablishN3iwfSession(u)
      PROVE  N3iwfIInv'
  <2> USE DEF N3iwfIInv
  <2>1. PICK c \in ContextRecords : c = ueContext[u] /\ c # Nil
    BY <1>1, <1>7 DEF EstablishN3iwfSession
  <2>2. PICK n \in Nat \ {0} : n = nextAddress /\ n <= MaxAddress
    BY <1>7 DEF EstablishN3iwfSession
  <2>3. PICK kept \in SUBSET c.sessions : ueContext' = [ueContext EXCEPT ![u].sessions = kept \cup {n}]
    <3>1. PICK kept \in {ueContext[u].sessions} \cup {ueContext[u].sessions \ {a} : a \in ueContext[u].sessions} :
            ueContext' = [ueContext EXCEPT ![u].sessions = kept \cup {nextAddress}]
      BY <1>7 DEF EstablishN3iwfSession
    <3>2. kept \in SUBSET c.sessions
      BY <2>1, <3>1
    <3> QED
      BY <2>2, <3>1, <3>2
  <2>4. nextAddress' = n + 1
        /\ UNCHANGED <<ipsecTunnel, innerAddress, orphan, ranUeNgapId, amfUeNgapId, nextNgapId>>
    BY <1>7, <2>2 DEF EstablishN3iwfSession
  <2>5. PICK d : d = [c EXCEPT !.sessions = kept \cup {n}]
    OBVIOUS
  <2>6. d \in ContextRecords /\ d # Nil /\ d.tunnel = c.tunnel /\ d.sessions = kept \cup {n}
    <3>1. n \in 1 .. MaxAddress
      BY <1>1, <2>2
    <3> QED
      BY <1>1, <2>5, <3>1 DEF ContextRecords
  <2>7. ueContext' = [ueContext EXCEPT ![u] = d]
    BY <2>1, <2>3, <2>5
  <2>8. /\ ueContext' \in [NonTgppUes -> ContextRecords \cup {Nil}] /\ ueContext'[u] = d
        /\ \A v \in NonTgppUes : v # u => ueContext'[v] = ueContext[v]
    BY <2>6, <2>7
  <2>9. \A v \in NonTgppUes : (ueContext'[v] # Nil <=> ueContext[v] # Nil)
          /\ (ueContext[v] # Nil => ueContext'[v].tunnel = ueContext[v].tunnel)
    BY <2>1, <2>6, <2>8
  <2>10. \A v \in NonTgppUes : ueContext[v] # Nil =>
           \A a \in ueContext'[v].sessions : a \in ueContext[v].sessions \/ (v = u /\ a = n)
    BY <2>1, <2>6, <2>8
  <2>11. \A v \in NonTgppUes : ueContext[v] # Nil => \A a \in ueContext[v].sessions : a \in Int /\ a < n
    BY <1>1, <2>2 DEF ContextRecords
  <2>12. \A t \in Tunnels : innerAddress[t] \in Nat /\ innerAddress[t] < n
    BY <2>2
  <2>13. \A t \in Tunnels : innerAddress'[t] < nextAddress'
    BY <2>4, <2>12
  <2>14. ASSUME NEW v \in NonTgppUes, ueContext'[v] # Nil, NEW a \in ueContext'[v].sessions
         PROVE  a < nextAddress' /\ \A t \in Tunnels : innerAddress'[t] # a
    <3>1. ueContext[v] # Nil
      BY <2>9, <2>14
    <3>2. CASE a \in ueContext[v].sessions
      BY <2>4, <2>11, <3>1, <3>2
    <3>3. CASE a = n
      BY <2>4, <2>12, <3>3
    <3> QED
      BY <2>10, <3>1, <3>2, <3>3
  <2>15. ASSUME NEW v \in NonTgppUes, NEW w \in NonTgppUes, v # w, ueContext'[v] # Nil, ueContext'[w] # Nil
         PROVE  ueContext'[v].sessions \cap ueContext'[w].sessions = {}
    <3>1. ueContext[v] # Nil /\ ueContext[w] # Nil /\ ueContext[v].sessions \cap ueContext[w].sessions = {}
          /\ n \notin ueContext[v].sessions /\ n \notin ueContext[w].sessions
      BY <2>9, <2>11, <2>15
    <3> QED
      BY <2>10, <2>15, <3>1
  <2>16. \A t \in ipsecTunnel' :
           t \in orphan' \/ \E v \in NonTgppUes : ueContext'[v] # Nil /\ ueContext'[v].tunnel = t
    BY <2>4, <2>9
  <2>17. \A v \in NonTgppUes : ranUeNgapId'[v] < nextNgapId' /\ (ranUeNgapId'[v] # 0 <=> ueContext'[v] # Nil)
    BY <2>4, <2>9
  <2>18. \A v \in amfUeNgapId' : ueContext'[v] # Nil
    BY <2>4, <2>9
  <2>19. nextAddress' \in Nat \ {0}
    BY <2>4
  <2> QED
    BY <2>4, <2>8, <2>13, <2>14, <2>15, <2>16, <2>17, <2>18, <2>19
<1>8. ASSUME NEW u \in NonTgppUes, DeregisterUe(u)
      PROVE  N3iwfIInv'
  <2> USE DEF N3iwfIInv
  <2>1. PICK c \in ContextRecords : c = ueContext[u] /\ c # Nil
    BY <1>1, <1>8 DEF DeregisterUe
  <2>2. /\ ueContext' = [ueContext EXCEPT ![u] = Nil] /\ ipsecTunnel' = ipsecTunnel \ {c.tunnel}
        /\ ranUeNgapId' = [ranUeNgapId EXCEPT ![u] = 0] /\ amfUeNgapId' = amfUeNgapId \ {u}
        /\ UNCHANGED <<innerAddress, orphan, nextNgapId, nextAddress>>
    BY <1>8, <2>1 DEF DeregisterUe
  <2>3. /\ ueContext' \in [NonTgppUes -> ContextRecords \cup {Nil}] /\ ueContext'[u] = Nil
        /\ \A v \in NonTgppUes : v # u => ueContext'[v] = ueContext[v]
    BY <2>2
  <2>4. /\ ranUeNgapId' \in [NonTgppUes -> Nat] /\ ranUeNgapId'[u] = 0
        /\ \A v \in NonTgppUes : v # u => ranUeNgapId'[v] = ranUeNgapId[v]
    BY <2>2
  <2>5. \A v \in NonTgppUes : ranUeNgapId'[v] < nextNgapId' /\ (ranUeNgapId'[v] # 0 <=> ueContext'[v] # Nil)
    BY <2>2, <2>3, <2>4
  <2>6. \A v, w \in NonTgppUes : ranUeNgapId'[v] = ranUeNgapId'[w] /\ ranUeNgapId'[v] # 0 => v = w
    BY <2>4
  <2>7. \A t \in ipsecTunnel' :
          t \in orphan' \/ \E v \in NonTgppUes : ueContext'[v] # Nil /\ ueContext'[v].tunnel = t
    BY <2>1, <2>2, <2>3
  <2>8. \A v \in NonTgppUes : ueContext'[v] # Nil => ueContext'[v] = ueContext[v] /\ ueContext[v] # Nil
    BY <2>3
  <2>9. \A v \in amfUeNgapId' : ueContext'[v] # Nil
    BY <2>2, <2>3
  <2>10. \A v \in NonTgppUes : ueContext'[v] # Nil => \A a \in ueContext'[v].sessions :
           a < nextAddress' /\ \A t \in Tunnels : innerAddress'[t] # a
    BY <2>2, <2>8
  <2>11. \A v, w \in NonTgppUes : v # w /\ ueContext'[v] # Nil /\ ueContext'[w] # Nil =>
           ueContext'[v].sessions \cap ueContext'[w].sessions = {}
    BY <2>8
  <2> QED
    BY <2>2, <2>3, <2>4, <2>5, <2>6, <2>7, <2>9, <2>10, <2>11
<1>9. ASSUME NEW t \in Tunnels, DeleteTunnel(t)
      PROVE  N3iwfIInv'
  BY <1>9 DEF N3iwfIInv, DeleteTunnel
<1> QED
  BY <1>2, <1>3, <1>4, <1>5, <1>6, <1>7, <1>8, <1>9 DEF N3iwfNext

\* The tables are those the addresses and ids need.
LEMMA N3iwfImplies == N3iwfIInv => N3iwfAgrees
<1> SUFFICES ASSUME N3iwfIInv  PROVE N3iwfAgrees
  OBVIOUS
<1> DEFINE Served == {u \in NonTgppUes : ueContext[u] # Nil}
<1> USE DEF N3iwfIInv
<1>1. \A t, o \in ipsecTunnel : innerAddress[t] = innerAddress[o] => t = o
  OBVIOUS
<1>2. ipsecTunnel \subseteq orphan \cup {ueContext[u].tunnel : u \in Served}
  OBVIOUS
<1>3. Served = {u \in NonTgppUes : ranUeNgapId[u] # 0} /\ amfUeNgapId \subseteq Served
  OBVIOUS
<1>4. \A u \in Served : ueContext[u].sessions \cap {innerAddress[t] : t \in ipsecTunnel} = {}
  OBVIOUS
<1>5. \A u \in Served : \A v \in Served \ {u} :
        ueContext[u].sessions \cap ueContext[v].sessions = {} /\ ranUeNgapId[u] # ranUeNgapId[v]
  OBVIOUS
<1> QED
  BY <1>1, <1>2, <1>3, <1>4, <1>5 DEF N3iwfAgrees

-----------------------------------------------------------------------------
(* The tables of the enhanced UPF.                                          *)

\* What is allocated, routed or enforced belongs to one session that is there.
UpfIInv ==
  /\ upfSession \in [Seids -> SessionRecords \cup {NoneHere}]
  /\ enforced \in [Seids \X QerIds -> Rates \cup {NoneHere}]
  /\ allocated \subseteq PoolV4 /\ leaked \subseteq allocated /\ gtpTunnel \subseteq GtpTunnels
  /\ \A s \in Seids : upfSession[s] # NoneHere =>
       /\ upfSession[s].addrs \subseteq allocated /\ upfSession[s].addrs \cap leaked = {}
       /\ upfSession[s].tunnels \subseteq gtpTunnel
  /\ \A a \in allocated : a \in leaked \/ \E s \in Seids : upfSession[s] # NoneHere /\ a \in upfSession[s].addrs
  /\ \A g \in gtpTunnel : \E s \in Seids : upfSession[s] # NoneHere /\ g \in upfSession[s].tunnels
  /\ \A s, t \in Seids : s # t /\ upfSession[s] # NoneHere /\ upfSession[t] # NoneHere =>
       /\ upfSession[s].addrs \cap upfSession[t].addrs = {}
       /\ upfSession[s].tunnels \cap upfSession[t].tunnels = {}
  /\ \A s \in Seids, q \in QerIds : upfSession[s] # NoneHere /\ q \in DOMAIN upfSession[s].rates =>
       /\ enforced[<<s, q>>] # NoneHere
       /\ <<s, q>> \in apart \/ enforced[<<s, q>>] = upfSession[s].rates[q]
  /\ \A s \in Seids, q \in QerIds :
       enforced[<<s, q>>] # NoneHere => upfSession[s] # NoneHere /\ q \in DOMAIN upfSession[s].rates

\* A set of numbers that is not empty has a least one, the one Min picks.
LEMMA NumbersHaveLeast ==
  ASSUME NEW S \in SUBSET Nat, S # {}
  PROVE  Min(S) \in S
BY NatLeast DEF Min

\* What is allocated is one free address of the pool, or none.
LEMMA AllocatedIsFree ==
  ASSUME NEW pool \in SUBSET Nat
  PROVE  AllocateFrom(pool) \subseteq pool \ allocated
<1>1. CASE pool \ allocated = {}
  BY <1>1 DEF AllocateFrom
<1>2. CASE pool \ allocated # {}
  <2>1. Min(pool \ allocated) \in pool \ allocated
    BY <1>2, NumbersHaveLeast
  <2> QED
    BY <2>1 DEF AllocateFrom
<1> QED
  BY <1>1, <1>2

\* A session's addresses are free ones of the pool.
LEMMA AddressesAreFree ==
  ASSUME NEW p
  PROVE  Addresses(p) \subseteq PoolV4 \ allocated
<1>1. PoolV4 \in SUBSET Nat
  BY UserPlaneAssumption
<1>2. AllocateFrom(PoolV4) \subseteq PoolV4 \ allocated
  BY <1>1, AllocatedIsFree
<1> QED
  BY <1>2 DEF Addresses

\* No session is there at the start.
LEMMA UpfInitInv == UpfeInit => UpfIInv
<1> SUFFICES ASSUME UpfeInit  PROVE UpfIInv
  OBVIOUS
<1>1. \A s \in Seids, q \in QerIds : enforced[<<s, q>>] = NoneHere
  BY DEF UpfeInit
<1> QED
  BY <1>1 DEF UpfeInit, UpfIInv

\* The tables and the sessions change together in every step.
LEMMA UpfNextInv == UpfIInv /\ [UpfeNext]_upfeVars => UpfIInv'
<1> SUFFICES ASSUME UpfIInv, [UpfeNext]_upfeVars  PROVE UpfIInv'
  OBVIOUS
<1> USE DEF UpfIInv
<1>1. NoneHere \notin SessionRecords /\ NoneHere \notin Rates
  BY UserPlaneAssumption
<1>2. CASE UNCHANGED upfeVars
  BY <1>2 DEF upfeVars
<1>3. ASSUME NEW s \in Seids, EstablishSession(s)
      PROVE  UpfIInv'
  <2> DEFINE Entered(rates) == [k \in Seids \X QerIds |->
                IF k[1] = s /\ k[2] \in DOMAIN rates THEN rates[k[2]] ELSE enforced[k]]
  <2>0. PICK p \in {"IPV4", "Ethernet"}, tunnels \in SUBSET (GtpTunnels \ gtpTunnel),
             rates \in UNION {[q -> Rates] : q \in SUBSET QerIds} :
           /\ upfSession' = [upfSession EXCEPT ![s] =
                [addrs |-> Addresses(p), tunnels |-> tunnels, rates |-> rates]]
           /\ allocated' = allocated \cup Addresses(p) /\ gtpTunnel' = gtpTunnel \cup tunnels
           /\ enforced' = Entered(rates)
    BY <1>3 DEF EstablishSession
  <2>1. PICK addrs :
           /\ addrs \subseteq PoolV4 \ allocated
           /\ upfSession' = [upfSession EXCEPT ![s] = [addrs |-> addrs, tunnels |-> tunnels, rates |-> rates]]
           /\ allocated' = allocated \cup addrs /\ gtpTunnel' = gtpTunnel \cup tunnels
           /\ enforced' = Entered(rates)
    BY <2>0, AddressesAreFree
  <2>2. upfSession[s] = NoneHere /\ UNCHANGED <<leaked, apart>>
    BY <1>3 DEF EstablishSession
  <2>3. PICK r : r = [addrs |-> addrs, tunnels |-> tunnels, rates |-> rates]
    OBVIOUS
  <2>4. /\ r \in SessionRecords /\ r # NoneHere
        /\ r.addrs = addrs /\ r.tunnels = tunnels /\ r.rates = rates
    BY <1>1, <2>1, <2>3 DEF SessionRecords
  <2>5. /\ upfSession'[s] = r /\ \A t \in Seids : t # s => upfSession'[t] = upfSession[t]
        /\ upfSession' \in [Seids -> SessionRecords \cup {NoneHere}]
    BY <2>1, <2>3, <2>4
  <2>6. \A t \in Seids, q \in QerIds :
          enforced'[<<t, q>>] = IF t = s /\ q \in DOMAIN rates THEN rates[q] ELSE enforced[<<t, q>>]
    BY <2>1
  <2>7. \A q \in DOMAIN rates : rates[q] \in Rates
    BY <2>1
  <2>8. enforced' \in [Seids \X QerIds -> Rates \cup {NoneHere}]
    BY <2>1, <2>7
  <2>11. /\ allocated' \subseteq PoolV4 /\ leaked' \subseteq allocated'
         /\ gtpTunnel' \subseteq GtpTunnels
    BY <2>1, <2>2
  <2>12. \A t \in Seids : upfSession'[t] # NoneHere =>
           /\ upfSession'[t].addrs \subseteq allocated' /\ upfSession'[t].addrs \cap leaked' = {}
           /\ upfSession'[t].tunnels \subseteq gtpTunnel'
    BY <2>1, <2>2, <2>4, <2>5
  <2>13. \A a \in allocated' : a \in leaked' \/ \E t \in Seids : upfSession'[t] # NoneHere /\ a \in upfSession'[t].addrs
    BY <2>1, <2>2, <2>4, <2>5
  <2>14. \A g \in gtpTunnel' : \E t \in Seids : upfSession'[t] # NoneHere /\ g \in upfSession'[t].tunnels
    BY <2>1, <2>2, <2>4, <2>5
  <2>15. \A t, u \in Seids : t # u /\ upfSession'[t] # NoneHere /\ upfSession'[u] # NoneHere =>
           /\ upfSession'[t].addrs \cap upfSession'[u].addrs = {}
           /\ upfSession'[t].tunnels \cap upfSession'[u].tunnels = {}
    BY <2>1, <2>2, <2>4, <2>5
  <2>16. /\ \A t \in Seids, q \in QerIds : upfSession'[t] # NoneHere /\ q \in DOMAIN upfSession'[t].rates =>
              /\ enforced'[<<t, q>>] # NoneHere
              /\ <<t, q>> \in apart' \/ enforced'[<<t, q>>] = upfSession'[t].rates[q]
         /\ \A t \in Seids, q \in QerIds :
              enforced'[<<t, q>>] # NoneHere => upfSession'[t] # NoneHere /\ q \in DOMAIN upfSession'[t].rates
    BY <1>1, <2>2, <2>4, <2>5, <2>6, <2>7
  <2> QED
    BY <2>2, <2>5, <2>8, <2>11, <2>12, <2>13, <2>14, <2>15, <2>16
<1>4. ASSUME NEW s \in Seids, DeleteSession(s)
      PROVE  UpfIInv'
  <2>1. PICK r \in SessionRecords : r = upfSession[s]
    BY <1>4 DEF DeleteSession
  <2>2. /\ upfSession' = [upfSession EXCEPT ![s] = NoneHere] /\ r # NoneHere
        /\ allocated' = allocated \ r.addrs /\ gtpTunnel' = gtpTunnel \ r.tunnels
        /\ enforced' = [k \in Seids \X QerIds |-> IF k[1] = s THEN NoneHere ELSE enforced[k]]
        /\ apart' = {k \in apart : k[1] # s} /\ leaked' = leaked
    BY <1>1, <1>4, <2>1 DEF DeleteSession
  <2>3. /\ upfSession'[s] = NoneHere /\ \A t \in Seids : t # s => upfSession'[t] = upfSession[t]
        /\ upfSession' \in [Seids -> SessionRecords \cup {NoneHere}]
    BY <2>2
  <2>4. \A t \in Seids, q \in QerIds : enforced'[<<t, q>>] = IF t = s THEN NoneHere ELSE enforced[<<t, q>>]
    BY <2>2
  <2>5. enforced' \in [Seids \X QerIds -> Rates \cup {NoneHere}]
    BY <2>2
  <2>6. leaked' \subseteq allocated' /\ allocated' \subseteq allocated /\ gtpTunnel' \subseteq gtpTunnel
    BY <2>1, <2>2
  <2>7. \A t \in Seids : upfSession'[t] # NoneHere =>
          /\ upfSession'[t].addrs \subseteq allocated' /\ upfSession'[t].addrs \cap leaked' = {}
          /\ upfSession'[t].tunnels \subseteq gtpTunnel'
    BY <2>1, <2>2, <2>3
  <2>8. \A a \in allocated' : a \in leaked' \/ \E t \in Seids : upfSession'[t] # NoneHere /\ a \in upfSession'[t].addrs
    BY <2>1, <2>2, <2>3
  <2>9. \A g \in gtpTunnel' : \E t \in Seids : upfSession'[t] # NoneHere /\ g \in upfSession'[t].tunnels
    BY <2>1, <2>2, <2>3
  <2>10. \A t, q : t # s /\ <<t, q>> \in apart => <<t, q>> \in apart'
    BY <2>2
  <2>11. /\ \A t \in Seids, q \in QerIds : upfSession'[t] # NoneHere /\ q \in DOMAIN upfSession'[t].rates =>
              /\ enforced'[<<t, q>>] # NoneHere
              /\ <<t, q>> \in apart' \/ enforced'[<<t, q>>] = upfSession'[t].rates[q]
         /\ \A t \in Seids, q \in QerIds :
              enforced'[<<t, q>>] # NoneHere => upfSession'[t] # NoneHere /\ q \in DOMAIN upfSession'[t].rates
    BY <2>3, <2>4, <2>10
  <2> QED
    BY <2>3, <2>5, <2>6, <2>7, <2>8, <2>9, <2>11
<1>5. ASSUME NEW s \in Seids, NEW q \in QerIds, NEW r \in Rates \cup {Malformed},
             NEW en \in Rates, NEW ap,
             upfSession[s] # NoneHere, q \in DOMAIN upfSession[s].rates,
             upfSession' = [upfSession EXCEPT ![s].rates[q] = r],
             enforced' = [enforced EXCEPT ![<<s, q>>] = en],
             apart' = IF ap THEN apart \cup {<<s, q>>} ELSE apart \ {<<s, q>>},
             ap \/ en = r,
             UNCHANGED <<allocated, gtpTunnel, leaked>>
      PROVE  UpfIInv'
  <2>1. PICK e \in SessionRecords : e = upfSession[s] /\ e # NoneHere /\ q \in DOMAIN e.rates
    BY <1>1, <1>5
  <2>2. PICK d : d = [e EXCEPT !.rates[q] = r]
    OBVIOUS
  <2>3. /\ d \in SessionRecords /\ d # NoneHere /\ d.addrs = e.addrs /\ d.tunnels = e.tunnels
        /\ DOMAIN d.rates = DOMAIN e.rates /\ d.rates[q] = r
        /\ \A p \in DOMAIN e.rates : p # q => d.rates[p] = e.rates[p]
    <3>1. PICK P \in SUBSET QerIds : e.rates \in [P -> Rates \cup {Malformed}]
      BY DEF SessionRecords
    <3>2. PICK f : f = [e.rates EXCEPT ![q] = r]
      OBVIOUS
    <3>3. f \in [P -> Rates \cup {Malformed}] /\ DOMAIN f = DOMAIN e.rates /\ f[q] = r
          /\ \A p \in DOMAIN e.rates : p # q => f[p] = e.rates[p]
      BY <2>1, <3>1, <3>2
    <3>4. d = [e EXCEPT !.rates = f]
      BY <2>2, <3>2
    <3>5. f \in UNION {[p -> Rates \cup {Malformed}] : p \in SUBSET QerIds}
      BY <3>3
    <3>6. d \in SessionRecords /\ d.addrs = e.addrs /\ d.tunnels = e.tunnels /\ d.rates = f
      BY <2>1, <3>4, <3>5 DEF SessionRecords
    <3> QED
      BY <1>1, <3>3, <3>6
  <2>4. upfSession' = [upfSession EXCEPT ![s] = d]
    BY <1>5, <2>1, <2>2
  <2>6. /\ upfSession'[s] = d /\ \A t \in Seids : t # s => upfSession'[t] = upfSession[t]
        /\ upfSession' \in [Seids -> SessionRecords \cup {NoneHere}]
    BY <2>3, <2>4
  <2>7. /\ <<s, q>> \in Seids \X QerIds /\ enforced'[<<s, q>>] = en
        /\ \A k \in Seids \X QerIds : k # <<s, q>> => enforced'[k] = enforced[k]
        /\ enforced' \in [Seids \X QerIds -> Rates \cup {NoneHere}]
    BY <1>5
  <2>8. /\ \A k \in Seids \X QerIds : k # <<s, q>> => (k \in apart => k \in apart')
        /\ ~ap \/ <<s, q>> \in apart'
    <3>1. CASE ap
      BY <1>5, <3>1
    <3>2. CASE ~ap
      BY <1>5, <3>2
    <3> QED
      BY <3>1, <3>2
  <2>9. \A t \in Seids : upfSession'[t] # NoneHere => upfSession[t] # NoneHere
          /\ upfSession'[t].addrs = upfSession[t].addrs /\ upfSession'[t].tunnels = upfSession[t].tunnels
    BY <2>1, <2>3, <2>6
  <2>10. \A t \in Seids : upfSession[t] # NoneHere => upfSession'[t] # NoneHere
    BY <2>3, <2>6
  <2>11. /\ \A t \in Seids, p \in QerIds : upfSession'[t] # NoneHere /\ p \in DOMAIN upfSession'[t].rates =>
              /\ enforced'[<<t, p>>] # NoneHere
              /\ <<t, p>> \in apart' \/ enforced'[<<t, p>>] = upfSession'[t].rates[p]
         /\ \A t \in Seids, p \in QerIds :
              enforced'[<<t, p>>] # NoneHere => upfSession'[t] # NoneHere /\ p \in DOMAIN upfSession'[t].rates
    <3>1. ASSUME NEW t \in Seids, NEW p \in QerIds, t # s
          PROVE  /\ <<t, p>> \in apart => <<t, p>> \in apart'
                 /\ enforced'[<<t, p>>] = enforced[<<t, p>>] /\ upfSession'[t] = upfSession[t]
      BY <2>6, <2>7, <2>8, <3>1
    <3>2. ASSUME NEW p \in QerIds, p # q
          PROVE  /\ <<s, p>> \in apart => <<s, p>> \in apart'
                 /\ enforced'[<<s, p>>] = enforced[<<s, p>>]
      BY <2>7, <2>8, <3>2
    <3>3. ASSUME NEW p \in QerIds
          PROVE  IF p \in DOMAIN d.rates
                 THEN /\ enforced'[<<s, p>>] # NoneHere
                      /\ <<s, p>> \in apart' \/ enforced'[<<s, p>>] = d.rates[p]
                 ELSE enforced'[<<s, p>>] = NoneHere
      <4>1. CASE p = q
        <5>1. enforced'[<<s, p>>] = en /\ d.rates[p] = r /\ p \in DOMAIN d.rates
          BY <2>1, <2>3, <2>7, <4>1
        <5>2. <<s, p>> \in apart' \/ en = r
          BY <1>5, <2>8, <4>1
        <5> QED
          BY <1>1, <5>1, <5>2
      <4>2. CASE p # q
        BY <2>1, <2>3, <3>2, <4>2
      <4> QED
        BY <4>1, <4>2
    <3> QED
      BY <2>3, <2>6, <3>1, <3>3
  <2>12. UNCHANGED <<allocated, gtpTunnel, leaked>>
    BY <1>5
  <2> QED
    BY <2>6, <2>7, <2>9, <2>10, <2>11, <2>12, SMTT(30)
<1>8. ASSUME NEW s \in Seids, NEW q \in QerIds, NEW r \in Rates, ModifySession(s, q, r)
      PROVE  UpfIInv'
  <2>1. upfSession[s] # NoneHere /\ q \in DOMAIN upfSession[s].rates
    BY <1>8 DEF ModifySession
  <2>2. enforced[<<s, q>>] # NoneHere
    BY <2>1
  <2>3. enforced' = [enforced EXCEPT ![<<s, q>>] = r]
    BY <1>8, <2>2 DEF ModifySession
  <2>4. /\ upfSession' = [upfSession EXCEPT ![s].rates[q] = r]
        /\ apart' = IF FALSE THEN apart \cup {<<s, q>>} ELSE apart \ {<<s, q>>}
        /\ UNCHANGED <<allocated, gtpTunnel, leaked>>
    BY <1>8 DEF ModifySession
  <2> QED
    BY <1>5, <2>1, <2>3, <2>4
<1>9. ASSUME NEW s \in Seids, NEW q \in QerIds, ModifySessionRaises(s, q)
      PROVE  UpfIInv'
  <2>1. upfSession[s] # NoneHere /\ q \in DOMAIN upfSession[s].rates
    BY <1>9 DEF ModifySessionRaises
  <2>2. PICK en \in Rates : en = enforced[<<s, q>>]
    BY <2>1
  <2>3. enforced' = [enforced EXCEPT ![<<s, q>>] = en]
    BY <1>9, <2>2 DEF ModifySessionRaises
  <2>4. /\ upfSession' = [upfSession EXCEPT ![s].rates[q] = Malformed]
        /\ apart' = IF TRUE THEN apart \cup {<<s, q>>} ELSE apart \ {<<s, q>>}
        /\ UNCHANGED <<allocated, gtpTunnel, leaked>>
    BY <1>9 DEF ModifySessionRaises
  <2> QED
    BY <1>5, <2>1, <2>3, <2>4
<1>6. ASSUME NEW s \in Seids, NEW q \in QerIds, NEW r \in Rates, UpdateQos(s, q, r)
      PROVE  UpfIInv'
  <2>1. /\ enforced[<<s, q>>] # NoneHere /\ enforced' = [enforced EXCEPT ![<<s, q>>] = r]
        /\ apart' = apart \cup {<<s, q>>} /\ <<s, q>> \in Seids \X QerIds
        /\ UNCHANGED <<upfSession, allocated, gtpTunnel, leaked>>
    BY <1>6 DEF UpdateQos
  <2>2. /\ enforced'[<<s, q>>] = r /\ \A k \in Seids \X QerIds : k # <<s, q>> => enforced'[k] = enforced[k]
        /\ enforced' \in [Seids \X QerIds -> Rates \cup {NoneHere}]
    BY <2>1
  <2>4. /\ \A t \in Seids, p \in QerIds : upfSession[t] # NoneHere /\ p \in DOMAIN upfSession[t].rates =>
             /\ enforced'[<<t, p>>] # NoneHere
             /\ <<t, p>> \in apart' \/ enforced'[<<t, p>>] = upfSession[t].rates[p]
        /\ \A t \in Seids, p \in QerIds :
             enforced'[<<t, p>>] # NoneHere => upfSession[t] # NoneHere /\ p \in DOMAIN upfSession[t].rates
    <3>1. ASSUME NEW t \in Seids, NEW p \in QerIds, <<t, p>> # <<s, q>>
          PROVE  enforced'[<<t, p>>] = enforced[<<t, p>>] /\ (<<t, p>> \in apart => <<t, p>> \in apart')
      BY <2>1, <2>2, <3>1
    <3>2. ASSUME NEW t \in Seids, NEW p \in QerIds, <<t, p>> = <<s, q>>
          PROVE  <<t, p>> \in apart' /\ enforced'[<<t, p>>] # NoneHere /\ upfSession[t] # NoneHere /\ p \in DOMAIN upfSession[t].rates
      BY <1>1, <2>1, <2>2, <3>2
    <3> QED
      BY <3>1, <3>2
  <2> QED
    BY <2>1, <2>2, <2>4
<1>7. ASSUME NEW p, AskForIpv6(p)
      PROVE  UpfIInv'
  <2>1. CASE /\ allocated' = allocated \cup Addresses(p)
             /\ leaked' = leaked \cup Addresses(p)
             /\ UNCHANGED <<upfSession, gtpTunnel, enforced, apart>>
    <3>1. PICK given \in SUBSET (PoolV4 \ allocated) :
            allocated' = allocated \cup given /\ leaked' = leaked \cup given
      BY <2>1, AddressesAreFree
    <3>2. \A s \in Seids : upfSession[s] # NoneHere => upfSession[s].addrs \cap leaked' = {}
      BY <3>1
    <3> QED
      BY <2>1, <3>1, <3>2
  <2>2. CASE UpfeInit'
    <3>1. \A s \in Seids, q \in QerIds : enforced'[<<s, q>>] = NoneHere
      BY <2>2 DEF UpfeInit
    <3> QED
      BY <2>2, <3>1 DEF UpfeInit
  <2> QED
    BY <1>7, <2>1, <2>2 DEF AskForIpv6, UpfeInit
<1> QED
  BY <1>2, <1>3, <1>4, <1>6, <1>7, <1>8, <1>9 DEF UpfeNext

\* What the tables hold is what the sessions own.
LEMMA UpfImplies == UpfIInv => UpfTablesAgree
<1> SUFFICES ASSUME UpfIInv  PROVE UpfTablesAgree
  OBVIOUS
<1> DEFINE live == {s \in Seids : upfSession[s] # NoneHere}
<1> USE DEF UpfIInv
<1>1. allocated = leaked \cup UNION {upfSession[s].addrs : s \in live}
  OBVIOUS
<1>2. gtpTunnel = UNION {upfSession[s].tunnels : s \in live}
  OBVIOUS
<1>3. ASSUME NEW k \in Seids \X QerIds
      PROVE  IF k[1] \in live /\ k[2] \in DOMAIN upfSession[k[1]].rates
             THEN /\ enforced[k] \in Rates
                  /\ k \in apart \/ enforced[k] = upfSession[k[1]].rates[k[2]]
             ELSE enforced[k] = NoneHere
  <2>1. PICK s \in Seids, q \in QerIds : k = <<s, q>>
    OBVIOUS
  <2> QED
    BY <2>1
<1> QED
  BY <1>1, <1>2, <1>3 DEF UpfTablesAgree

-----------------------------------------------------------------------------
(* PFCP exchanges.                                                          *)

\* Sequence numbers go on from the first, a key's future is that of a call under way.
PfcpIInv ==
  /\ seqNumber \in Nat /\ FirstSeq <= seqNumber
  /\ exchange \in [Exchanges -> ExchangeRecords \cup {NoneHere}]
  /\ pending \in [PfcpKeys -> Exchanges \cup {NoneHere}]
  /\ network \subseteq Datagrams
  /\ \A k \in PfcpKeys : pending[k] # NoneHere => exchange[pending[k]] # NoneHere
  /\ PendingIsAwaited

\* No call is made at the start.
LEMMA PfcpInitInv == PfcpInit => PfcpIInv
<1> SUFFICES ASSUME PfcpInit  PROVE PfcpIInv
  OBVIOUS
<1>1. seqNumber \in Nat /\ FirstSeq <= seqNumber
  BY UserPlaneAssumption DEF PfcpInit
<1> QED
  BY <1>1 DEF PfcpInit, PfcpIInv, PendingIsAwaited

\* A call's number has a key.
LEMMA SeqHasKey ==
  ASSUME NEW n \in FirstSeq .. MaxSeq
  PROVE  PfcpKey(n) \in PfcpKeys
  BY DEF PfcpKeys

\* A future in the table is one its call still waits for, after every step.
LEMMA PfcpNextInv == PfcpIInv /\ [PfcpNext]_pfcpVars => PfcpIInv'
<1> SUFFICES ASSUME PfcpIInv, [PfcpNext]_pfcpVars  PROVE PfcpIInv'
  OBVIOUS
<1> USE DEF PfcpIInv, PendingIsAwaited
<1>1. /\ FirstSeq \in Nat /\ MaxSeq \in Nat
      /\ NoneHere \notin Exchanges /\ NoneHere \notin ExchangeRecords /\ NoneHere \notin Datagrams
  BY UserPlaneAssumption
<1>2. CASE UNCHANGED pfcpVars
  BY <1>2 DEF pfcpVars
<1>3. ASSUME NEW c \in Exchanges, SendAndWait(c)
      PROVE  PfcpIInv'
  <2>1. PICK n \in FirstSeq .. MaxSeq : n = seqNumber' /\ n \in ExchangeSeqs
    BY <1>1, <1>3 DEF SendAndWait, ExchangeSeqs
  <2>2. PICK e : e = [seq |-> n, state |-> "waiting", result |-> NoneHere]
    OBVIOUS
  <2>3. e \in ExchangeRecords /\ e # NoneHere /\ e.state = "waiting" /\ e.seq = n
    BY <1>1, <2>1, <2>2 DEF ExchangeRecords
  <2>4. PICK k \in PfcpKeys : k = PfcpKey(n)
    BY SeqHasKey
  <2>5. /\ exchange[c] = NoneHere /\ exchange' = [exchange EXCEPT ![c] = e]
        /\ pending' = [pending EXCEPT ![k] = c]
        /\ network' \in {network, network \cup {[kind |-> "answer", seq |-> n]}}
    BY <1>3, <2>1, <2>2, <2>4 DEF SendAndWait
  <2>6. network' \subseteq Datagrams
    <3>1. [kind |-> "answer", seq |-> n] \in Datagrams
      BY <2>1 DEF Datagrams
    <3> QED
      BY <2>5, <3>1
  <2>7. exchange' \in [Exchanges -> ExchangeRecords \cup {NoneHere}]
        /\ pending' \in [PfcpKeys -> Exchanges \cup {NoneHere}]
    BY <2>3, <2>5
  <2>8. ASSUME NEW j \in PfcpKeys, pending'[j] # NoneHere
        PROVE  /\ exchange'[pending'[j]] # NoneHere
               /\ exchange'[pending'[j]].state \in {"waiting", "resolved"}
               /\ PfcpKey(exchange'[pending'[j]].seq) = j
    <3>1. CASE j = k
      <4>1. pending'[j] = c /\ exchange'[c] = e
        BY <2>5, <3>1
      <4> QED
        BY <2>3, <2>4, <3>1, <4>1
    <3>2. CASE j # k
      <4>1. pending'[j] = pending[j] /\ pending[j] \in Exchanges /\ exchange[pending[j]] # NoneHere
        BY <1>1, <2>5, <2>8, <3>2
      <4>2. exchange'[pending[j]] = exchange[pending[j]]
        BY <2>5, <4>1
      <4> QED
        BY <2>8, <4>1, <4>2
    <3> QED
      BY <3>1, <3>2
  <2> QED
    BY <1>1, <2>1, <2>6, <2>7, <2>8
<1>4. ASSUME NEW c \in Exchanges, CallReturns(c)
      PROVE  PfcpIInv'
  <2>1. PICK e \in ExchangeRecords : e = exchange[c]
    BY <1>4 DEF CallReturns
  <2>2. PICK d : d = [e EXCEPT !.state = "done"]
    OBVIOUS
  <2>3. d \in ExchangeRecords /\ d # NoneHere /\ d.state = "done" /\ d.seq = e.seq
    BY <1>1, <2>2 DEF ExchangeRecords
  <2>4. /\ exchange' = [exchange EXCEPT ![c] = d]
        /\ pending' = [pending EXCEPT ![PfcpKey(e.seq)] = NoneHere]
        /\ UNCHANGED <<seqNumber, network>>
    BY <1>4, <2>1, <2>2 DEF CallReturns
  <2>5. exchange' \in [Exchanges -> ExchangeRecords \cup {NoneHere}]
        /\ pending' \in [PfcpKeys -> Exchanges \cup {NoneHere}]
    BY <2>3, <2>4
  <2>6. ASSUME NEW j \in PfcpKeys, pending'[j] # NoneHere
        PROVE  /\ exchange'[pending'[j]] # NoneHere
               /\ exchange'[pending'[j]].state \in {"waiting", "resolved"}
               /\ PfcpKey(exchange'[pending'[j]].seq) = j
    <3>1. j # PfcpKey(e.seq) /\ pending'[j] = pending[j] /\ pending[j] \in Exchanges
      BY <1>1, <2>4, <2>6
    <3>2. pending[j] # c
      BY <2>1, <2>6, <3>1
    <3>3. exchange'[pending[j]] = exchange[pending[j]]
      BY <2>4, <3>1, <3>2
    <3> QED
      BY <2>6, <3>1, <3>3
  <2> QED
    BY <2>4, <2>5, <2>6
<1>5. ASSUME NEW n \in ExchangeSeqs, PeerRequests(n)
      PROVE  PfcpIInv'
  <2>1. [kind |-> "request", seq |-> n] \in Datagrams
    BY DEF Datagrams
  <2> QED
    BY <1>5, <2>1 DEF PeerRequests
<1>6. ASSUME NEW m \in network, HandleMessage(m)
      PROVE  PfcpIInv'
  <2>1. network' \subseteq Datagrams /\ UNCHANGED <<seqNumber, pending>> /\ m \in Datagrams
    BY <1>6 DEF HandleMessage
  <2>2. PICK c : c = pending[PfcpKey(m.seq)]
    OBVIOUS
  <2>3. m.seq \in FirstSeq .. MaxSeq
    BY <1>1, <2>1 DEF Datagrams, ExchangeSeqs
  <2>4. c \in Exchanges \cup {NoneHere} /\ (c # NoneHere => exchange[c] # NoneHere)
    BY <2>2, <2>3, SeqHasKey
  <2>5. CASE exchange' = exchange
    BY <2>1, <2>5
  <2>6. CASE c # NoneHere /\ exchange' = [exchange EXCEPT ![c].state = "resolved", ![c].result = m]
    <3>1. PICK e \in ExchangeRecords : e = exchange[c] /\ c \in Exchanges
      BY <2>4, <2>6
    <3>2. PICK d : d = [e EXCEPT !.state = "resolved", !.result = m]
      OBVIOUS
    <3>3. d \in ExchangeRecords /\ d # NoneHere /\ d.state = "resolved" /\ d.seq = e.seq
      BY <1>1, <2>1, <3>2 DEF ExchangeRecords
    <3>4. exchange' = [exchange EXCEPT ![c] = d]
      BY <2>6, <3>1, <3>2
    <3>5. exchange' \in [Exchanges -> ExchangeRecords \cup {NoneHere}]
      BY <3>3, <3>4
    <3>6. ASSUME NEW j \in PfcpKeys, pending[j] # NoneHere
          PROVE  /\ exchange'[pending[j]] # NoneHere
                 /\ exchange'[pending[j]].state \in {"waiting", "resolved"}
                 /\ PfcpKey(exchange'[pending[j]].seq) = j
      <4>1. pending[j] \in Exchanges
        BY <3>6
      <4>2. CASE pending[j] = c
        BY <3>1, <3>3, <3>4, <3>6, <4>2
      <4>3. CASE pending[j] # c
        BY <3>4, <3>6, <4>1, <4>3
      <4> QED
        BY <4>2, <4>3
    <3> QED
      BY <2>1, <3>5, <3>6
  <2> QED
    BY <1>6, <2>2, <2>5, <2>6 DEF HandleMessage
<1> QED
  BY <1>2, <1>3, <1>4, <1>5, <1>6 DEF PfcpNext

-----------------------------------------------------------------------------
(* NGAP over its two transports.                                            *)

\* A frame goes over the wire as its header and its body.
Parts == {"header", "body"} \X Nat

\* Where a part stands in what a connection carries: header and body in turn.
PositionOf(part) == 2 * part[2] - (IF part[1] = "header" THEN 1 ELSE 0)

\* The parts read, given the frames that are whole and what is awaited.
PartsRead(frames, part) == 2 * Len(frames) + (IF part = "body" THEN 1 ELSE 0)

\* What is on the wire follows the k parts read, up to the last frame sent or a break.
OnWire(state, k, w, count) ==
  /\ \A i \in 1 .. Len(w) : PositionOf(w[i]) = k + i
  /\ k + Len(w) <= 2 * count
  /\ state \in {"open", "illegal", "refused"} => k + Len(w) = 2 * count

\* The connections with their types, for the server and for the fallback.
TransportTypes ==
  /\ conn \in [Conns -> {"idle", "open", "illegal", "broken", "closed", "refused"}]
  /\ wire \in [Conns -> Seq(Parts)] /\ framesSent \in [Conns -> Nat]

\* Where the server is on the connection c.
ServerFollows(c) ==
  /\ OnWire(conn[c], PartsRead(handled[c], reading[c]), wire[c], framesSent[c])
  /\ \A i \in 1 .. Len(handled[c]) : handled[c][i] = i
  /\ conn[c] = "idle" => framesSent[c] = 0 /\ reading[c] = "none" /\ handled[c] = <<>> /\ wire[c] = <<>>
  /\ conn[c] = "refused" => wire[c] = <<>>

\* The server keeps in step with each connection.
NgapIInv ==
  /\ TransportTypes
  /\ reading \in [Conns -> {"none", "header", "body"}] /\ handled \in [Conns -> Seq(Nat)]
  /\ \A c \in Conns : ServerFollows(c)

\* The connections that were ever made.
UsedConns == {c \in Conns : conn[c] # "idle"}

\* Where the fallback is as long as c is its one connection.
FallbackFollows(c) ==
  /\ OnWire(conn[c], PartsRead(received, awaited[1]), wire[c], framesSent[c])
  /\ \A i \in 1 .. Len(received) : received[i] = <<c, <<"body", i>>>>

\* The fallback keeps in step with a connection that is its only one.
FallbackIInv ==
  /\ TransportTypes
  /\ current \in UsedConns \cup {NoneHere} /\ (current = NoneHere => UsedConns = {})
  /\ \A c \in Conns : conn[c] = "idle" => framesSent[c] = 0 /\ wire[c] = <<>>
  /\ \/ awaited = <<"idle", NoneHere>>
     \/ \E c \in UsedConns : awaited = <<"header", c>>
     \/ \E c, e \in UsedConns : awaited = <<"body", c, e>>
  /\ received \in Seq(Conns \X Parts)
  /\ UsedConns = {} => awaited = <<"idle", NoneHere>> /\ received = <<>>
  /\ \A c \in Conns : UsedConns = {c} => FallbackFollows(c)

\* A frame sent puts its two parts at the end.
LEMMA OnWireSent ==
  ASSUME NEW k \in Nat, NEW w \in Seq(Parts), NEW count \in Nat, OnWire("open", k, w, count)
  PROVE  /\ w \o << <<"header", count + 1>>, <<"body", count + 1>> >> \in Seq(Parts)
         /\ OnWire("open", k, w \o << <<"header", count + 1>>, <<"body", count + 1>> >>, count + 1)
<1>1. PICK h, b : h = <<"header", count + 1>> /\ b = <<"body", count + 1>>
  OBVIOUS
<1>2. PositionOf(h) = 2 * count + 1 /\ PositionOf(b) = 2 * count + 2
  BY <1>1 DEF PositionOf
<1>3. PICK len \in Nat : len = Len(w) /\ k + len = 2 * count /\ h \in Parts /\ b \in Parts
  BY <1>1 DEF OnWire, Parts
<1>4. PICK v : v = w \o <<h, b>>
  OBVIOUS
<1>5. /\ v \in Seq(Parts) /\ Len(v) = len + 2 /\ v[len + 1] = h /\ v[len + 2] = b
      /\ \A i \in 1 .. len : v[i] = w[i]
  BY <1>3, <1>4
<1>6. ASSUME NEW i \in 1 .. len + 2  PROVE PositionOf(v[i]) = k + i
  <2>1. CASE i \in 1 .. len
    BY <1>3, <1>5, <2>1 DEF OnWire
  <2>2. CASE i = len + 1
    BY <1>2, <1>3, <1>5, <2>2
  <2>3. CASE i = len + 2
    BY <1>2, <1>3, <1>5, <2>3
  <2> QED
    BY <1>3, <2>1, <2>2, <2>3
<1>7. OnWire("open", k, v, count + 1)
  BY <1>3, <1>5, <1>6, SMTT(30) DEF OnWire
<1> QED
  BY <1>1, <1>4, <1>5, <1>7

\* The part read is the next one.
LEMMA OnWireRead ==
  ASSUME NEW state, NEW k \in Nat, NEW w \in Seq(Parts), NEW count \in Nat,
         OnWire(state, k, w, count), w # <<>>
  PROVE  /\ Tail(w) \in Seq(Parts) /\ OnWire(state, k + 1, Tail(w), count)
         /\ Head(w) \in Parts /\ PositionOf(Head(w)) = k + 1
<1>1. PICK len \in Nat : len = Len(w) /\ len > 0
  OBVIOUS
<1>2. PICK v : v = Tail(w)
  OBVIOUS
<1>3. /\ v \in Seq(Parts) /\ Len(v) = len - 1 /\ \A i \in 1 .. len - 1 : v[i] = w[i + 1]
      /\ Head(w) = w[1] /\ w[1] \in Parts
  BY <1>1, <1>2
<1>4. ASSUME NEW i \in 1 .. len - 1  PROVE PositionOf(v[i]) = k + 1 + i
  <2>1. i + 1 \in 1 .. len /\ k + (i + 1) = k + 1 + i
    BY <1>1
  <2> QED
    BY <1>1, <1>3, <2>1 DEF OnWire
<1>5. PositionOf(w[1]) = k + 1
  BY <1>1 DEF OnWire
<1>6. OnWire(state, k + 1, v, count)
  BY <1>1, <1>3, <1>4 DEF OnWire
<1> QED
  BY <1>2, <1>3, <1>5, <1>6

\* A break leaves a beginning of what was on the wire.
LEMMA OnWireBroken ==
  ASSUME NEW state, NEW k \in Nat, NEW w \in Seq(Parts), NEW count \in Nat,
         OnWire(state, k, w, count), NEW n \in 0 .. Len(w)
  PROVE  SubSeq(w, 1, n) \in Seq(Parts) /\ OnWire("broken", k, SubSeq(w, 1, n), count)
<1>1. PICK len \in Nat : len = Len(w)
  OBVIOUS
<1>2. PICK v : v = SubSeq(w, 1, n)
  OBVIOUS
<1>3. v \in Seq(Parts) /\ Len(v) = n /\ \A i \in 1 .. n : v[i] = w[i] /\ i \in 1 .. len
  BY <1>1, <1>2
<1>4. OnWire("broken", k, v, count)
  BY <1>1, <1>3 DEF OnWire
<1> QED
  BY <1>2, <1>3, <1>4

\* The parts read are counted.
LEMMA PartsReadCounted ==
  ASSUME NEW S, NEW frames \in Seq(S), NEW part
  PROVE  PartsRead(frames, part) \in Nat
  BY DEF PartsRead

\* No connection is there at the start.
LEMMA NgapInitInv == NgapInit => NgapIInv
<1> SUFFICES ASSUME NgapInit  PROVE NgapIInv
  OBVIOUS
<1>1. Len(<<>>) = 0
  OBVIOUS
<1>2. PartsRead(<<>>, "none") = 0
  BY <1>1 DEF PartsRead
<1>3. OnWire("idle", 0, <<>>, 0)
  BY <1>1 DEF OnWire
<1>4. ASSUME NEW c \in Conns  PROVE ServerFollows(c)
  BY <1>1, <1>2, <1>3 DEF NgapInit, ServerFollows
<1>5. TransportTypes /\ reading \in [Conns -> {"none", "header", "body"}] /\ handled \in [Conns -> Seq(Nat)]
  BY DEF NgapInit, TransportTypes
<1> QED
  BY <1>4, <1>5 DEF NgapIInv

\* A connection that a step leaves alone is where it was.
LEMMA ServerUnmoved ==
  ASSUME NEW c \in Conns, ServerFollows(c), conn'[c] = conn[c], wire'[c] = wire[c],
         framesSent'[c] = framesSent[c], reading'[c] = reading[c], handled'[c] = handled[c]
  PROVE  ServerFollows(c)'
  BY DEF ServerFollows

\* A part of the frame being read is taken off the wire.
LEMMA ServerReadsNext ==
  ASSUME NgapIInv, NEW c \in Conns, ServerReads(c)
  PROVE  NgapIInv'
<1>1. /\ TransportTypes /\ reading \in [Conns -> {"none", "header", "body"}]
      /\ handled \in [Conns -> Seq(Nat)] /\ \A e \in Conns : ServerFollows(e)
  BY DEF NgapIInv
<1>2. PICK w, h, s, count : /\ w = wire[c] /\ h = handled[c] /\ s = conn[c] /\ count = framesSent[c]
                            /\ w \in Seq(Parts) /\ h \in Seq(Nat) /\ count \in Nat
  <2>1. wire[c] \in Seq(Parts) /\ handled[c] \in Seq(Nat) /\ framesSent[c] \in Nat
    BY <1>1 DEF TransportTypes
  <2> QED
    BY <2>1
<1>3. PICK len \in Nat : len = Len(h)
  BY <1>2
<1>4. OnWire(s, PartsRead(h, reading[c]), w, count) /\ \A i \in 1 .. len : h[i] = i
  BY <1>1, <1>2, <1>3 DEF ServerFollows
<1>5. /\ w # <<>> /\ Head(w)[1] = reading[c] /\ reading[c] \in {"header", "body"}
      /\ wire' = [wire EXCEPT ![c] = Tail(w)] /\ UNCHANGED <<conn, framesSent>>
  BY <1>2 DEF ServerReads, ReadPart
<1>6. /\ \A e \in Conns : e # c => wire'[e] = wire[e]
      /\ wire'[c] = Tail(w)
  BY <1>1, <1>5 DEF TransportTypes
<1>7. s # "idle" /\ s # "refused"
  BY <1>1, <1>2, <1>5 DEF ServerFollows
<1>8. CASE reading[c] = "header"
  <2>1. reading' = [reading EXCEPT ![c] = "body"] /\ handled' = handled
    BY <1>8 DEF ServerReads, ReadPart
  <2>2. PartsRead(h, "header") = 2 * len /\ PartsRead(h, "body") = 2 * len + 1
    BY <1>3 DEF PartsRead
  <2>3. Tail(w) \in Seq(Parts) /\ OnWire(s, 2 * len + 1, Tail(w), count)
    BY <1>2, <1>3, <1>4, <1>5, <1>8, <2>2, OnWireRead
  <2>4. reading' \in [Conns -> {"none", "header", "body"}] /\ reading'[c] = "body"
        /\ \A e \in Conns : e # c => reading'[e] = reading[e]
    BY <1>1, <2>1
  <2>5. TransportTypes'
    BY <1>1, <1>5, <2>3 DEF TransportTypes
  <2>6. ServerFollows(c)'
    BY <1>2, <1>3, <1>4, <1>5, <1>6, <1>7, <2>1, <2>2, <2>3, <2>4 DEF ServerFollows
  <2>7. ASSUME NEW e \in Conns  PROVE ServerFollows(e)'
    <3>1. CASE e = c
      BY <2>6, <3>1
    <3>2. CASE e # c
      BY <1>1, <1>5, <1>6, <2>1, <2>4, <3>2, ServerUnmoved
    <3> QED
      BY <3>1, <3>2
  <2> QED
    BY <1>1, <2>1, <2>4, <2>5, <2>7 DEF NgapIInv
<1>9. CASE reading[c] = "body"
  <2>1. PICK n : n = Head(w)[2]
    OBVIOUS
  <2>2. reading' = [reading EXCEPT ![c] = "header"] /\ handled' = [handled EXCEPT ![c] = Append(h, n)]
    BY <1>2, <1>9, <2>1 DEF ServerReads, ReadPart
  <2>3. PartsRead(h, "body") = 2 * len + 1
    BY <1>3 DEF PartsRead
  <2>4. /\ Tail(w) \in Seq(Parts) /\ OnWire(s, 2 * len + 2, Tail(w), count)
        /\ Head(w) \in Parts /\ PositionOf(Head(w)) = 2 * len + 2
    <3>1. PICK k \in Nat : k = 2 * len + 1 /\ k + 1 = 2 * len + 2
      BY <1>3
    <3>2. OnWire(s, k, w, count)
      BY <1>4, <1>9, <2>3, <3>1
    <3>3. w \in Seq(Parts) /\ count \in Nat /\ w # <<>>
      BY <1>2, <1>5
    <3>4. /\ Tail(w) \in Seq(Parts) /\ OnWire(s, k + 1, Tail(w), count)
          /\ Head(w) \in Parts /\ PositionOf(Head(w)) = k + 1
      BY <3>2, <3>3, OnWireRead
    <3> QED
      BY <3>1, <3>4
  <2>5. n \in Nat /\ n = len + 1
    <3>1. n \in Nat /\ Head(w)[1] = "body"
      BY <1>5, <1>9, <2>1, <2>4 DEF Parts
    <3>2. PositionOf(Head(w)) = 2 * n
      BY <2>1, <3>1 DEF PositionOf
    <3> QED
      BY <1>3, <2>4, <3>1, <3>2
  <2>6. PICK g : g = Append(h, n)
    OBVIOUS
  <2>7. /\ g \in Seq(Nat) /\ Len(g) = len + 1 /\ g[len + 1] = n /\ \A i \in 1 .. len : g[i] = h[i]
        /\ \A i \in 1 .. len + 1 : i \in 1 .. len \/ i = len + 1
    BY <1>2, <1>3, <2>5, <2>6
  <2>8. PartsRead(g, "header") = 2 * len + 2 /\ \A i \in 1 .. len + 1 : g[i] = i
    BY <1>3, <1>4, <2>5, <2>7 DEF PartsRead
  <2>9. /\ reading' \in [Conns -> {"none", "header", "body"}] /\ reading'[c] = "header"
        /\ handled' \in [Conns -> Seq(Nat)] /\ handled'[c] = g
        /\ \A e \in Conns : e # c => reading'[e] = reading[e] /\ handled'[e] = handled[e]
    BY <1>1, <2>2, <2>6, <2>7
  <2>10. TransportTypes'
    BY <1>1, <1>5, <2>4 DEF TransportTypes
  <2>11. ServerFollows(c)'
    BY <1>2, <1>5, <1>6, <1>7, <2>4, <2>7, <2>8, <2>9 DEF ServerFollows
  <2>12. ASSUME NEW e \in Conns  PROVE ServerFollows(e)'
    <3>1. CASE e = c
      BY <2>11, <3>1
    <3>2. CASE e # c
      BY <1>1, <1>5, <1>6, <2>9, <3>2, ServerUnmoved
    <3> QED
      BY <3>1, <3>2
  <2> QED
    BY <2>9, <2>10, <2>12 DEF NgapIInv
<1> QED
  BY <1>5, <1>8, <1>9

\* The server reads in step with what each peer sends, until the connection breaks.
LEMMA NgapNextInv == NgapIInv /\ [NgapNext]_ngapVars => NgapIInv'
<1> SUFFICES ASSUME NgapIInv, [NgapNext]_ngapVars  PROVE NgapIInv'
  OBVIOUS
<1>1. /\ TransportTypes /\ reading \in [Conns -> {"none", "header", "body"}]
      /\ handled \in [Conns -> Seq(Nat)] /\ \A e \in Conns : ServerFollows(e)
  BY DEF NgapIInv
<1>2. CASE UNCHANGED <<conn, wire, framesSent, reading, handled>>
  BY <1>2 DEF NgapIInv, TransportTypes, ServerFollows
<1>3. ASSUME NEW c \in Conns, Accept(c)
      PROVE  NgapIInv'
  <2>1. /\ conn[c] = "idle" /\ conn' = [conn EXCEPT ![c] = "open"]
        /\ reading' = [reading EXCEPT ![c] = "header"] /\ UNCHANGED <<wire, framesSent, handled>>
    BY <1>3 DEF Accept
  <2>2. conn'[c] = "open" /\ reading'[c] = "header" /\ TransportTypes'
        /\ reading' \in [Conns -> {"none", "header", "body"}]
        /\ \A e \in Conns : e # c => conn'[e] = conn[e] /\ reading'[e] = reading[e]
    BY <1>1, <2>1 DEF TransportTypes
  <2>3. framesSent[c] = 0 /\ handled[c] = <<>> /\ wire[c] = <<>>
    BY <1>1, <2>1 DEF ServerFollows
  <2>4. ServerFollows(c)'
    <3>1. PartsRead(<<>>, "header") = 0 /\ OnWire("open", 0, <<>>, 0)
      BY DEF PartsRead, OnWire
    <3> QED
      BY <1>1, <2>1, <2>2, <2>3, <3>1 DEF ServerFollows
  <2>5. ASSUME NEW e \in Conns  PROVE ServerFollows(e)'
    <3>1. CASE e = c
      BY <2>4, <3>1
    <3>2. CASE e # c
      BY <1>1, <2>1, <2>2, <3>2, ServerUnmoved
    <3> QED
      BY <3>1, <3>2
  <2> QED
    BY <1>1, <2>1, <2>2, <2>5 DEF NgapIInv
<1>4. ASSUME NEW c \in Conns, PeerSends(c)
      PROVE  NgapIInv'
  <2>1. PICK n \in Nat, w \in Seq(Parts) : n = framesSent[c] /\ w = wire[c]
    BY <1>1 DEF TransportTypes
  <2>2. PICK v : v = w \o << <<"header", n + 1>>, <<"body", n + 1>> >>
    OBVIOUS
  <2>3. /\ conn[c] = "open" /\ framesSent' = [framesSent EXCEPT ![c] = n + 1]
        /\ UNCHANGED <<conn, reading, handled>>
    BY <1>4, <2>1 DEF PeerSends
  <2>4. framesSent'[c] = n + 1 /\ \A e \in Conns : e # c => framesSent'[e] = framesSent[e]
    BY <1>1, <2>3 DEF TransportTypes
  <2>5. wire' = [wire EXCEPT ![c] = v]
    BY <1>4, <2>1, <2>2, <2>4 DEF PeerSends
  <2>6. PICK k \in Nat : k = PartsRead(handled[c], reading[c])
    BY <1>1, PartsReadCounted
  <2>7. v \in Seq(Parts) /\ OnWire("open", k, v, n + 1)
    BY <1>1, <2>1, <2>2, <2>3, <2>6, OnWireSent DEF ServerFollows
  <2>8. TransportTypes' /\ wire'[c] = v /\ \A e \in Conns : e # c => wire'[e] = wire[e]
    BY <1>1, <2>1, <2>3, <2>5, <2>7 DEF TransportTypes
  <2>9. ServerFollows(c)'
    BY <1>1, <2>3, <2>4, <2>6, <2>7, <2>8 DEF ServerFollows
  <2>10. ASSUME NEW e \in Conns  PROVE ServerFollows(e)'
    <3>1. CASE e = c
      BY <2>9, <3>1
    <3>2. CASE e # c
      BY <1>1, <2>3, <2>4, <2>8, <3>2, ServerUnmoved
    <3> QED
      BY <3>1, <3>2
  <2> QED
    BY <1>1, <2>3, <2>8, <2>10 DEF NgapIInv
<1>10. ASSUME NEW c \in Conns, PeerSendsIllegal(c)
       PROVE  NgapIInv'
  <2>1. /\ conn[c] = "open" /\ conn' = [conn EXCEPT ![c] = "illegal"]
        /\ UNCHANGED <<wire, framesSent, reading, handled>>
    BY <1>10 DEF PeerSendsIllegal
  <2>2. conn'[c] = "illegal" /\ TransportTypes' /\ \A e \in Conns : e # c => conn'[e] = conn[e]
    BY <1>1, <2>1 DEF TransportTypes
  <2>3. ServerFollows(c)'
    BY <1>1, <2>1, <2>2 DEF ServerFollows, OnWire
  <2>4. ASSUME NEW e \in Conns  PROVE ServerFollows(e)'
    <3>1. CASE e = c
      BY <2>3, <3>1
    <3>2. CASE e # c
      BY <1>1, <2>1, <2>2, <3>2, ServerUnmoved
    <3> QED
      BY <3>1, <3>2
  <2> QED
    BY <1>1, <2>1, <2>2, <2>4 DEF NgapIInv
<1>5. ASSUME NEW c \in Conns, Breaks(c)
      PROVE  NgapIInv'
  <2>1. PICK n \in 0 .. Len(wire[c]) : wire' = [wire EXCEPT ![c] = SubSeq(wire[c], 1, n)]
    BY <1>5 DEF Breaks
  <2>2. /\ conn[c] \in {"open", "illegal"} /\ conn' = [conn EXCEPT ![c] = "broken"]
        /\ UNCHANGED <<framesSent, reading, handled>>
    BY <1>5 DEF Breaks
  <2>3. wire[c] \in Seq(Parts) /\ framesSent[c] \in Nat
    BY <1>1 DEF TransportTypes
  <2>4. PICK k \in Nat : k = PartsRead(handled[c], reading[c])
    BY <1>1, PartsReadCounted
  <2>5. PICK v : v = SubSeq(wire[c], 1, n)
    OBVIOUS
  <2>6. v \in Seq(Parts) /\ OnWire("broken", k, v, framesSent[c])
    BY <1>1, <2>3, <2>4, <2>5, OnWireBroken DEF ServerFollows
  <2>7. /\ TransportTypes' /\ conn'[c] = "broken" /\ wire'[c] = v
        /\ \A e \in Conns : e # c => conn'[e] = conn[e] /\ wire'[e] = wire[e]
    BY <1>1, <2>1, <2>2, <2>5, <2>6 DEF TransportTypes
  <2>8. ServerFollows(c)'
    BY <1>1, <2>2, <2>4, <2>6, <2>7 DEF ServerFollows
  <2>9. ASSUME NEW e \in Conns  PROVE ServerFollows(e)'
    <3>1. CASE e = c
      BY <2>8, <3>1
    <3>2. CASE e # c
      BY <1>1, <2>2, <2>7, <3>2, ServerUnmoved
    <3> QED
      BY <3>1, <3>2
  <2> QED
    BY <1>1, <2>2, <2>7, <2>9 DEF NgapIInv
<1>6. ASSUME NEW c \in Conns, ServerReads(c)
      PROVE  NgapIInv'
  BY <1>6, ServerReadsNext
<1>7. ASSUME NEW c \in Conns, ServerDrops(c)
      PROVE  NgapIInv'
  <2>1. /\ wire[c] = <<>> /\ reading' = [reading EXCEPT ![c] = "none"]
        /\ conn[c] \in {"broken", "illegal"} /\ UNCHANGED <<wire, framesSent, handled>>
    BY <1>7 DEF ServerDrops
  <2>0. PICK d \in {"closed", "refused"} :
          d = (IF conn[c] = "broken" THEN "closed" ELSE "refused") /\ conn' = [conn EXCEPT ![c] = d]
    BY <1>7 DEF ServerDrops
  <2>2. conn'[c] = d /\ reading'[c] = "none" /\ TransportTypes'
        /\ reading' \in [Conns -> {"none", "header", "body"}]
        /\ \A e \in Conns : e # c => conn'[e] = conn[e] /\ reading'[e] = reading[e]
    BY <1>1, <2>0, <2>1 DEF TransportTypes
  <2>3. ServerFollows(c)'
    <3>1. PICK len \in Nat, count \in Nat : len = Len(handled[c]) /\ count = framesSent[c]
      BY <1>1 DEF TransportTypes
    <3>2. PartsRead(handled[c], reading[c]) \in {2 * len, 2 * len + 1} /\ PartsRead(handled[c], "none") = 2 * len
      <4>1. CASE reading[c] = "body"
        BY <3>1, <4>1 DEF PartsRead
      <4>2. CASE reading[c] # "body"
        BY <3>1, <4>2 DEF PartsRead
      <4> QED
        BY <4>1, <4>2
    <3>3. Len(<<>>) = 0
      OBVIOUS
    <3>4. PICK k \in Nat : k \in {2 * len, 2 * len + 1} /\ OnWire(conn[c], k, <<>>, count)
      <4>1. OnWire(conn[c], PartsRead(handled[c], reading[c]), wire[c], framesSent[c])
        BY <1>1 DEF ServerFollows
      <4>2. OnWire(conn[c], PartsRead(handled[c], reading[c]), <<>>, count)
        BY <2>1, <3>1, <4>1
      <4>3. 2 * len \in Nat /\ 2 * len + 1 \in Nat
        BY <3>1
      <4> QED
        BY <3>2, <4>2, <4>3
    <3>5. 2 * len <= 2 * count
      BY <3>1, <3>3, <3>4 DEF OnWire
    <3>6. d = "refused" => 2 * len = 2 * count
      <4>1. CASE conn[c] = "illegal"
        <5>1. k + 0 = 2 * count
          BY <3>3, <3>4, <4>1 DEF OnWire
        <5> QED
          BY <3>1, <3>4, <5>1
      <4>2. CASE conn[c] = "broken"
        BY <2>0, <4>2
      <4> QED
        BY <2>1, <4>1, <4>2
    <3>7. OnWire(d, 2 * len, <<>>, count)
      BY <3>1, <3>3, <3>5, <3>6 DEF OnWire
    <3> QED
      BY <1>1, <2>1, <2>2, <3>1, <3>2, <3>7 DEF ServerFollows
  <2>4. ASSUME NEW e \in Conns  PROVE ServerFollows(e)'
    <3>1. CASE e = c
      BY <2>3, <3>1
    <3>2. CASE e # c
      BY <1>1, <2>1, <2>2, <3>2, ServerUnmoved
    <3> QED
      BY <3>1, <3>2
  <2> QED
    BY <1>1, <2>1, <2>2, <2>4 DEF NgapIInv
<1>8. ASSUME NEW c \in Conns, BroadcastNext(c)
      PROVE  NgapIInv'
  BY <1>2, <1>8 DEF BroadcastNext
<1>9. CASE StartBroadcast
  BY <1>2, <1>9 DEF StartBroadcast
<1> QED
  BY <1>2, <1>3, <1>4, <1>5, <1>6, <1>7, <1>8, <1>9, <1>10 DEF NgapNext, ngapVars

\* Where the server is, the frames are in order.
LEMMA NgapImplies == NgapIInv => FramesInOrder
<1> SUFFICES ASSUME NgapIInv, NEW c \in Conns
             PROVE  /\ handled[c] = [i \in 1 .. Len(handled[c]) |-> i] /\ Len(handled[c]) <= framesSent[c]
                    /\ conn[c] = "refused" => Len(handled[c]) = framesSent[c]
                    /\ conn[c] \in {"open", "illegal"} =>
                         2 * (framesSent[c] - Len(handled[c]))
                           = Len(wire[c]) + (IF reading[c] = "body" THEN 1 ELSE 0)
  BY DEF FramesInOrder
<1>1. handled[c] \in Seq(Nat) /\ wire[c] \in Seq(Parts) /\ framesSent[c] \in Nat /\ ServerFollows(c)
  BY DEF NgapIInv, TransportTypes
<1>2. PICK len \in Nat, n \in Nat, count \in Nat, r \in {0, 1} :
        /\ len = Len(handled[c]) /\ n = Len(wire[c]) /\ count = framesSent[c]
        /\ r = (IF reading[c] = "body" THEN 1 ELSE 0)
  BY <1>1
<1>3. /\ 2 * len + r + n <= 2 * count
      /\ conn[c] \in {"open", "illegal", "refused"} => 2 * len + r + n = 2 * count
  BY <1>1, <1>2 DEF ServerFollows, OnWire, PartsRead
<1>4. len <= count /\ (conn[c] \in {"open", "illegal"} => 2 * (count - len) = n + r)
  <2>1. r = 0 \/ r = 1
    OBVIOUS
  <2>2. len <= count
    BY <1>3, <2>1
  <2>3. 2 * (count - len) = 2 * count - 2 * len
    OBVIOUS
  <2> QED
    BY <1>3, <2>1, <2>2, <2>3
<1>6. conn[c] = "refused" => len = count
  <2> SUFFICES ASSUME conn[c] = "refused"  PROVE len = count
    OBVIOUS
  <2>1. n = 0
    BY <1>1, <1>2 DEF ServerFollows
  <2>2. r = 0 \/ r = 1
    OBVIOUS
  <2>3. 2 * len + r = 2 * count
    BY <1>3, <2>1
  <2> QED
    BY <2>2, <2>3
<1>5. handled[c] = [i \in 1 .. Len(handled[c]) |-> i]
  <2>1. handled[c] = [i \in 1 .. Len(handled[c]) |-> handled[c][i]]
    <3>1. handled[c] \in [1 .. Len(handled[c]) -> Nat]
      BY ONLY <1>1
    <3> QED
      BY ONLY <3>1
  <2>2. \A i \in 1 .. Len(handled[c]) : handled[c][i] = i
    BY <1>1 DEF ServerFollows
  <2> QED
    BY <2>1, <2>2
<1> QED
  BY <1>2, <1>4, <1>5, <1>6

\* No connection is there at the start.
LEMMA FallbackInitInv == NgapInit => FallbackIInv
<1> SUFFICES ASSUME NgapInit  PROVE FallbackIInv
  OBVIOUS
<1>1. UsedConns = {}
  BY DEF NgapInit, UsedConns
<1>2. TransportTypes
  BY DEF NgapInit, TransportTypes
<1> QED
  BY <1>1, <1>2 DEF NgapInit, FallbackIInv

\* What the awaited part says names the connections it comes from.
LEMMA AwaitedFrom ==
  ASSUME FallbackIInv, awaited[1] # "idle"
  PROVE  \/ \E c \in UsedConns : awaited = <<"header", c>>
         \/ \E c, e \in UsedConns : awaited = <<"body", c, e>>
  BY DEF FallbackIInv

\* One recv takes the parts in turn; where there is one connection, all of that one.
LEMMA RecvKeeps ==
  ASSUME FallbackIInv, Recv
  PROVE  FallbackIInv'
<1>1. /\ TransportTypes /\ received \in Seq(Conns \X Parts)
      /\ current \in UsedConns \cup {NoneHere} /\ (current = NoneHere => UsedConns = {})
      /\ \A c \in Conns : conn[c] = "idle" => framesSent[c] = 0 /\ wire[c] = <<>>
      /\ \A c \in Conns : UsedConns = {c} => FallbackFollows(c)
  BY DEF FallbackIInv
<1>2. current \in UsedConns /\ current # NoneHere /\ UNCHANGED <<conn, framesSent, current>>
  BY <1>1 DEF Recv
<1>3. UsedConns' = UsedConns /\ UsedConns \subseteq Conns /\ UsedConns # {}
  BY <1>2 DEF UsedConns
<1>4. PICK n \in Nat : n = Len(received)
  BY <1>1
<1>5. CASE awaited[1] = "idle" /\ awaited' = <<"header", current>> /\ UNCHANGED <<wire, received>>
  <2>1. awaited'[1] = "header"
    BY <1>5
  <2>2. PartsRead(received, "idle") = PartsRead(received, "header")
    BY DEF PartsRead
  <2>3. \A c \in Conns : UsedConns' = {c} => FallbackFollows(c)'
    BY <1>1, <1>2, <1>3, <1>5, <2>1, <2>2 DEF FallbackFollows
  <2> QED
    BY <1>1, <1>2, <1>3, <1>5, <2>3 DEF FallbackIInv, TransportTypes
<1>6. CASE awaited[1] = "header" /\ awaited' = <<"idle", NoneHere>> /\ UNCHANGED <<wire, received>>
  <2>1. awaited'[1] = "idle"
    BY <1>6
  <2>2. PartsRead(received, "idle") = PartsRead(received, "header")
    BY DEF PartsRead
  <2>3. \A c \in Conns : UsedConns' = {c} => FallbackFollows(c)'
    BY <1>1, <1>2, <1>3, <1>6, <2>1, <2>2 DEF FallbackFollows
  <2> QED
    BY <1>1, <1>2, <1>3, <1>6, <2>3 DEF FallbackIInv, TransportTypes
<1>7. ASSUME NEW c, c = awaited[2], awaited[1] = "header", wire[c] # <<>>,
             wire' = [wire EXCEPT ![c] = Tail(wire[c])], awaited' = <<"body", current, c>>, UNCHANGED received
      PROVE  FallbackIInv'
  <2>1. c \in UsedConns
    <3>1. PICK e \in UsedConns : awaited = <<"header", e>> \/ \E f \in UsedConns : awaited = <<"body", e, f>>
      BY <1>7, AwaitedFrom
    <3> QED
      BY <1>7, <3>1
  <2>2. c \in Conns /\ wire[c] \in Seq(Parts) /\ framesSent[c] \in Nat
    BY <1>1, <1>3, <2>1 DEF TransportTypes
  <2>3. PICK v : v = Tail(wire[c])
    OBVIOUS
  <2>4. v \in Seq(Parts)
    BY <1>7, <2>2, <2>3
  <2>5. TransportTypes' /\ wire'[c] = v /\ \A e \in Conns : e # c => wire'[e] = wire[e]
    BY <1>1, <1>2, <1>7, <2>2, <2>3, <2>4 DEF TransportTypes
  <2>6. ASSUME NEW e \in Conns, UsedConns' = {e}  PROVE FallbackFollows(e)'
    <3>1. e = c /\ FallbackFollows(c)
      BY <1>1, <1>3, <2>1, <2>2, <2>6
    <3>2. PartsRead(received, "header") = 2 * n /\ PartsRead(received, "body") = 2 * n + 1
      BY <1>4 DEF PartsRead
    <3>3. OnWire(conn[c], 2 * n, wire[c], framesSent[c])
      BY <1>7, <3>1, <3>2 DEF FallbackFollows
    <3>4. 2 * n \in Nat
      BY <1>4
    <3>5. OnWire(conn[c], 2 * n + 1, v, framesSent[c])
      BY <1>7, <2>2, <2>3, <3>3, <3>4, OnWireRead
    <3>6. awaited'[1] = "body"
      BY <1>7
    <3> QED
      BY <1>2, <1>7, <2>5, <3>1, <3>2, <3>5, <3>6 DEF FallbackFollows
  <2>7. \A e \in Conns : conn'[e] = "idle" => framesSent'[e] = 0 /\ wire'[e] = <<>>
    BY <1>1, <1>2, <2>1, <2>5 DEF UsedConns
  <2> QED
    BY <1>1, <1>2, <1>3, <1>7, <2>1, <2>5, <2>6, <2>7 DEF FallbackIInv
<1>8. ASSUME NEW c, c = awaited[2], awaited[1] = "body", wire[c] # <<>>,
             wire' = [wire EXCEPT ![c] = Tail(wire[c])], awaited' = <<"idle", NoneHere>>,
             received' = Append(received, <<awaited[3], Head(wire[c])>>)
      PROVE  FallbackIInv'
  <2>1. PICK d \in UsedConns : c \in UsedConns /\ d = awaited[3]
    <3>1. PICK e, f \in UsedConns : awaited = <<"body", e, f>>
      <4>1. \A e : awaited # <<"header", e>>
        BY <1>8
      <4> QED
        BY <1>8, <4>1, AwaitedFrom
    <3> QED
      BY <1>8, <3>1
  <2>2. c \in Conns /\ d \in Conns /\ wire[c] \in Seq(Parts) /\ framesSent[c] \in Nat
    BY <1>1, <1>3, <2>1 DEF TransportTypes
  <2>3. PICK v, h : v = Tail(wire[c]) /\ h = Head(wire[c])
    OBVIOUS
  <2>4. v \in Seq(Parts) /\ h \in Parts
    BY <1>8, <2>2, <2>3
  <2>5. TransportTypes' /\ wire'[c] = v /\ \A e \in Conns : e # c => wire'[e] = wire[e]
    BY <1>1, <1>2, <1>8, <2>2, <2>3, <2>4 DEF TransportTypes
  <2>6. PICK m : m = <<d, h>>
    OBVIOUS
  <2>7. m \in Conns \X Parts /\ received' = Append(received, m)
    BY <1>8, <2>1, <2>2, <2>3, <2>4, <2>6
  <2>8. /\ received' \in Seq(Conns \X Parts) /\ Len(received') = n + 1 /\ received'[n + 1] = m
        /\ \A i \in 1 .. n : received'[i] = received[i]
        /\ \A i \in 1 .. n + 1 : i \in 1 .. n \/ i = n + 1
    BY <1>1, <1>4, <2>7
  <2>9. ASSUME NEW e \in Conns, UsedConns' = {e}  PROVE FallbackFollows(e)'
    <3>1. e = c /\ d = c /\ FallbackFollows(c)
      BY <1>1, <1>3, <2>1, <2>2, <2>9
    <3>2. PartsRead(received, "body") = 2 * n + 1 /\ PartsRead(received', "idle") = 2 * n + 2
      BY <1>4, <2>8 DEF PartsRead
    <3>3. PICK k \in Nat : k = 2 * n + 1 /\ k + 1 = 2 * n + 2
      BY <1>4
    <3>4. OnWire(conn[c], k, wire[c], framesSent[c])
      BY <1>8, <3>1, <3>2, <3>3 DEF FallbackFollows
    <3>5. OnWire(conn[c], k + 1, v, framesSent[c]) /\ PositionOf(h) = k + 1
      <4>1. wire[c] \in Seq(Parts) /\ framesSent[c] \in Nat /\ wire[c] # <<>>
        BY <1>8, <2>2
      <4>2. OnWire(conn[c], k + 1, Tail(wire[c]), framesSent[c]) /\ PositionOf(Head(wire[c])) = k + 1
        BY <3>3, <3>4, <4>1, OnWireRead, ZenonT(30)
      <4> QED
        BY <2>3, <4>2
    <3>6. h = <<"body", n + 1>>
      <4>1. PICK part \in {"header", "body"}, j \in Nat : h = <<part, j>>
        BY <2>4 DEF Parts
      <4>2. PositionOf(h) = 2 * j - (IF part = "header" THEN 1 ELSE 0)
        BY <4>1 DEF PositionOf
      <4>3. part = "body" /\ j = n + 1
        BY <1>4, <3>3, <3>5, <4>2
      <4> QED
        BY <4>1, <4>3
    <3>7. \A i \in 1 .. n + 1 : received'[i] = <<c, <<"body", i>>>>
      BY <1>4, <2>6, <2>8, <3>1, <3>6 DEF FallbackFollows
    <3>8. awaited'[1] = "idle"
      BY <1>8
    <3> QED
      BY <1>2, <1>8, <2>5, <2>8, <3>1, <3>2, <3>3, <3>5, <3>7, <3>8 DEF FallbackFollows
  <2>10. \A e \in Conns : conn'[e] = "idle" => framesSent'[e] = 0 /\ wire'[e] = <<>>
    BY <1>1, <1>2, <2>1, <2>5 DEF UsedConns
  <2> QED
    BY <1>1, <1>2, <1>3, <1>8, <2>5, <2>8, <2>9, <2>10 DEF FallbackIInv
<1>9. ASSUME awaited[1] = "body", conn[awaited[2]] = "broken", wire[awaited[2]] = <<>>,
             awaited' = <<"idle", NoneHere>>, UNCHANGED <<wire, received>>
      PROVE  FallbackIInv'
  <2>1. PICK e \in UsedConns : e = awaited[2]
    <3>1. \A e : awaited # <<"header", e>>
      BY <1>9
    <3> QED
      BY <1>9, <3>1, AwaitedFrom
  <2>2. ASSUME NEW c \in Conns, UsedConns' = {c}  PROVE FallbackFollows(c)'
    <3>1. c = e /\ FallbackFollows(c) /\ conn[c] = "broken" /\ wire[c] = <<>>
      BY <1>1, <1>3, <1>9, <2>1, <2>2
    <3>2. PICK count \in Nat : count = framesSent[c]
      BY <1>1 DEF TransportTypes
    <3>3. PartsRead(received, "body") = 2 * n + 1 /\ PartsRead(received, "idle") = 2 * n /\ Len(<<>>) = 0
      BY <1>4 DEF PartsRead
    <3>4. OnWire("broken", 2 * n + 1, <<>>, count)
      BY <1>9, <3>1, <3>2, <3>3 DEF FallbackFollows
    <3>5. OnWire("broken", 2 * n, <<>>, count)
      BY <1>4, <3>2, <3>3, <3>4 DEF OnWire
    <3>6. awaited'[1] = "idle"
      BY <1>9
    <3> QED
      BY <1>2, <1>9, <3>1, <3>2, <3>3, <3>5, <3>6 DEF FallbackFollows
  <2> QED
    BY <1>1, <1>2, <1>3, <1>9, <2>2 DEF FallbackIInv, TransportTypes
<1> QED
  BY <1>5, <1>6, <1>7, <1>8, <1>9 DEF Recv

\* A first connection starts afresh, a second one ends what is said of the first.
LEMMA FallbackNextInv == FallbackIInv /\ [FallbackNext]_ngapVars => FallbackIInv'
<1> SUFFICES ASSUME FallbackIInv, [FallbackNext]_ngapVars  PROVE FallbackIInv'
  OBVIOUS
<1>1. /\ TransportTypes /\ received \in Seq(Conns \X Parts)
      /\ current \in UsedConns \cup {NoneHere} /\ (current = NoneHere => UsedConns = {})
      /\ \A c \in Conns : conn[c] = "idle" => framesSent[c] = 0 /\ wire[c] = <<>>
      /\ \A c \in Conns : UsedConns = {c} => FallbackFollows(c)
      /\ UsedConns = {} => awaited = <<"idle", NoneHere>> /\ received = <<>>
      /\ \/ awaited = <<"idle", NoneHere>>
         \/ \E c \in UsedConns : awaited = <<"header", c>>
         \/ \E c, e \in UsedConns : awaited = <<"body", c, e>>
  BY DEF FallbackIInv
<1>2. CASE UNCHANGED ngapVars
  BY <1>2 DEF FallbackIInv, TransportTypes, UsedConns, FallbackFollows, ngapVars
<1>3. CASE Recv
  BY <1>3, RecvKeeps
<1>4. ASSUME NEW c \in Conns, Accept(c)
      PROVE  FallbackIInv'
  <2>1. /\ conn[c] = "idle" /\ conn' = [conn EXCEPT ![c] = "open"] /\ current' = c
        /\ UNCHANGED <<wire, framesSent, awaited, received>>
    BY <1>4 DEF Accept
  <2>2. conn'[c] = "open" /\ TransportTypes' /\ \A e \in Conns : e # c => conn'[e] = conn[e]
    BY <1>1, <2>1 DEF TransportTypes
  <2>3. UsedConns' = UsedConns \cup {c} /\ c \notin UsedConns
    BY <2>1, <2>2 DEF UsedConns
  <2>4. ASSUME NEW e \in Conns, UsedConns' = {e}  PROVE FallbackFollows(e)'
    <3>1. e = c /\ UsedConns = {}
      BY <2>3, <2>4
    <3>2. awaited[1] = "idle" /\ received = <<>> /\ wire[c] = <<>> /\ framesSent[c] = 0
      BY <1>1, <2>1, <3>1
    <3>3. PartsRead(<<>>, "idle") = 0 /\ OnWire("open", 0, <<>>, 0)
      BY DEF PartsRead, OnWire
    <3> QED
      BY <2>1, <2>2, <3>1, <3>2, <3>3 DEF FallbackFollows
  <2>5. c # NoneHere
    BY UserPlaneAssumption
  <2>6. \A e \in Conns : conn'[e] = "idle" => framesSent'[e] = 0 /\ wire'[e] = <<>>
    BY <1>1, <2>1, <2>2
  <2> QED
    BY <1>1, <2>1, <2>2, <2>3, <2>4, <2>5, <2>6 DEF FallbackIInv
<1>5. ASSUME NEW c \in Conns, PeerSends(c)
      PROVE  FallbackIInv'
  <2>1. PICK n, w : n = framesSent[c] /\ w = wire[c] /\ n \in Nat /\ w \in Seq(Parts)
    BY <1>1 DEF TransportTypes
  <2>2. PICK v : v = w \o << <<"header", n + 1>>, <<"body", n + 1>> >>
    OBVIOUS
  <2>3. /\ conn[c] = "open" /\ framesSent' = [framesSent EXCEPT ![c] = n + 1]
        /\ UNCHANGED <<conn, current, awaited, received>>
    BY <1>5, <2>1 DEF PeerSends
  <2>4. framesSent'[c] = n + 1 /\ \A e \in Conns : e # c => framesSent'[e] = framesSent[e]
    BY <1>1, <2>3 DEF TransportTypes
  <2>5. wire' = [wire EXCEPT ![c] = v]
    BY <1>5, <2>1, <2>2, <2>4 DEF PeerSends
  <2>6. v \in Seq(Parts)
    BY <2>1, <2>2 DEF Parts
  <2>7. TransportTypes' /\ wire'[c] = v /\ \A e \in Conns : e # c => wire'[e] = wire[e]
    BY <1>1, <2>1, <2>3, <2>5, <2>6 DEF TransportTypes
  <2>8. UsedConns' = UsedConns /\ c \in UsedConns
    BY <2>3 DEF UsedConns
  <2>9. ASSUME NEW e \in Conns, UsedConns' = {e}  PROVE FallbackFollows(e)'
    <3>1. e = c /\ FallbackFollows(c)
      BY <1>1, <2>8, <2>9
    <3>2. PICK k \in Nat : k = PartsRead(received, awaited[1])
      BY <1>1, PartsReadCounted
    <3>3. OnWire("open", k, v, n + 1)
      BY <2>1, <2>2, <2>3, <3>1, <3>2, OnWireSent DEF FallbackFollows
    <3> QED
      BY <2>3, <2>4, <2>7, <3>1, <3>2, <3>3 DEF FallbackFollows
  <2>10. \A e \in Conns : conn'[e] = "idle" => framesSent'[e] = 0 /\ wire'[e] = <<>>
    BY <1>1, <2>3, <2>4, <2>7
  <2> QED
    BY <1>1, <2>3, <2>7, <2>8, <2>9, <2>10 DEF FallbackIInv
<1>6. ASSUME NEW c \in Conns, Breaks(c)
      PROVE  FallbackIInv'
  <2>1. PICK n \in 0 .. Len(wire[c]) : wire' = [wire EXCEPT ![c] = SubSeq(wire[c], 1, n)]
    BY <1>6 DEF Breaks
  <2>2. /\ conn[c] \in {"open", "illegal"} /\ conn' = [conn EXCEPT ![c] = "broken"]
        /\ UNCHANGED <<framesSent, current, awaited, received>>
    BY <1>6 DEF Breaks
  <2>3. wire[c] \in Seq(Parts) /\ framesSent[c] \in Nat
    BY <1>1 DEF TransportTypes
  <2>4. PICK v : v = SubSeq(wire[c], 1, n)
    OBVIOUS
  <2>5. v \in Seq(Parts)
    BY <2>3, <2>4
  <2>6. /\ TransportTypes' /\ conn'[c] = "broken" /\ wire'[c] = v
        /\ \A e \in Conns : e # c => conn'[e] = conn[e] /\ wire'[e] = wire[e]
    BY <1>1, <2>1, <2>2, <2>4, <2>5 DEF TransportTypes
  <2>7. UsedConns' = UsedConns /\ c \in UsedConns
    BY <2>2, <2>6 DEF UsedConns
  <2>8. ASSUME NEW e \in Conns, UsedConns' = {e}  PROVE FallbackFollows(e)'
    <3>1. e = c /\ FallbackFollows(c)
      BY <1>1, <2>7, <2>8
    <3>2. PICK k \in Nat : k = PartsRead(received, awaited[1])
      BY <1>1, PartsReadCounted
    <3>3. OnWire("broken", k, v, framesSent[c])
      BY <2>3, <2>4, <3>1, <3>2, OnWireBroken DEF FallbackFollows
    <3> QED
      BY <2>2, <2>6, <3>1, <3>2, <3>3 DEF FallbackFollows
  <2>9. \A e \in Conns : conn'[e] = "idle" => framesSent'[e] = 0 /\ wire'[e] = <<>>
    BY <1>1, <2>2, <2>6
  <2> QED
    BY <1>1, <2>2, <2>6, <2>7, <2>8, <2>9 DEF FallbackIInv
<1> QED
  BY <1>2, <1>3, <1>4, <1>5, <1>6 DEF FallbackNext

\* Where the fallback has had one connection, its messages are that one's frames.
LEMMA FallbackImplies == FallbackIInv => OneConnectionIsFramed
<1> SUFFICES ASSUME FallbackIInv, Cardinality(UsedConns) = 1
             PROVE  \A i \in 1 .. Len(received) : received[i] = <<current, <<"body", i>>>>
  BY DEF OneConnectionIsFramed, UsedConns
<1>1. IsFiniteSet(UsedConns)
  BY UserPlaneAssumption, FS_Subset DEF UsedConns
<1>2. PICK c : UsedConns = {c}
  BY <1>1, FS_Singleton
<1>3. c \in Conns
  BY <1>2 DEF UsedConns
<1>4. current = c /\ FallbackFollows(c)
  BY <1>2, <1>3 DEF FallbackIInv
<1> QED
  BY <1>4 DEF FallbackFollows

-----------------------------------------------------------------------------
(* The gNB and the AMF.                                                     *)

\* AMF ids lead to one context each, also those the AMF has dropped since; a context that
\* is not unpaired has its own.
GnbIInv ==
  /\ gnbUe \in [RanIds -> GnbContexts \cup {NoId}] /\ amfUe \in [RanIds -> AmfIds \cup {NoId}]
  /\ ranCounter \in Nat \ {0} /\ amfCounter \in Nat \ {0} /\ unpaired \subseteq RanIds
  /\ \A r \in RanIds : r >= ranCounter => gnbUe[r] = NoId /\ amfUe[r] = NoId
  /\ \A r \in RanIds : amfUe[r] # NoId => amfUe[r] < amfCounter
  /\ \A r, q \in RanIds : amfUe[r] = amfUe[q] /\ amfUe[r] # NoId => r = q
  /\ \A r \in RanIds \ unpaired : gnbUe[r] # NoId /\ gnbUe[r].state = "CONNECTED" => gnbUe[r].amf # NoId
  /\ \A r \in RanIds \ unpaired : gnbUe[r] # NoId /\ gnbUe[r].amf # NoId =>
       /\ gnbUe[r].amf < amfCounter /\ (amfUe[r] # NoId => gnbUe[r].amf = amfUe[r])
       /\ \A q \in RanIds : gnbUe[r].amf = amfUe[q] => r = q
       /\ \A q \in RanIds \ unpaired : gnbUe[q] # NoId /\ gnbUe[r].amf = gnbUe[q].amf => r = q

\* A context's record is written again: with the AMF's own id, with what it had of the id
\* and the state, or with any id, as an unpaired one.
LEMMA GnbContextWritten ==
  ASSUME GnbIInv, NEW r \in RanIds, NEW c \in GnbContexts, gnbUe[r] # NoId,
         \/ c.amf # NoId /\ c.amf = amfUe[r] /\ unpaired' = unpaired \ {r}
         \/ c.amf = gnbUe[r].amf /\ c.state = gnbUe[r].state /\ unpaired' = unpaired
         \/ unpaired' = unpaired \cup {r},
         gnbUe' = [gnbUe EXCEPT ![r] = c],
         UNCHANGED <<ranCounter, amfUe, amfCounter>>
  PROVE  GnbIInv'
<1> USE DEF GnbIInv
<1>1. NoId \notin Nat /\ NoId \notin GnbContexts
  BY RanAssumption
<1>2. gnbUe'[r] = c /\ c # NoId /\ \A q \in RanIds : q # r => gnbUe'[q] = gnbUe[q]
  BY <1>1
<1>3. \A q \in RanIds : q # r => (q \in unpaired' <=> q \in unpaired)
  OBVIOUS
<1>4. gnbUe' \in [RanIds -> GnbContexts \cup {NoId}] /\ unpaired' \subseteq RanIds
  OBVIOUS
<1>5. \A q \in RanIds : q >= ranCounter => gnbUe'[q] = NoId
  BY <1>2
<1>6. r \notin unpaired' => /\ c.state = "CONNECTED" => c.amf # NoId
                            /\ c.amf # NoId => c.amf < amfCounter /\ (amfUe[r] # NoId => c.amf = amfUe[r])
  OBVIOUS
<1>7. r \notin unpaired' /\ c.amf # NoId => \A q \in RanIds : c.amf = amfUe[q] => r = q
  OBVIOUS
<1>8. ASSUME NEW q \in RanIds \ unpaired', r \notin unpaired', c.amf # NoId, q # r, gnbUe[q] # NoId
      PROVE  gnbUe[q].amf # c.amf
  <2>1. q \in RanIds \ unpaired
    BY <1>3, <1>8
  <2>2. CASE c.amf = amfUe[r]
    BY <1>8, <2>1, <2>2
  <2>3. CASE c.amf = gnbUe[r].amf /\ r \notin unpaired
    BY <1>8, <2>1, <2>3
  <2> QED
    BY <1>8, <2>2, <2>3
<1>9. ASSUME NEW q \in RanIds \ unpaired', gnbUe'[q] # NoId
      PROVE  /\ gnbUe'[q].state = "CONNECTED" => gnbUe'[q].amf # NoId
             /\ gnbUe'[q].amf # NoId =>
                  /\ gnbUe'[q].amf < amfCounter /\ (amfUe[q] # NoId => gnbUe'[q].amf = amfUe[q])
                  /\ \A s \in RanIds : gnbUe'[q].amf = amfUe[s] => q = s
                  /\ \A s \in RanIds \ unpaired' : gnbUe'[s] # NoId /\ gnbUe'[q].amf = gnbUe'[s].amf => q = s
  <2>1. CASE q = r
    BY <1>2, <1>6, <1>7, <1>8, <1>9, <2>1
  <2>2. CASE q # r
    <3>1. q \in RanIds \ unpaired /\ gnbUe'[q] = gnbUe[q]
      BY <1>2, <1>3, <1>9, <2>2
    <3>2. ASSUME NEW s \in RanIds \ unpaired', gnbUe'[s] # NoId, gnbUe'[q].amf # NoId,
                 gnbUe'[q].amf = gnbUe'[s].amf
          PROVE  q = s
      <4>1. CASE s = r
        BY <1>2, <1>8, <1>9, <2>2, <3>1, <3>2, <4>1
      <4>2. CASE s # r
        BY <1>2, <1>3, <1>9, <3>1, <3>2, <4>2
      <4> QED
        BY <4>1, <4>2
    <3> QED
      BY <1>9, <3>1, <3>2
  <2> QED
    BY <2>1, <2>2
<1> QED
  BY <1>4, <1>5, <1>9

\* A context made at the next RAN id: without an AMF id, or unpaired.
LEMMA GnbContextMade ==
  ASSUME GnbIInv, NEW c \in GnbContexts, ranCounter \in RanIds, ranCounter' = ranCounter + 1,
         gnbUe' = [gnbUe EXCEPT ![ranCounter] = c],
         \/ c.amf = NoId /\ c.state = "IDLE" /\ unpaired' = unpaired
         \/ unpaired' = unpaired \cup {ranCounter},
         \/ UNCHANGED <<amfUe, amfCounter>>
         \/ /\ amfUe' = [amfUe EXCEPT ![ranCounter] = amfCounter]
            /\ amfCounter \in AmfIds /\ amfCounter' = amfCounter + 1
  PROVE  GnbIInv'
<1> USE DEF GnbIInv
<1>1. NoId \notin Nat /\ NoId \notin GnbContexts /\ MaxUes \in Nat
  BY RanAssumption
<1>2. PICK n \in RanIds : n = ranCounter
  OBVIOUS
<1>3. /\ gnbUe'[n] = c /\ c # NoId /\ \A q \in RanIds : q # n => gnbUe'[q] = gnbUe[q]
      /\ gnbUe' \in [RanIds -> GnbContexts \cup {NoId}]
  BY <1>1, <1>2
<1>4. /\ gnbUe[n] = NoId /\ amfUe[n] = NoId
      /\ n \in Nat /\ ranCounter' = n + 1 /\ ranCounter' \in Nat \ {0}
  BY <1>1, <1>2 DEF RanIds
<1>5. \A q \in RanIds : q \in Nat
  BY <1>1 DEF RanIds
<1>6. /\ \A q \in RanIds : q >= ranCounter' => q # n /\ q >= ranCounter
      /\ unpaired' \subseteq RanIds /\ \A q \in RanIds : q # n => (q \in unpaired' <=> q \in unpaired)
  <2>1. ASSUME NEW q \in RanIds, q >= ranCounter'  PROVE q # n /\ q >= ranCounter
    BY <1>2, <1>4, <1>5, <2>1
  <2>2. CASE unpaired' = unpaired \cup {n}
    BY <2>1, <2>2
  <2>3. CASE unpaired' = unpaired
    BY <2>1, <2>3
  <2> QED
    BY <1>2, <2>2, <2>3
<1>7. n \notin unpaired' => c.amf = NoId /\ c.state = "IDLE"
  <2>1. CASE unpaired' = unpaired \cup {ranCounter}
    <3>1. n \in unpaired'
      BY <1>2, <2>1
    <3> QED
      BY <3>1
  <2>2. CASE c.amf = NoId /\ c.state = "IDLE" /\ unpaired' = unpaired
    BY <2>2
  <2> QED
    BY <2>1, <2>2
<1>8. \A q \in RanIds \ unpaired' : gnbUe'[q] # NoId /\ gnbUe'[q].state = "CONNECTED" => gnbUe'[q].amf # NoId
  BY <1>3, <1>6, <1>7
<1>9. \A q \in RanIds \ unpaired' : gnbUe'[q] # NoId /\ gnbUe'[q].amf # NoId =>
        q # n /\ q \notin unpaired /\ gnbUe'[q] = gnbUe[q]
  BY <1>3, <1>6, <1>7
<1>10. CASE UNCHANGED <<amfUe, amfCounter>>
  <2>1. \A q \in RanIds : q >= ranCounter' => gnbUe'[q] = NoId /\ amfUe'[q] = NoId
    BY <1>3, <1>6, <1>10
  <2>2. ASSUME NEW q \in RanIds \ unpaired', gnbUe'[q] # NoId, gnbUe'[q].amf # NoId
        PROVE  /\ gnbUe'[q].amf < amfCounter' /\ (amfUe'[q] # NoId => gnbUe'[q].amf = amfUe'[q])
               /\ \A s \in RanIds : gnbUe'[q].amf = amfUe'[s] => q = s
               /\ \A s \in RanIds \ unpaired' : gnbUe'[s] # NoId /\ gnbUe'[q].amf = gnbUe'[s].amf => q = s
    <3>1. q # n /\ q \in RanIds \ unpaired /\ gnbUe'[q] = gnbUe[q]
      BY <1>9, <2>2
    <3>2. \A s \in RanIds \ unpaired' : gnbUe'[s] # NoId /\ gnbUe'[q].amf = gnbUe'[s].amf => q = s
      BY <1>9, <2>2, <3>1
    <3> QED
      BY <1>10, <2>2, <3>1, <3>2
  <2> QED
    BY <1>3, <1>4, <1>6, <1>8, <1>10, <2>1, <2>2
<1>11. CASE /\ amfUe' = [amfUe EXCEPT ![ranCounter] = amfCounter]
            /\ amfCounter \in AmfIds /\ amfCounter' = amfCounter + 1
  <2>1. PICK a \in AmfIds : a = amfCounter
    BY <1>11
  <2>2. a \in Nat /\ a # NoId /\ amfCounter' = a + 1 /\ amfCounter' \in Nat \ {0}
    BY <1>1, <1>11, <2>1 DEF AmfIds
  <2>3. /\ amfUe'[n] = a /\ \A q \in RanIds : q # n => amfUe'[q] = amfUe[q]
        /\ amfUe' \in [RanIds -> AmfIds \cup {NoId}]
    BY <1>2, <1>11, <2>1
  <2>4. \A q \in RanIds : amfUe[q] # a
    BY <2>1, <2>2
  <2>5. \A q \in RanIds : q >= ranCounter' => gnbUe'[q] = NoId /\ amfUe'[q] = NoId
    BY <1>3, <1>6, <2>3
  <2>6. ASSUME NEW q \in RanIds, amfUe'[q] # NoId  PROVE amfUe'[q] < amfCounter'
    <3>1. CASE q = n
      BY <2>2, <2>3, <3>1
    <3>2. CASE q # n
      <4>1. amfUe'[q] = amfUe[q] /\ amfUe[q] < a /\ amfUe[q] \in AmfIds
        BY <2>1, <2>3, <2>6, <3>2
      <4>2. amfUe[q] \in Nat
        BY <1>1, <4>1 DEF AmfIds
      <4> QED
        BY <2>2, <4>1, <4>2
    <3> QED
      BY <3>1, <3>2
  <2>7. \A q, s \in RanIds : amfUe'[q] = amfUe'[s] /\ amfUe'[q] # NoId => q = s
    BY <2>3, <2>4
  <2>8. ASSUME NEW q \in RanIds \ unpaired', gnbUe'[q] # NoId, gnbUe'[q].amf # NoId
        PROVE  /\ gnbUe'[q].amf < amfCounter' /\ (amfUe'[q] # NoId => gnbUe'[q].amf = amfUe'[q])
               /\ \A s \in RanIds : gnbUe'[q].amf = amfUe'[s] => q = s
               /\ \A s \in RanIds \ unpaired' : gnbUe'[s] # NoId /\ gnbUe'[q].amf = gnbUe'[s].amf => q = s
    <3>1. q # n /\ q \in RanIds \ unpaired /\ gnbUe'[q] = gnbUe[q]
      BY <1>9, <2>8
    <3>2. \A s \in RanIds \ unpaired' : gnbUe'[s] # NoId /\ gnbUe'[q].amf = gnbUe'[s].amf => q = s
      BY <1>9, <2>8, <3>1
    <3>3. gnbUe[q].amf \in AmfIds /\ gnbUe[q].amf < a
      BY <2>1, <2>8, <3>1 DEF GnbContexts
    <3>4. gnbUe[q].amf \in Nat /\ gnbUe[q].amf # a /\ gnbUe[q].amf < a + 1
      BY <1>1, <2>2, <3>3 DEF AmfIds
    <3>5. \A s \in RanIds : gnbUe'[q].amf = amfUe'[s] => q = s
      BY <2>3, <2>8, <3>1, <3>4
    <3> QED
      BY <2>2, <2>3, <2>8, <3>1, <3>2, <3>4, <3>5
  <2> QED
    BY <1>3, <1>4, <1>6, <1>8, <2>2, <2>3, <2>5, <2>6, <2>7, <2>8
<1> QED
  BY <1>10, <1>11

\* No context is there at the start.
LEMMA GnbInitInv == GnbInit => GnbIInv
  BY DEF GnbInit, GnbIInv

\* Every step of the gNB, or of the AMF's context, keeps the binding.
LEMMA GnbNextInv == GnbIInv /\ [GnbNext]_gnbVars => GnbIInv'
<1> SUFFICES ASSUME GnbIInv, [GnbNext]_gnbVars  PROVE GnbIInv'
  OBVIOUS
<1>1. NoId \notin Nat /\ NoId \notin GnbContexts
  BY RanAssumption
<1>2. gnbUe \in [RanIds -> GnbContexts \cup {NoId}] /\ amfUe \in [RanIds -> AmfIds \cup {NoId}]
  BY DEF GnbIInv
<1>3. CASE UNCHANGED gnbVars
  BY <1>3 DEF GnbIInv, gnbVars
<1>4. ASSUME NEW answered \in BOOLEAN, InitialUeMessage(answered)
      PROVE  GnbIInv'
  <2> DEFINE c == [amf |-> NoId, state |-> "IDLE", sessions |-> {}]
  <2>1. c \in GnbContexts
    BY DEF GnbContexts
  <2> QED
    BY <1>4, <2>1, GnbContextMade DEF InitialUeMessage
<1>5. ASSUME NEW r \in RanIds, NEW a \in AmfIds \cup {NoId}, DownlinkNasTransport(r, a)
      PROVE  GnbIInv'
  <2>1. gnbUe[r] # NoId /\ UNCHANGED <<ranCounter, amfUe, amfCounter>>
    BY <1>5 DEF DownlinkNasTransport
  <2>2. CASE gnbUe[r].amf = NoId /\ a # NoId
    <3>1. PICK c : c = [gnbUe[r] EXCEPT !.amf = a]
      OBVIOUS
    <3>2. gnbUe' = [gnbUe EXCEPT ![r] = c] /\ Bind(r, a)
      BY <1>5, <2>2, <3>1 DEF DownlinkNasTransport
    <3>3. c \in GnbContexts /\ c.amf = a
      BY <1>2, <2>1, <3>1 DEF GnbContexts
    <3> QED
      BY <2>1, <2>2, <3>2, <3>3, GnbContextWritten DEF Bind
  <2>3. CASE ~(gnbUe[r].amf = NoId /\ a # NoId)
    BY <1>5, <2>1, <2>3 DEF DownlinkNasTransport, GnbIInv
  <2> QED
    BY <2>2, <2>3
<1>6. ASSUME NEW r \in RanIds, NEW a \in AmfIds \cup {NoId}, UeContextSetup(r, a)
      PROVE  GnbIInv'
  <2>1. PICK c : c = [gnbUe[r] EXCEPT !.amf = a, !.state = "CONNECTED"]
    OBVIOUS
  <2>2. gnbUe[r] # NoId /\ UNCHANGED <<ranCounter, amfUe, amfCounter>> /\ Bind(r, a)
        /\ gnbUe' = [gnbUe EXCEPT ![r] = c]
    BY <1>2, <1>6, <2>1 DEF UeContextSetup
  <2>3. c \in GnbContexts /\ c.amf = a
    BY <1>2, <2>1, <2>2 DEF GnbContexts
  <2> QED
    BY <2>2, <2>3, GnbContextWritten DEF Bind
<1>7. ASSUME NEW r \in RanIds, NEW ids \in SUBSET PduIds, PduSessionResourceSetup(r, ids)
      PROVE  GnbIInv'
  <2>1. PICK c : c = [gnbUe[r] EXCEPT !.sessions = gnbUe[r].sessions \cup ids]
    OBVIOUS
  <2>2. gnbUe[r] # NoId /\ UNCHANGED <<ranCounter, amfUe, amfCounter, unpaired>>
        /\ gnbUe' = [gnbUe EXCEPT ![r] = c]
    BY <1>7, <2>1 DEF PduSessionResourceSetup
  <2>3. gnbUe[r] \in GnbContexts
    BY <1>2, <2>2
  <2>4. c \in GnbContexts /\ c.state = gnbUe[r].state /\ c.amf = gnbUe[r].amf
    BY <2>1, <2>3 DEF GnbContexts
  <2> QED
    BY <2>2, <2>4, GnbContextWritten
<1>8. ASSUME NEW a \in AmfIds \cup {NoId}, HandoverRequest(a)
      PROVE  GnbIInv'
  <2> DEFINE c == [amf |-> a, state |-> "CONNECTED", sessions |-> {}]
  <2>1. c \in GnbContexts
    BY DEF GnbContexts
  <2> QED
    BY <1>8, <2>1, GnbContextMade DEF HandoverRequest
<1>9. ASSUME NEW a \in AmfIds, UeContextRelease(a)
      PROVE  GnbIInv'
  <2>1. PICK r \in RanIds : amfUe[r] = a /\ amfUe' = [amfUe EXCEPT ![r] = NoId]
    BY <1>9 DEF UeContextRelease
  <2>2. UNCHANGED <<gnbUe, ranCounter, amfCounter, unpaired>>
    BY <1>9 DEF UeContextRelease
  <2>3. amfUe' \in [RanIds -> AmfIds \cup {NoId}]
    BY <1>2, <2>1
  <2>4. \A q \in RanIds : amfUe'[q] = NoId \/ amfUe'[q] = amfUe[q]
    BY <1>2, <2>1
  <2> QED
    BY <1>1, <2>2, <2>3, <2>4 DEF GnbIInv
<1>10. CASE HeartbeatFails
  BY <1>10 DEF GnbIInv, HeartbeatFails
<1> QED
  BY <1>3, <1>4, <1>5, <1>6, <1>7, <1>8, <1>9, <1>10 DEF GnbNext

\* The binding is the one the uplink messages need.
LEMMA GnbImplies == GnbIInv => UplinkNamesItsUe
  BY DEF GnbIInv, UplinkNamesItsUe

-----------------------------------------------------------------------------
(* F1: DU and CU.                                                           *)

\* UEs of the DU are numbered in turn, and those the CU answered are among them.
F1IInv ==
  /\ \E n \in 0 .. MaxUes : duUe = 1 .. n
  /\ cuUe \in Seq(Nat) /\ answeredUes \subseteq duUe
  /\ F1ContextsAgree

\* No UE is served at the start.
LEMMA F1InitInv == F1Init => F1IInv
<1> SUFFICES ASSUME F1Init  PROVE F1IInv
  OBVIOUS
<1>1. duUe = 1 .. 0 /\ 0 \in 0 .. MaxUes
  BY RanAssumption DEF F1Init
<1> QED
  BY <1>1 DEF F1Init, F1IInv, F1ContextsAgree

\* The next context of the DU is a new one, and the CU's with it.
LEMMA F1NextInv == F1IInv /\ [F1Next]_f1Vars => F1IInv'
<1> SUFFICES ASSUME F1IInv, [F1Next]_f1Vars  PROVE F1IInv'
  OBVIOUS
<1>1. CASE UNCHANGED f1Vars
  BY <1>1 DEF F1IInv, F1ContextsAgree, f1Vars
<1>2. ASSUME NEW cu \in {"fails", "answers", "refuses", "answerLost"}, InitialUlRrcMessage(cu)
      PROVE  F1IInv'
  <2>1. PICK n \in 0 .. MaxUes : duUe = 1 .. n
    BY DEF F1IInv
  <2>2. n \in Nat /\ n \in Int /\ MaxUes \in Nat
    BY RanAssumption
  <2>3. Cardinality(duUe) = n
    <3>1. Cardinality(1 .. n) = IF 1 > n THEN 0 ELSE n - 1 + 1
      BY ONLY <2>2, 1 \in Int, FS_Interval
    <3> QED
      BY <2>1, <2>2, <3>1
  <2>4. n + 1 \in 0 .. MaxUes /\ duUe' = 1 .. n + 1
    <3>1. n + 1 <= MaxUes /\ duUe' = duUe \cup {n + 1}
      BY <1>2, <2>3 DEF InitialUlRrcMessage
    <3>2. (1 .. n) \cup {n + 1} = 1 .. n + 1
      BY <2>2
    <3> QED
      BY <2>1, <2>2, <3>1, <3>2
  <2>5. /\ \/ cuUe' = cuUe /\ (n + 1 \in answeredUes' => n + 1 \in refusedUes')
           \/ cuUe' = Append(cuUe, n + 1)
        /\ answeredUes' \subseteq answeredUes \cup {n + 1} /\ refusedUes \subseteq refusedUes'
    <3>1. cuUe' = (IF cu \in {"fails", "refuses"} THEN cuUe ELSE Append(cuUe, n + 1))
      BY <1>2, <2>3 DEF InitialUlRrcMessage
    <3>2. answeredUes' = answeredUes \cup (IF cu \in {"answers", "refuses"} THEN {n + 1} ELSE {})
      BY <1>2, <2>3 DEF InitialUlRrcMessage
    <3>3. refusedUes' = refusedUes \cup (IF cu = "refuses" THEN {n + 1} ELSE {})
      BY <1>2, <2>3 DEF InitialUlRrcMessage
    <3>4. n + 1 \notin answeredUes
      BY <2>1, <2>2 DEF F1IInv
    <3>5. CASE cu \in {"fails", "refuses"}
      BY <3>1, <3>2, <3>3, <3>4, <3>5
    <3>6. CASE cu \notin {"fails", "refuses"}
      BY <3>1, <3>2, <3>3, <3>6
    <3> QED
      BY <3>5, <3>6
  <2>6. cuUe \in Seq(Nat) /\ answeredUes \subseteq 1 .. n
        /\ (\A d \in answeredUes : d \in refusedUes \/ \E c \in DOMAIN cuUe : cuUe[c] = d)
        /\ (\A c, e \in DOMAIN cuUe : cuUe[c] \in 1 .. n /\ (cuUe[c] = cuUe[e] => c = e))
    BY <2>1 DEF F1IInv, F1ContextsAgree
  <2>7. \A x \in 1 .. n : x \in 1 .. n + 1
    BY <2>2
  <2>10. answeredUes' \subseteq duUe'
    <3>1. n + 1 \in 1 .. n + 1
      BY <2>2
    <3> QED
      BY <2>4, <2>5, <2>6, <2>7, <3>1
  <2>8. CASE cuUe' = cuUe /\ (n + 1 \in answeredUes' => n + 1 \in refusedUes')
    <3>1. \A d \in answeredUes' : d \in refusedUes' \/ \E c \in DOMAIN cuUe' : cuUe'[c] = d
      BY <2>5, <2>6, <2>8
    <3>2. F1ContextsAgree'
      BY <2>4, <2>6, <2>7, <2>8, <3>1 DEF F1ContextsAgree
    <3> QED
      BY <2>4, <2>6, <2>8, <2>10, <3>2 DEF F1IInv
  <2>9. CASE cuUe' = Append(cuUe, n + 1)
    <3> DEFINE k == Len(cuUe)
    <3>1. k \in Nat /\ DOMAIN cuUe = 1 .. k /\ cuUe' \in Seq(Nat) /\ DOMAIN cuUe' = 1 .. k + 1
          /\ cuUe'[k + 1] = n + 1 /\ \A c \in 1 .. k : cuUe'[c] = cuUe[c]
      BY <2>2, <2>6, <2>9
    <3> HIDE DEF k
    <3>2. \A c \in 1 .. k + 1 : c \in 1 .. k \/ c = k + 1
      BY <3>1
    <3>3. \A d \in answeredUes' : d \in refusedUes' \/ \E c \in 1 .. k + 1 : cuUe'[c] = d
      <4>1. ASSUME NEW d \in answeredUes'  PROVE d \in refusedUes' \/ \E c \in 1 .. k + 1 : cuUe'[c] = d
        <5>1. CASE d = n + 1
          BY <3>1, <5>1
        <5>2. CASE d \in answeredUes
          BY <2>5, <2>6, <3>1, <5>2
        <5> QED
          BY <2>5, <5>1, <5>2
      <4> QED
        BY <4>1
    <3>4. ASSUME NEW c \in 1 .. k + 1, NEW e \in 1 .. k + 1
          PROVE  cuUe'[c] \in 1 .. n + 1 /\ (cuUe'[c] = cuUe'[e] => c = e)
      <4>1. \A b \in 1 .. k : cuUe'[b] \in 1 .. n /\ cuUe'[b] # n + 1
        BY <2>2, <2>6, <3>1, SMTT(30)
      <4>2. c \in 1 .. k /\ e \in 1 .. k => (cuUe'[c] = cuUe'[e] => c = e)
        BY <2>6, <3>1
      <4>3. cuUe'[c] \in 1 .. n + 1
        BY <2>2, <3>1, <3>2, <4>1
      <4> QED
        BY <3>1, <3>2, <4>1, <4>2, <4>3
    <3> QED
      BY <2>4, <2>10, <3>1, <3>3, <3>4 DEF F1IInv, F1ContextsAgree
  <2> QED
    BY <2>5, <2>8, <2>9
<1> QED
  BY <1>1, <1>2 DEF F1Next

-----------------------------------------------------------------------------
(* RLC.                                                                     *)

\* An SDU in the network carries the number of its place, and so many are handed on as the
\* receiver has moved on, which never comes to the end of the numbers.
RlcIInv ==
  /\ sent \in Nat /\ vtS \in 0 .. SnSize - 1 /\ \E laps \in 0 .. sent : sent = vtS + laps * SnSize
  /\ \A pdu \in inFlight : \E n \in 0 .. SnSize - 1, d \in 1 .. sent :
       pdu = <<n, d>> /\ \E laps \in 0 .. sent : d = n + 1 + laps * SnSize
  /\ delivered \in Seq(Nat) /\ vrR = Len(delivered) /\ vrR <= RlcWindow
  /\ \A i \in 1 .. Len(delivered) :
       delivered[i] <= sent /\ \E laps \in 0 .. sent : delivered[i] = i + laps * SnSize

\* The numbers count on until the last one, and begin again after it.
LEMMA NextSn ==
  ASSUME NEW sn \in 0 .. SnSize - 1
  PROVE  (sn + 1) % SnSize = IF sn + 1 < SnSize THEN sn + 1 ELSE 0
<1>1. SnSize \in Nat /\ SnSize > 0
  BY RanAssumption
<1>2. PICK m \in Nat : m = sn + 1
  BY <1>1
<1>3. m < SnSize => m % SnSize = m
  BY <1>1
<1>4. m >= SnSize => m = SnSize /\ SnSize % SnSize = 0
  BY <1>1, <1>2
<1> QED
  BY <1>1, <1>2, <1>3, <1>4

\* Nothing has been sent at the start.
LEMMA RlcInitInv == RlcInit => RlcIInv
<1> SUFFICES ASSUME RlcInit  PROVE RlcIInv
  OBVIOUS
<1>1. SnSize \in Nat \ {0} /\ RlcWindow \in Nat
  BY RanAssumption
<1> QED
  BY <1>1 DEF RlcInit, RlcIInv

\* Whatever is sent or received, numbers and places agree.
LEMMA RlcNextInv == RlcIInv /\ [RlcNext]_rlcVars => RlcIInv'
<1> SUFFICES ASSUME RlcIInv, [RlcNext]_rlcVars  PROVE RlcIInv'
  OBVIOUS
<1> USE DEF RlcIInv
<1>1. SnSize \in Nat /\ SnSize > 0 /\ RlcWindow \in Nat /\ RlcWindow < SnSize
  BY RanAssumption
<1>2. CASE UNCHANGED rlcVars
  BY <1>2 DEF rlcVars
<1>3. CASE TransmitAmPdu
  <2>1. /\ sent' = sent + 1 /\ vtS' = (vtS + 1) % SnSize
        /\ inFlight' = inFlight \cup {<<vtS, sent'>>} /\ UNCHANGED <<vrR, delivered>>
    BY <1>3 DEF TransmitAmPdu
  <2>2. PICK laps \in 0 .. sent : sent = vtS + laps * SnSize
    OBVIOUS
  <2>3. (\A l \in 0 .. sent : l \in 0 .. sent') /\ laps + 1 \in 0 .. sent' /\ sent \in Nat
    BY <2>1
  <2>8. PICK p \in Nat : p = laps * SnSize
    BY <1>1
  <2>9. sent = vtS + p /\ vtS \in Nat
    <3>1. sent = vtS + p
      BY <2>2, <2>8, Zenon
    <3>2. vtS \in Nat
      BY <1>1
    <3> QED
      BY <3>1, <3>2
  <2>4. vtS' \in 0 .. SnSize - 1 /\ \E l \in 0 .. sent' : sent' = vtS' + l * SnSize
    <3>1. CASE vtS + 1 < SnSize
      <4>1. vtS' = vtS + 1
        BY <2>1, <3>1, NextSn
      <4>2. sent' = vtS' + p /\ vtS' \in 0 .. SnSize - 1
        BY <1>1, <2>1, <2>9, <3>1, <4>1
      <4> QED
        BY <2>3, <2>8, <4>2
    <3>2. CASE ~(vtS + 1 < SnSize)
      <4>1. vtS' = 0 /\ vtS + 1 = SnSize
        BY <1>1, <2>1, <3>2, NextSn
      <4>2. (laps + 1) * SnSize = p + SnSize
        BY <1>1, <2>8
      <4>3. sent' = vtS' + (p + SnSize) /\ vtS' \in 0 .. SnSize - 1
        BY <1>1, <2>1, <2>9, <4>1
      <4> QED
        BY <2>3, <4>2, <4>3
    <3> QED
      BY <3>1, <3>2
  <2>5. ASSUME NEW pdu \in inFlight'
        PROVE  \E n \in 0 .. SnSize - 1, d \in 1 .. sent' :
                 pdu = <<n, d>> /\ \E l \in 0 .. sent' : d = n + 1 + l * SnSize
    <3>1. CASE pdu = <<vtS, sent'>>
      <4>1. sent' \in 1 .. sent' /\ sent' = vtS + 1 + p
        BY <2>1, <2>9, SMTT(30)
      <4>2. \E l \in 0 .. sent' : sent' = vtS + 1 + l * SnSize
        BY <2>3, <2>8, <4>1
      <4> QED
        BY <3>1, <4>1, <4>2
    <3>2. CASE pdu \in inFlight
      <4>1. PICK n \in 0 .. SnSize - 1, d \in 1 .. sent :
              pdu = <<n, d>> /\ \E l \in 0 .. sent : d = n + 1 + l * SnSize
        BY <3>2
      <4>2. d \in 1 .. sent'
        BY <2>1
      <4> QED
        BY <2>3, <4>1, <4>2
    <3> QED
      BY <2>1, <3>1, <3>2
  <2>6. ASSUME NEW i \in 1 .. Len(delivered)
        PROVE  delivered[i] <= sent' /\ \E l \in 0 .. sent' : delivered[i] = i + l * SnSize
    <3>1. delivered[i] \in Nat /\ delivered[i] <= sent /\ \E l \in 0 .. sent : delivered[i] = i + l * SnSize
      OBVIOUS
    <3> QED
      BY <2>1, <2>3, <3>1, SMTT(30)
  <2>7. sent' \in Nat
    BY <2>1
  <2> QED
    BY <2>1, <2>4, <2>5, <2>6, <2>7
<1>4. CASE TransmitPdcp
  BY <1>4 DEF TransmitPdcp
<1>5. ASSUME NEW pdu \in inFlight, ReceiveAmPdu(pdu)
      PROVE  RlcIInv'
  <2>1. PICK n \in 0 .. SnSize - 1, d \in 1 .. sent :
          pdu = <<n, d>> /\ \E laps \in 0 .. sent : d = n + 1 + laps * SnSize
    OBVIOUS
  <2>2. pdu[1] = n /\ pdu[2] = d /\ d \in Nat
    BY <2>1
  <2>3. UNCHANGED <<sent, vtS, inFlight>> /\ IsInReceiveWindow(n)
    BY <1>5, <2>2 DEF ReceiveAmPdu
  <2>4. CASE n # vrR
    <3>1. UNCHANGED <<vrR, delivered>>
      BY <1>5, <2>2, <2>4 DEF ReceiveAmPdu
    <3> QED
      BY <2>3, <3>1
  <2>5. CASE n = vrR
    <3>1. vrR' = (vrR + 1) % SnSize /\ delivered' = Append(delivered, d)
      BY <1>5, <2>2, <2>5 DEF ReceiveAmPdu
    <3>2. vrR \in 0 .. SnSize - 1 /\ vrR < RlcWindow /\ vrR + 1 < SnSize
      BY <1>1, <2>3, <2>5 DEF IsInReceiveWindow
    <3>3. vrR' = vrR + 1
      BY <3>1, <3>2, NextSn
    <3>4. PICK k \in Nat : k = Len(delivered)
      OBVIOUS
    <3>5. /\ delivered' \in Seq(Nat) /\ Len(delivered') = k + 1
          /\ delivered'[k + 1] = d /\ \A i \in 1 .. k : delivered'[i] = delivered[i]
      BY <2>2, <3>1, <3>4
    <3>6. ASSUME NEW i \in 1 .. k + 1
          PROVE  delivered'[i] <= sent /\ \E laps \in 0 .. sent : delivered'[i] = i + laps * SnSize
      <4>1. CASE i \in 1 .. k
        BY <3>4, <3>5, <4>1
      <4>2. CASE i = k + 1
        <5>1. n + 1 = i
          BY <2>5, <3>4, <4>2
        <5>2. d <= sent /\ \E laps \in 0 .. sent : d = i + laps * SnSize
          BY <2>1, <5>1, SMTT(30)
        <5> QED
          BY <3>5, <4>2, <5>2
      <4>3. i \in 1 .. k \/ i = k + 1
        BY <3>4, SMTT(30)
      <4> QED
        BY <4>1, <4>2, <4>3
    <3>7. vrR' = Len(delivered') /\ vrR' <= RlcWindow
      BY <1>1, <3>2, <3>3, <3>4, <3>5
    <3>8. /\ sent' \in Nat /\ vtS' \in 0 .. SnSize - 1
          /\ \E laps \in 0 .. sent' : sent' = vtS' + laps * SnSize
      BY <2>3
    <3>9. \A q \in inFlight' : \E m \in 0 .. SnSize - 1, e \in 1 .. sent' :
            q = <<m, e>> /\ \E laps \in 0 .. sent' : e = m + 1 + laps * SnSize
      BY <2>3, SMTT(30)
    <3>10. \A i \in 1 .. Len(delivered') :
             delivered'[i] <= sent' /\ \E laps \in 0 .. sent' : delivered'[i] = i + laps * SnSize
      BY <2>3, <3>5, <3>6
    <3> QED
      BY <3>5, <3>7, <3>8, <3>9, <3>10
  <2> QED
    BY <2>4, <2>5
<1>6. ASSUME NEW pdu \in inFlight, PduLost(pdu)
      PROVE  RlcIInv'
  BY <1>6 DEF PduLost
<1> QED
  BY <1>2, <1>3, <1>4, <1>5, <1>6 DEF RlcNext

\* What was handed on has the numbers of its places, and is no more than a window.
LEMMA RlcImplies == RlcIInv => RlcDeliversInOrder
  BY DEF RlcIInv, RlcDeliversInOrder

-----------------------------------------------------------------------------
(* 5G-AKA.                                                                  *)

\* A vector is the one of its subscriber, for its network.
VectorOf(v, rand) ==
  LET s == v.supi  ck == F(3, s, rand)  ik == F(4, s, rand)  ak == Ak(s, rand) IN
  /\ v.autn = [sqnXorAk |-> Xor(Sqn(s), ak), mac |-> F1(s, rand, Sqn(s))]
  /\ v.hxresStar = HresStar(rand, ResStar(ck, ik, v.net, rand, F(2, s, rand)))
  /\ v.kseaf = Kseaf(Kausf(CkIkPrime(ck, ik, v.net, Sqn(s), ak), v.net, Sqn(s), ak), v.net)

\* An answer is computed by the UE it names.
AnswerOf(a) ==
  /\ a.rand \in DOMAIN vectors /\ a.sqn = Sqn(a.ue) /\ a.ak = Ak(a.ue, a.rand)
  /\ a.ck = F(3, a.ue, a.rand) /\ a.ik = F(4, a.ue, a.rand)
  /\ a.resStar = ResStar(a.ck, a.ik, a.net, a.rand, F(2, a.ue, a.rand))

\* Vectors are numbered in turn, each is its subscriber's, and an answer is its UE's; the keys
\* two sides hold after an acceptance are the same.
AkaIInv ==
  /\ \E n \in Nat : DOMAIN vectors = 1 .. n
  /\ vectors = [r \in DOMAIN vectors |-> vectors[r]]
  /\ \A r \in DOMAIN vectors : VectorOf(vectors[r], r)
  /\ \A a \in answers : AnswerOf(a)
  /\ \A e \in accepted : e.rand \in DOMAIN vectors
  /\ KeysAgree

\* Two expected responses are the same only when they were computed from the same.
LEMMA HresStarInjective ==
  ASSUME NEW rand, NEW x, NEW y, HresStar(rand, x) = HresStar(rand, y)
  PROVE  x = y
  BY DEF HresStar

\* A response names the network and the subscriber it was computed for.
LEMMA ResStarNames ==
  ASSUME NEW ck, NEW ik, NEW net, NEW s, NEW ck2, NEW ik2, NEW net2, NEW s2, NEW rand,
         ResStar(ck, ik, net, rand, F(2, s, rand)) = ResStar(ck2, ik2, net2, rand, F(2, s2, rand))
  PROVE  net = net2 /\ s = s2
<1>1. <<net, rand, F(2, s, rand)>> = <<net2, rand, F(2, s2, rand)>>
  BY DEF ResStar, Kdf
<1>2. net = net2 /\ F(2, s, rand) = F(2, s2, rand)
  BY <1>1
<1> QED
  BY <1>2 DEF F

\* A MAC names the subscriber and the sequence number it was computed for.
LEMMA MacNames ==
  ASSUME NEW s, NEW u, NEW rand, NEW x, NEW y, F1(s, rand, x) = F1(u, rand, y)
  PROVE  s = u /\ x = y
  BY DEF F1

\* No vector is made at the start.
LEMMA AkaInitInv == AkaInit => AkaIInv
<1> SUFFICES ASSUME AkaInit  PROVE AkaIInv
  OBVIOUS
<1>1. DOMAIN vectors = 1 .. 0 /\ vectors = [r \in DOMAIN vectors |-> vectors[r]]
  BY DEF AkaInit
<1>2. \A r \in DOMAIN vectors : FALSE
  BY <1>1
<1> QED
  BY <1>1, <1>2 DEF AkaInit, AkaIInv, KeysAgree

\* The home network, the UE and the comparison keep what a vector and an answer stand for.
LEMMA AkaNextInv == AkaIInv /\ [AkaNext]_akaVars => AkaIInv'
<1> SUFFICES ASSUME AkaIInv, [AkaNext]_akaVars  PROVE AkaIInv'
  OBVIOUS
<1>1. PICK n \in Nat : DOMAIN vectors = 1 .. n
  BY DEF AkaIInv
<1>2. Cardinality(DOMAIN vectors) = n
  <2>1. 1 \in Int /\ n \in Int
    BY <1>1
  <2>2. Cardinality(1 .. n) = IF 1 > n THEN 0 ELSE n - 1 + 1
    BY ONLY <2>1, FS_Interval
  <2> QED
    BY <1>1, <2>2
<1>3. CASE UNCHANGED akaVars
  BY <1>3 DEF AkaIInv, KeysAgree, AnswerOf, akaVars
<1>4. ASSUME NEW s \in Subscribers, NEW net \in Networks, GenerateAuthVector(s, net)
      PROVE  AkaIInv'
  <2> DEFINE ck == F(3, s, n + 1)  ik == F(4, s, n + 1)  ak == Ak(s, n + 1)
  <2> DEFINE made == [supi |-> s, net |-> net,
        autn |-> [sqnXorAk |-> Xor(Sqn(s), ak), mac |-> F1(s, n + 1, Sqn(s))],
        hxresStar |-> HresStar(n + 1, ResStar(ck, ik, net, n + 1, F(2, s, n + 1))),
        kseaf |-> Kseaf(Kausf(CkIkPrime(ck, ik, net, Sqn(s), ak), net, Sqn(s), ak), net)]
  <2>1. vectors' = [r \in 1 .. n + 1 |-> IF r < n + 1 THEN vectors[r] ELSE made]
    BY <1>2, <1>4 DEF GenerateAuthVector
  <2>2. UNCHANGED <<answers, accepted>>
    BY <1>4 DEF GenerateAuthVector
  <2>3. VectorOf(made, n + 1)
    BY DEF VectorOf
  <2> HIDE DEF made
  <2>4. /\ DOMAIN vectors' = 1 .. n + 1 /\ vectors'[n + 1] = made
        /\ \A r \in 1 .. n : r \in 1 .. n + 1 /\ vectors'[r] = vectors[r]
        /\ \A r \in 1 .. n + 1 : r \in 1 .. n \/ r = n + 1
    BY <2>1
  <2>5. vectors' = [r \in DOMAIN vectors' |-> vectors'[r]]
    BY <2>1
  <2>6. n + 1 \in Nat
    OBVIOUS
  <2>7. \A r \in DOMAIN vectors' : VectorOf(vectors'[r], r)
    <3>1. ASSUME NEW r \in 1 .. n + 1  PROVE VectorOf(vectors'[r], r)
      <4>1. CASE r \in 1 .. n
        BY <1>1, <2>4, <4>1 DEF AkaIInv
      <4>2. CASE r = n + 1
        BY <2>3, <2>4, <4>2
      <4> QED
        BY <2>4, <4>1, <4>2
    <3> QED
      BY <2>4, <3>1
  <2>8. \A a \in answers' : AnswerOf(a)'
    BY <1>1, <2>2, <2>4 DEF AkaIInv, AnswerOf
  <2>9. \A e \in accepted' : e.rand \in DOMAIN vectors' /\ vectors'[e.rand] = vectors[e.rand]
    BY <1>1, <2>2, <2>4 DEF AkaIInv
  <2>10. KeysAgree'
    BY <2>2, <2>9 DEF AkaIInv, KeysAgree
  <2> QED
    BY <2>4, <2>5, <2>6, <2>7, <2>8, <2>9, <2>10 DEF AkaIInv
<1>5. ASSUME NEW u \in Subscribers, NEW net \in Networks, NEW rand \in Rands, UeComputeResponse(u, rand, net)
      PROVE  AkaIInv'
  <2> DEFINE ck == F(3, u, rand)  ik == F(4, u, rand)
  <2>1. rand \in DOMAIN vectors
    BY <1>1, <1>2 DEF Rands
  <2>2. PICK v : v = vectors[rand] /\ VectorOf(v, rand)
    BY <2>1 DEF AkaIInv
  <2>3. PICK sqn : sqn = Xor(v.autn.sqnXorAk, Ak(u, rand))
    OBVIOUS
  <2>4. F1(v.supi, rand, Sqn(v.supi)) = F1(u, rand, sqn)
    <3>1. v.autn.mac = F1(u, rand, sqn)
      BY <1>5, <2>2, <2>3 DEF UeComputeResponse
    <3>2. v.autn.mac = F1(v.supi, rand, Sqn(v.supi))
      BY <2>2 DEF VectorOf
    <3> QED
      BY <3>1, <3>2
  <2>5. sqn = Sqn(u)
    BY <2>4, MacNames
  <2>6. PICK a : /\ answers' = answers \cup {a}
                 /\ a = [ue |-> u, net |-> net, rand |-> rand, ck |-> ck, ik |-> ik, sqn |-> sqn,
                         ak |-> Ak(u, rand), resStar |-> ResStar(ck, ik, net, rand, F(2, u, rand))]
    BY <1>5, <2>2, <2>3 DEF UeComputeResponse
  <2>7. UNCHANGED <<vectors, accepted>>
    BY <1>5 DEF UeComputeResponse
  <2>8. AnswerOf(a)
    BY <2>1, <2>5, <2>6 DEF AnswerOf
  <2>9. \A b \in answers' : AnswerOf(b)'
    BY <2>6, <2>7, <2>8 DEF AkaIInv, AnswerOf
  <2> QED
    BY <2>7, <2>9 DEF AkaIInv, KeysAgree
<1>6. ASSUME NEW a \in answers, VerifyAuthResponse(a)
      PROVE  AkaIInv'
  <2>1. UNCHANGED <<vectors, answers>>
        /\ accepted' = accepted \cup {[ue |-> a.ue, rand |-> a.rand, keys |-> DeriveUeKeys(a)]}
    BY <1>6 DEF VerifyAuthResponse
  <2>2. AnswerOf(a)
    BY DEF AkaIInv
  <2>3. a.rand \in DOMAIN vectors
    BY <2>2 DEF AnswerOf
  <2>4. PICK v : v = vectors[a.rand] /\ VectorOf(v, a.rand)
    BY <2>3 DEF AkaIInv
  <2>5. HresStar(a.rand, a.resStar) = v.hxresStar
    BY <1>6, <2>4 DEF VerifyAuthResponse
  <2>6. PICK s, rand, net : s = v.supi /\ rand = a.rand /\ net = v.net
    OBVIOUS
  <2>7. a.resStar = ResStar(F(3, s, rand), F(4, s, rand), net, rand, F(2, s, rand))
    BY <2>4, <2>5, <2>6, HresStarInjective DEF VectorOf
  <2>8. a.resStar = ResStar(a.ck, a.ik, a.net, rand, F(2, a.ue, rand))
    BY <2>2, <2>6 DEF AnswerOf
  <2>9. a.net = net /\ a.ue = s
    BY <2>7, <2>8, ResStarNames
  <2>10. DeriveUeKeys(a) = NasKeys(Kamf(v.kseaf, s, 0))
    <3>1. v.kseaf = Kseaf(Kausf(CkIkPrime(F(3, s, rand), F(4, s, rand), net, Sqn(s), Ak(s, rand)),
                                net, Sqn(s), Ak(s, rand)), net)
      BY <2>4, <2>6 DEF VectorOf
    <3>2. /\ a.ck = F(3, s, rand) /\ a.ik = F(4, s, rand)
          /\ a.sqn = Sqn(s) /\ a.ak = Ak(s, rand)
      BY <2>2, <2>6, <2>9 DEF AnswerOf
    <3> QED
      BY <2>9, <3>1, <3>2 DEF DeriveUeKeys
  <2>11. ASSUME NEW e \in accepted'
         PROVE  /\ e.rand \in DOMAIN vectors /\ e.ue = vectors[e.rand].supi
                /\ e.keys = NasKeys(Kamf(vectors[e.rand].kseaf, vectors[e.rand].supi, 0))
    <3>1. CASE e \in accepted
      BY <3>1 DEF AkaIInv, KeysAgree
    <3>2. CASE e = [ue |-> a.ue, rand |-> a.rand, keys |-> DeriveUeKeys(a)]
      BY <2>3, <2>4, <2>6, <2>9, <2>10, <3>2
    <3> QED
      BY <2>1, <3>1, <3>2
  <2>12. KeysAgree'
    BY <2>1, <2>11 DEF KeysAgree
  <2> QED
    BY <2>1, <2>11, <2>12 DEF AkaIInv, AnswerOf
<1> QED
  BY <1>3, <1>4, <1>5, <1>6 DEF AkaNext

-----------------------------------------------------------------------------
(* The whole.                                                               *)

\* What the groups' invariants say together.
AccessIInv ==
  /\ ScpIInv /\ NefIInv /\ N3iwfIInv
  /\ UpfIInv /\ PfcpIInv
  /\ focus = "ngap" => NgapIInv
  /\ focus = "fallback" => FallbackIInv
  /\ GnbIInv /\ F1IInv /\ RlcIInv
  /\ NasIInv /\ CodecIInv /\ AkaIInv

\* Every group starts with its invariant, whichever is in focus.
LEMMA AccessInitInv == Init => AccessIInv
BY ScpInitInv, NefInitInv, N3iwfInitInv, UpfInitInv, PfcpInitInv, NgapInitInv, FallbackInitInv,
   GnbInitInv, F1InitInv, RlcInitInv, NasInitInv, CodecInitInv, AkaInitInv
   DEF Init, AccessIInv

\* A step of one group leaves the others' variables alone, and the focus stays.
LEMMA OneGroupMoves ==
  ASSUME [Next]_vars
  PROVE  /\ [ScpNext]_scpVars /\ [NefNext]_nefVars /\ [N3iwfNext]_n3iwfVars
         /\ [UpfeNext]_upfeVars /\ [PfcpNext]_pfcpVars
         /\ focus' = focus
         /\ focus = "ngap" => [NgapNext]_ngapVars
         /\ focus = "fallback" => [FallbackNext]_ngapVars
         /\ [GnbNext]_gnbVars /\ [F1Next]_f1Vars /\ [RlcNext]_rlcVars
         /\ [NasNext]_nasVars /\ [CodecNext]_codecVars /\ [AkaNext]_akaVars
<1>1. CASE Next
  BY <1>1 DEF Next, Focus, edgeVars, userVars, ranVars, secureVars
<1>2. CASE UNCHANGED vars
  BY <1>2 DEF vars, edgeVars, userVars, ranVars, secureVars
<1> QED
  BY <1>1, <1>2

\* So every step of the whole keeps every group's invariant.
LEMMA AccessNextInv == AccessIInv /\ [Next]_vars => AccessIInv'
<1> SUFFICES ASSUME AccessIInv, [Next]_vars PROVE AccessIInv'
  OBVIOUS
<1>1. ScpIInv' /\ NefIInv' /\ N3iwfIInv'
  BY OneGroupMoves, ScpNextInv, NefNextInv, N3iwfNextInv DEF AccessIInv
<1>2. UpfIInv' /\ PfcpIInv'
  BY OneGroupMoves, UpfNextInv, PfcpNextInv DEF AccessIInv
<1>3. (focus' = "ngap" => NgapIInv') /\ (focus' = "fallback" => FallbackIInv')
  BY OneGroupMoves, NgapNextInv, FallbackNextInv DEF AccessIInv
<1>4. GnbIInv' /\ F1IInv' /\ RlcIInv'
  BY OneGroupMoves, GnbNextInv, F1NextInv, RlcNextInv DEF AccessIInv
<1>5. NasIInv' /\ CodecIInv' /\ AkaIInv'
  BY OneGroupMoves, NasNextInv, CodecNextInv, AkaNextInv DEF AccessIInv
<1> QED
  BY <1>1, <1>2, <1>3, <1>4, <1>5 DEF AccessIInv

\* Whatever the constants, the invariant holds of every behaviour.
THEOREM AccessInvariance == Spec => []AccessIInv
BY AccessInitInv, AccessNextInv, PTL DEF Spec

\* The proxy routes to who is registered and counts each failure once, the exposure function
\* reports no more than was asked for, and the N3IWF's tables agree (scp.py, nef.py, n3iwf.py).
THEOREM InterworkingIsAlwaysSound == Spec => []InterworkingInv
<1>1. AccessIInv => InterworkingTypeOK
  BY DEF AccessIInv, ScpIInv, IndexIsSound, BreakersCount, CallsAreTyped, NefIInv, N3iwfIInv,
         InterworkingTypeOK
<1>2. AccessIInv => InterworkingInv
  BY <1>1, ScpImplies, NefImplies, N3iwfImplies DEF AccessIInv, InterworkingInv
<1> QED
  BY <1>2, AccessInvariance, PTL

\* The UPF's tables agree, no PFCP answer reaches a call that has returned, and NGAP frames
\* come in order and whole, over the fallback at least with one connection (upf_enhanced.py,
\* pfcp.py, transport.py, sctp_transport.py).
THEOREM UserPlaneIsAlwaysSound == Spec => []UserPlaneInv
<1>1. AccessIInv => UserPlaneInv
  BY UpfImplies, NgapImplies, FallbackImplies DEF AccessIInv, PfcpIInv, UserPlaneInv
<1> QED
  BY <1>1, AccessInvariance, PTL

\* gNB, AMF, DU and CU do not confuse UEs, RLC hands on in order while its numbers last, and
\* UE and network come to the same keys (gnb.py, cu.py, du.py, aka_5g.py).
THEOREM RanIsAlwaysSound == Spec => []RanInv
<1>1. AccessIInv => RanInv
  BY GnbImplies, RlcImplies DEF AccessIInv, F1IInv, AkaIInv, RanInv
<1> QED
  BY <1>1, AccessInvariance, PTL

\* What one side encodes the other understands: every NAS message of a UE that names itself
\* by its SUCI and of the network, and every PFCP message (nas_5g.py, pfcp.py).
THEOREM BothSidesAlwaysAgree == Spec => []BothSidesAgree
<1>1. AccessIInv => BothSidesAgree
  BY NasImplies, CodecImplies DEF AccessIInv, BothSidesAgree
<1> QED
  BY <1>1, AccessInvariance, PTL
=============================================================================
