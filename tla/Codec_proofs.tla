------------------------------ MODULE Codec_proofs ------------------------------
(***************************************************************************)
(* What is encoded is read back, for all values of the codecs' constants.  *)
(* Both decoders are recursive functions: each is shown to have a solution, *)
(* so that its equation holds, and is then followed over the octets the    *)
(* encoder put in turn.                                                    *)
(***************************************************************************)
EXTENDS NasCodec, PfcpCodec, FiniteSetTheorems, WellFoundedInduction, SequenceTheorems, TLAPS

-----------------------------------------------------------------------------
(* Recursion.                                                               *)

\* A finite set of numbers that is not empty has a least one.
LEMMA NatSetHasLeast ==
  ASSUME NEW S \in SUBSET Nat, IsFiniteSet(S), S # {}
  PROVE  \E m \in S : \A j \in S : m <= j
<1> DEFINE Below(x) == {y \in S : y < x}
           T == {Below(x) : x \in S}
<1>1. T # {} /\ T \subseteq FiniteSubsetsOf(S)
  <2>1. PICK x \in S : TRUE
    OBVIOUS
  <2>2. Below(x) \in T
    BY <2>1
  <2>3. \A V \in T : \A y \in V : y \in S
    OBVIOUS
  <2>4. T \subseteq SUBSET S
    BY <2>3
  <2> QED
    BY <2>2, <2>4, FS_FiniteSubsetsOfFinite
<1>2. PICK U \in T : \A V \in T : <<V, U>> \notin StrictSubsetOrdering(S)
  <2> HIDE DEF T
  <2> QED
    BY <1>1, WFMin, FS_StrictSubsetOrderingWellFounded
<1>3. PICK m \in S : U = Below(m)
  BY <1>2
<1>4. ASSUME NEW j \in S, j < m
      PROVE  FALSE
  <2>0. j \in Nat /\ m \in Nat /\ j < m /\ \A y \in S : y \in Nat
    BY <1>4
  <2>1. Below(j) \subseteq Below(m) /\ j \in Below(m) /\ j \notin Below(j)
    <3>1. j \in Below(m) /\ j \notin Below(j)
      BY <2>0
    <3>2. ASSUME NEW y \in Below(j)
          PROVE  y \in Below(m)
      <4>1. y \in S /\ y \in Nat /\ y < j
        BY <2>0
      <4> QED
        BY <2>0, <4>1
    <3> QED
      BY <3>1, <3>2
  <2>2. <<Below(j), U>> \in StrictSubsetOrdering(S)
    BY <1>3, <2>1 DEF StrictSubsetOrdering
  <2>3. Below(j) \in T
    BY <1>4
  <2> QED
    BY <1>2, <2>2, <2>3
<1> QED
  <2>1. \A j \in S : ~(j < m)
    BY <1>4
  <2> QED
    BY <2>1

\* A set of numbers that is not empty has a least one.
LEMMA NatLeast ==
  ASSUME NEW S \in SUBSET Nat, S # {}
  PROVE  \E m \in S : \A j \in S : m <= j
<1>1. PICK x \in S : x \in Nat
  OBVIOUS
<1> DEFINE U == {y \in S : y <= x}
<1>2. IsFiniteSet(U)
  <2>1. IsFiniteSet(0 .. x)
    BY ONLY <1>1, 0 \in Int, x \in Int, FS_Interval
  <2>2. U \subseteq 0 .. x
    <3>1. ASSUME NEW y \in U  PROVE y \in 0 .. x
      BY <1>1
    <3> QED
      BY <3>1
  <2> HIDE DEF U
  <2> QED
    BY <2>1, <2>2, FS_Subset
<1>3. U \in SUBSET Nat /\ x \in U
  <2>1. x <= x
    BY <1>1
  <2> QED
    BY <2>1
<1>4. PICK m \in U : \A j \in U : m <= j
  <2> HIDE DEF U
  <2> QED
    BY <1>2, <1>3, NatSetHasLeast
<1>5. ASSUME NEW j \in S  PROVE m <= j
  <2>1. m \in S /\ m \in Nat /\ m <= x /\ j \in Nat
    OBVIOUS
  <2>2. CASE j \in U
    BY <1>4, <2>2
  <2>3. CASE j > x
    BY <1>1, <2>1, <2>3
  <2> QED
    BY <1>1, <2>1, <2>2, <2>3
<1> QED
  BY <1>5

\* Counting from 0 up to n, without induction: there is no least number that is left out.
LEMMA UpTo ==
  ASSUME NEW n \in Nat, NEW G, 0 \in G, \A i \in 0 .. n - 1 : i \in G => i + 1 \in G
  PROVE  \A i \in 0 .. n : i \in G
<1> DEFINE Out == {i \in 0 .. n : i \notin G}
<1>1. Out = {}
  <2> SUFFICES ASSUME Out # {} PROVE FALSE
    OBVIOUS
  <2>1. Out \subseteq Nat
    OBVIOUS
  <2>2. PICK m \in Out : \A j \in Out : m <= j
    <3> HIDE DEF Out
    <3> QED
      BY <2>1, NatLeast
  <2>3. m \in Nat /\ m <= n /\ m # 0 /\ m \notin G
    BY <2>2
  <2>4. m - 1 \in 0 .. n - 1 /\ m - 1 \notin Out
    <3>1. m - 1 \in 0 .. n - 1 /\ ~(m <= m - 1)
      BY <2>3
    <3> HIDE DEF Out
    <3> QED
      BY <2>2, <3>1
  <2>5. m - 1 \in G /\ (m - 1) + 1 = m
    BY <2>3, <2>4
  <2> QED
    BY <2>3, <2>4, <2>5
<1> QED
  BY <1>1

\* step[x][f] is what a recursive function f has at x, told by f at arguments of less measure.
IsRecursion(D, S, m, step) ==
  /\ S # {} /\ m \in [D -> Nat] /\ step \in [D -> [[D -> S] -> S]]
  /\ \E bound \in Nat : \A x \in D : m[x] <= bound
  /\ \A x \in D : \A f, g \in [D -> S] :
       (\A y \in D : m[y] < m[x] => f[y] = g[y]) => step[x][f] = step[x][g]
IsSolution(f, D, step) == \A x \in D : f[x] = step[x][f]

\* Such a function exists: of the measures up to which none solves the equation, none is least.
LEMMA RecursionHasSolution ==
  ASSUME NEW D, NEW S, NEW m, NEW step, IsRecursion(D, S, m, step)
  PROVE  \E f \in [D -> S] : IsSolution(f, D, step)
<1> USE DEF IsRecursion
<1>0. PICK bound \in Nat : \A x \in D : m[x] <= bound
  OBVIOUS
<1> DEFINE Solves(f, k) == \A x \in D : m[x] < k => f[x] = step[x][f]
           Unsolved == {k \in Nat : \A f \in [D -> S] : ~Solves(f, k)}
<1>1. Unsolved = {}
  <2> SUFFICES ASSUME Unsolved # {} PROVE FALSE
    OBVIOUS
  <2>1. PICK k \in Unsolved : \A j \in Unsolved : k <= j
    <3>1. Unsolved \subseteq Nat
      OBVIOUS
    <3> QED
      BY <3>1, NatLeast
  <2>2. k # 0
    <3>1. PICK s \in S : TRUE
      OBVIOUS
    <3>2. [x \in D |-> s] \in [D -> S]
      OBVIOUS
    <3>3. Solves([x \in D |-> s], 0)
      OBVIOUS
    <3> QED
      BY <2>1, <3>2, <3>3
  <2>3. k - 1 \in Nat /\ k - 1 \notin Unsolved
    <3>1. k \in Nat
      BY <2>1
    <3>2. k - 1 \in Nat /\ ~(k <= k - 1)
      BY <2>2, <3>1
    <3> HIDE DEF Unsolved
    <3> QED
      BY <2>1, <3>2
  <2>4. PICK f \in [D -> S] : Solves(f, k - 1)
    BY <2>3
  <2> DEFINE g == [x \in D |-> step[x][f]]
  <2>5. g \in [D -> S]
    OBVIOUS
  <2>6. ASSUME NEW x \in D, m[x] < k
        PROVE  g[x] = step[x][g]
    <3>1. \A y \in D : m[y] < m[x] => f[y] = g[y]
      BY <2>1, <2>4, <2>6
    <3>2. step[x][f] = step[x][g]
      BY <2>5, <3>1
    <3> QED
      BY <3>2
  <2> QED
    BY <2>1, <2>5, <2>6
<1>2. PICK f \in [D -> S] : Solves(f, bound + 1)
  <2>1. bound + 1 \in Nat /\ bound + 1 \notin Unsolved
    <3> HIDE DEF Unsolved
    <3> QED
      BY <1>1
  <2> QED
    BY <2>1
<1>3. ASSUME NEW x \in D
      PROVE  f[x] = step[x][f]
  <2>1. m[x] \in Nat /\ m[x] <= bound
    BY <1>0
  <2> QED
    BY <1>2, <2>1
<1> QED
  BY <1>3 DEF IsSolution

\* Octets put together.
Octet == 0 .. 255
Bytes == Seq(Octet)

\* Two runs of octets one after the other, each in its place.
LEMMA Joined ==
  ASSUME NEW s \in Bytes, NEW t \in Bytes
  PROVE  /\ s \o t \in Bytes /\ Len(s \o t) = Len(s) + Len(t) /\ Len(s) \in Nat /\ Len(t) \in Nat
         /\ \A i \in 1 .. Len(s) : (s \o t)[i] = s[i]
         /\ \A i \in 1 .. Len(t) : (s \o t)[Len(s) + i] = t[i]
         /\ <<>> \o s = s /\ s \o <<>> = s
<1>1. s \in Seq(Octet) /\ t \in Seq(Octet)
  BY DEF Bytes
<1>2. <<>> \o s = s /\ s \o <<>> = s
  BY <1>1, ConcatEmptySeq
<1>3. /\ s \o t \in Seq(Octet) /\ Len(s \o t) = Len(s) + Len(t)
      /\ \A i \in 1 .. Len(s) + Len(t) : (s \o t)[i] = IF i <= Len(s) THEN s[i] ELSE t[i - Len(s)]
  BY <1>1, ConcatProperties
<1>4. Len(s) \in Nat /\ Len(t) \in Nat
  BY <1>1
<1>5. ASSUME NEW i \in 1 .. Len(t)
      PROVE  (s \o t)[Len(s) + i] = t[i]
  <2>1. i \in Nat /\ Len(s) + i \in 1 .. Len(s) + Len(t) /\ ~(Len(s) + i <= Len(s)) /\ (Len(s) + i) - Len(s) = i
    BY <1>4
  <2> QED
    BY <1>3, <2>1
<1> QED
  BY <1>2, <1>3, <1>4, <1>5 DEF Bytes

\* FlattenSeq meets its recursive definition: the runs are put together one by one.
LEMMA FlattenGrows ==
  ASSUME NEW ss \in Seq(Bytes), Len(ss) > 0
  PROVE  \E Pre \in [1 .. Len(ss) -> Bytes] :
           /\ Pre[1] = ss[1]
           /\ \A i \in 2 .. Len(ss) : Pre[i] = Pre[i - 1] \o ss[i]
           /\ FlattenSeq(ss) = Pre[Len(ss)]
<1> DEFINE D == 1 .. Len(ss)
           Step(f, i) == IF i = 1 THEN ss[i] ELSE f[i - 1] \o ss[i]
           step == [i \in D |-> [f \in [D -> Bytes] |-> Step(f, i)]]
           m == [i \in D |-> i]
           Flattens(f) == f = [i \in D |-> Step(f, i)]
<1>1. \A i \in D : ss[i] \in Bytes /\ (i # 1 => i - 1 \in D)
  OBVIOUS
<1>2. \A i \in D : \A f \in [D -> Bytes] : Step(f, i) \in Bytes
  <2> SUFFICES ASSUME NEW i \in D, NEW f \in [D -> Bytes] PROVE Step(f, i) \in Bytes
    OBVIOUS
  <2>1. CASE i = 1
    BY <1>1, <2>1
  <2>2. CASE i # 1
    <3>1. f[i - 1] \in Bytes /\ ss[i] \in Bytes
      BY <1>1, <2>2
    <3> QED
      BY <2>2, <3>1, Joined
  <2> QED
    BY <2>1, <2>2
<1>3. m \in [D -> Nat] /\ (\A i \in D : m[i] <= Len(ss)) /\ Len(ss) \in Nat /\ <<>> \in Bytes
  BY DEF Bytes
<1>4. \A i \in D : \A f, g \in [D -> Bytes] : (\A j \in D : m[j] < m[i] => f[j] = g[j]) => Step(f, i) = Step(g, i)
  <2> SUFFICES ASSUME NEW i \in D, NEW f \in [D -> Bytes], NEW g \in [D -> Bytes],
                      \A j \in D : m[j] < m[i] => f[j] = g[j]
               PROVE  Step(f, i) = Step(g, i)
    OBVIOUS
  <2>1. i # 1 => f[i - 1] = g[i - 1]
    BY <1>1
  <2> QED
    BY <2>1
<1>5. PICK f \in [D -> Bytes] : \A i \in D : f[i] = step[i][f]
  <2> HIDE DEF D, m, Step
  <2>1. step \in [D -> [[D -> Bytes] -> Bytes]]
    BY <1>2
  <2>2. \A i \in D : \A f, g \in [D -> Bytes] : (\A j \in D : m[j] < m[i] => f[j] = g[j]) => step[i][f] = step[i][g]
    BY <1>4
  <2>3. Bytes # {} /\ m \in [D -> Nat] /\ Len(ss) \in Nat /\ \A i \in D : m[i] <= Len(ss)
    BY <1>3
  <2> HIDE DEF step
  <2> QED
    <3>1. IsRecursion(D, Bytes, m, step)
      BY <2>1, <2>2, <2>3 DEF IsRecursion
    <3> QED
      BY <3>1, RecursionHasSolution DEF IsSolution
<1>6. Flattens(f)
  <2> HIDE DEF D, Step
  <2> QED
    BY <1>5
<1> DEFINE Pre == CHOOSE h : Flattens(h)
<1>7. Flattens(Pre)
  <2> HIDE DEF Flattens
  <2> QED
    BY <1>6
<1>8. FlattenSeq(ss) = Pre[Len(ss)]
  BY DEF FlattenSeq
<1>9. \A i \in D : Pre[i] = Step(Pre, i)
  <2> HIDE DEF Pre, Step
  <2> QED
    BY <1>7
<1>10. Len(ss) \in D /\ 1 \in D
  OBVIOUS
<1> DEFINE G == {i \in Nat : i \in D => Pre[i] \in Bytes}
<1>11. \A i \in 0 .. Len(ss) : i \in G
  <2>1. 0 \in G
    OBVIOUS
  <2>2. ASSUME NEW i \in 0 .. Len(ss) - 1, i \in G
        PROVE  i + 1 \in G
    <3>1. i + 1 \in D /\ ss[i + 1] \in Bytes /\ (i # 0 => i \in D)
      OBVIOUS
    <3>2. Pre[i + 1] = IF i + 1 = 1 THEN ss[i + 1] ELSE Pre[(i + 1) - 1] \o ss[i + 1]
      BY <1>9, <3>1
    <3>3. CASE i = 0
      <4> HIDE DEF Pre, D
      <4> QED
        BY <3>1, <3>2, <3>3
    <3>4. CASE i # 0
      <4>1. Pre[i] \in Bytes
        <5>1. i \in D => Pre[i] \in Bytes
          <6> HIDE DEF Pre, D
          <6> QED
            BY <2>2
        <5> HIDE DEF Pre, D
        <5> QED
          BY <3>1, <3>4, <5>1
      <4>2. Pre[i + 1] = Pre[i] \o ss[i + 1]
        <5>1. i \in Nat /\ i + 1 # 1 /\ (i + 1) - 1 = i
          BY <3>4
        <5> HIDE DEF Pre
        <5> QED
          BY <3>2, <5>1
      <4> HIDE DEF Pre
      <4>3. Pre[i + 1] \in Bytes
        BY <3>1, <4>1, <4>2, Joined
      <4> QED
        BY <4>3
    <3> QED
      BY <3>3, <3>4
  <2> HIDE DEF G
  <2>3. Len(ss) \in Nat
    OBVIOUS
  <2> QED
    BY <2>1, <2>2, <2>3, UpTo
<1>12. \A i \in D : Pre[i] \in Bytes
  <2> HIDE DEF Pre
  <2> QED
    BY <1>11
<1>13. Pre = [i \in D |-> Pre[i]]
  <2>1. Pre = [i \in D |-> Step(Pre, i)]
    BY <1>7
  <2> HIDE DEF Pre, Step, D
  <2>2. [i \in D |-> Step(Pre, i)] = [i \in D |-> Pre[i]]
    BY <1>9
  <2> QED
    BY <2>1, <2>2
<1>14. Pre \in [D -> Bytes]
  <2> HIDE DEF Pre, D
  <2> QED
    BY <1>12, <1>13
<1>15. Pre[1] = ss[1] /\ \A i \in 2 .. Len(ss) : Pre[i] = Pre[i - 1] \o ss[i]
  <2>1. ASSUME NEW i \in 2 .. Len(ss)
        PROVE  i \in D /\ i # 1
    OBVIOUS
  <2> HIDE DEF Pre, D
  <2>2. Pre[1] = ss[1]
    BY <1>9, <1>10
  <2>3. \A i \in 2 .. Len(ss) : Pre[i] = Pre[i - 1] \o ss[i]
    BY <1>9, <2>1
  <2> QED
    BY <2>2, <2>3
<1> QED
  <2> HIDE DEF Pre
  <2> QED
    BY <1>8, <1>14, <1>15

-----------------------------------------------------------------------------
(* Octets put together.                                                     *)

\* The concatenation of ss grows part by part from the empty sequence, and each part keeps its place.
Grows(ss, Pre) == /\ Pre[0] = <<>> /\ FlattenSeq(ss) = Pre[Len(ss)]
                /\ \A i \in 1 .. Len(ss) : Pre[i] = Pre[i - 1] \o ss[i]

\* The same, with the empty run at the start.
LEMMA FlattenGrowsFromNothing ==
  ASSUME NEW ss \in Seq(Bytes)
  PROVE  \E Pre \in [0 .. Len(ss) -> Bytes] : Grows(ss, Pre)
<1>1. CASE Len(ss) = 0
  <2> DEFINE Pre == [i \in 0 .. 0 |-> <<>>]
  <2>1. ss = <<>> /\ FlattenSeq(ss) = <<>>
    BY <1>1 DEF FlattenSeq
  <2>2. Pre \in [0 .. Len(ss) -> Bytes] /\ Pre[0] = <<>>
    BY <1>1 DEF Bytes
  <2> HIDE DEF Pre
  <2>3. Grows(ss, Pre)
    BY <1>1, <2>1, <2>2 DEF Grows
  <2> QED
    BY <2>2, <2>3
<1>2. CASE Len(ss) > 0
  <2>1. PICK H \in [1 .. Len(ss) -> Bytes] :
               /\ H[1] = ss[1]
               /\ \A i \in 2 .. Len(ss) : H[i] = H[i - 1] \o ss[i]
               /\ FlattenSeq(ss) = H[Len(ss)]
    BY <1>2, FlattenGrows
  <2> DEFINE Pre == [i \in 0 .. Len(ss) |-> IF i = 0 THEN <<>> ELSE H[i]]
  <2>2. Pre \in [0 .. Len(ss) -> Bytes]
    BY DEF Bytes
  <2>3. Pre[0] = <<>> /\ \A i \in 1 .. Len(ss) : Pre[i] = H[i]
    OBVIOUS
  <2>4. \A i \in 1 .. Len(ss) : ss[i] \in Bytes
    OBVIOUS
  <2> HIDE DEF Pre
  <2>5. FlattenSeq(ss) = Pre[Len(ss)]
    BY <1>2, <2>1, <2>3
  <2>6. ASSUME NEW i \in 1 .. Len(ss)
        PROVE  Pre[i] = Pre[i - 1] \o ss[i]
    <3>1. CASE i = 1
      <4>1. Pre[1] = ss[1] /\ Pre[0] = <<>> /\ ss[1] \in Bytes
        BY <2>1, <2>3, <2>4, <3>1
      <4>2. Pre[1] = <<>> \o ss[1]
        BY <4>1, Joined
      <4>3. Pre[i] = Pre[1] /\ ss[i] = ss[1] /\ Pre[i - 1] = Pre[0]
        <5>1. i - 1 = 0
          BY <3>1
        <5> QED
          BY ONLY <3>1, <5>1
      <4> QED
        BY ONLY <4>1, <4>2, <4>3
    <3>2. CASE i # 1
      <4>1. i \in 2 .. Len(ss) /\ i - 1 \in 1 .. Len(ss)
        BY <3>2
      <4>2. i \in 1 .. Len(ss) /\ Pre[i] = H[i] /\ Pre[i - 1] = H[i - 1]
        BY <2>3, <4>1
      <4>3. H[i] = H[i - 1] \o ss[i]
        BY <2>1, <4>1
      <4> QED
        BY <4>2, <4>3
    <3> QED
      BY <3>1, <3>2
  <2>7. Grows(ss, Pre)
    BY <2>3, <2>5, <2>6 DEF Grows
  <2> QED
    BY <2>2, <2>7
<1> QED
  BY <1>1, <1>2

\* Each part keeps the place it is given.
LEMMA PartsKeepTheirPlace ==
  ASSUME NEW ss \in Seq(Bytes), NEW Pre \in [0 .. Len(ss) -> Bytes], Grows(ss, Pre),
         NEW i \in 1 .. Len(ss)
  PROVE  /\ Len(Pre[i]) = Len(Pre[i - 1]) + Len(ss[i]) /\ Len(Pre[i]) <= Len(FlattenSeq(ss))
         /\ \A k \in 1 .. Len(ss[i]) : FlattenSeq(ss)[Len(Pre[i - 1]) + k] = ss[i][k]
<1> DEFINE n == Len(ss)
           Kept(j) == /\ Len(Pre[i]) <= Len(Pre[j])
                      /\ \A k \in 1 .. Len(Pre[i]) : Pre[j][k] = Pre[i][k]
           G == {j \in Nat : j \in i .. n => Kept(j)}
<1>1. n \in Nat /\ ss[i] \in Bytes /\ Pre[i - 1] \in Bytes /\ Pre[i] \in Bytes /\ Pre[i] = Pre[i - 1] \o ss[i]
  <2>1. n \in Nat /\ i \in 0 .. n /\ i - 1 \in 0 .. n /\ ss[i] \in Bytes
    OBVIOUS
  <2>2. Pre[i - 1] \in Bytes /\ Pre[i] \in Bytes
    BY <2>1
  <2>3. Pre[i] = Pre[i - 1] \o ss[i]
    BY DEF Grows
  <2> QED
    BY <2>1, <2>2, <2>3
<1>2. 0 \in G
  OBVIOUS
<1>3. ASSUME NEW j \in 0 .. n - 1, j \in G
      PROVE  j + 1 \in G
  <2> SUFFICES ASSUME j + 1 \in i .. n PROVE Kept(j + 1)
    OBVIOUS
  <2>1. CASE j + 1 = i
    <3>1. Len(Pre[i]) \in Nat
      BY <1>1, Joined
    <3> QED
      BY <2>1, <3>1
  <2>2. CASE j + 1 # i
    <3>1. j \in i .. n /\ j \in 0 .. n /\ j + 1 \in 1 .. n /\ (j + 1) - 1 = j
      BY <1>1, <2>2
    <3>2. Kept(j)
      BY <1>3, <3>1
    <3>3. Pre[j] \in Bytes /\ ss[j + 1] \in Bytes
      BY <3>1
    <3>4. Pre[j + 1] = Pre[j] \o ss[j + 1]
      BY <3>1 DEF Grows
    <3> DEFINE longer == Pre[j] \o ss[j + 1]
    <3>5. /\ Len(longer) = Len(Pre[j]) + Len(ss[j + 1]) /\ \A k \in 1 .. Len(Pre[j]) : longer[k] = Pre[j][k]
          /\ Len(Pre[j]) \in Nat /\ Len(ss[j + 1]) \in Nat
      BY <3>3, Joined
    <3>6. Len(Pre[i]) \in Nat
      BY <1>1, Joined
    <3> HIDE DEF longer
    <3>7. Pre[j + 1] = longer
      BY <3>4 DEF longer
    <3>8. Len(Pre[i]) <= Len(longer) /\ \A k \in 1 .. Len(Pre[i]) : longer[k] = Pre[i][k]
      <4>1. ASSUME NEW k \in 1 .. Len(Pre[i])
            PROVE  longer[k] = Pre[i][k]
        <5>1. k \in 1 .. Len(Pre[j])
          BY <3>2, <3>5, <3>6
        <5>2. longer[k] = Pre[j][k]
          BY ONLY <3>5, <5>1
        <5>3. Pre[j][k] = Pre[i][k]
          BY <3>2
        <5> QED
          BY ONLY <5>2, <5>3
      <4>2. Len(Pre[i]) <= Len(Pre[j])
        BY <3>2
      <4>3. Len(Pre[i]) <= Len(longer)
        <5>1. \A a, b, c \in Nat : c <= a => c <= a + b
          OBVIOUS
        <5> QED
          BY ONLY <3>5, <3>6, <4>2, <5>1, Zenon
      <4> QED
        BY ONLY <4>1, <4>3
    <3> HIDE DEF Kept
    <3>9. Kept(j + 1)
      BY ONLY <3>7, <3>8 DEF Kept
    <3> QED
      BY <3>9
  <2> QED
    BY <2>1, <2>2
<1>4. n \in G
  <2> HIDE DEF G
  <2>1. \A j \in 0 .. n : j \in G
    BY <1>1, <1>2, <1>3, UpTo
  <2> QED
    BY <1>1, <2>1
<1>5. Kept(n)
  <2>1. n \in i .. n /\ n \in Nat
    BY <1>1
  <2> HIDE DEF Kept
  <2> QED
    BY <1>4, <2>1
<1>6. FlattenSeq(ss) = Pre[n]
  BY DEF Grows
<1> DEFINE joined == Pre[i - 1] \o ss[i]
<1>7. /\ Len(joined) = Len(Pre[i - 1]) + Len(ss[i])
      /\ \A k \in 1 .. Len(ss[i]) : joined[Len(Pre[i - 1]) + k] = ss[i][k]
      /\ Len(Pre[i - 1]) \in Nat /\ Len(ss[i]) \in Nat
  BY <1>1, Joined
<1> HIDE DEF joined
<1>8. Pre[i] = joined
  BY <1>1 DEF joined
<1>9. \A k \in 1 .. Len(ss[i]) : Len(Pre[i - 1]) + k \in 1 .. Len(Pre[i])
  <2>1. PICK a, b : a = Len(Pre[i - 1]) /\ b = Len(ss[i])
    OBVIOUS
  <2>2. a \in Nat /\ b \in Nat /\ Len(Pre[i]) = a + b
    BY <1>7, <1>8, <2>1
  <2>3. \A k \in 1 .. b : a + k \in 1 .. a + b
    BY ONLY <2>2
  <2> QED
    BY ONLY <2>1, <2>2, <2>3
<1>10. ASSUME NEW k \in 1 .. Len(ss[i])
       PROVE  FlattenSeq(ss)[Len(Pre[i - 1]) + k] = ss[i][k]
  BY <1>5, <1>6, <1>7, <1>8, <1>9
<1> QED
  BY <1>5, <1>6, <1>7, <1>8, <1>10

\* Runs of octets put together are octets.
LEMMA FlattenType ==
  ASSUME NEW ss \in Seq(Bytes)
  PROVE  FlattenSeq(ss) \in Bytes
<1>1. PICK Pre \in [0 .. Len(ss) -> Bytes] : Grows(ss, Pre)
  BY FlattenGrowsFromNothing
<1>2. Len(ss) \in 0 .. Len(ss)
  OBVIOUS
<1> QED
  BY <1>1, <1>2 DEF Grows

\* The concatenation is no longer than its parts allow.
LEMMA FlattenIsBounded ==
  ASSUME NEW ss \in Seq(Bytes), NEW most \in Nat, \A i \in 1 .. Len(ss) : Len(ss[i]) <= most
  PROVE  Len(FlattenSeq(ss)) <= Len(ss) * most
<1>1. PICK Pre \in [0 .. Len(ss) -> Bytes] : Grows(ss, Pre)
  BY FlattenGrowsFromNothing
<1> DEFINE G == {i \in Nat : i <= Len(ss) => Len(Pre[i]) <= i * most}
<1>2. 0 \in G
  BY <1>1, Len(<<>>) = 0 DEF Grows
<1>3. ASSUME NEW i \in 0 .. Len(ss) - 1, i \in G
      PROVE  i + 1 \in G
  <2>1. i \in Nat /\ i <= Len(ss) /\ i + 1 \in 1 .. Len(ss) /\ (i + 1) - 1 = i
    OBVIOUS
  <2>2. Len(Pre[i]) <= i * most
    BY <1>3, <2>1
  <2>3. Len(Pre[i + 1]) = Len(Pre[i]) + Len(ss[i + 1])
    <3>1. Len(Pre[i + 1]) = Len(Pre[(i + 1) - 1]) + Len(ss[i + 1])
      BY <1>1, <2>1, PartsKeepTheirPlace
    <3> QED
      BY <2>1, <3>1
  <2>4. Pre[i] \in Bytes /\ ss[i + 1] \in Bytes
    BY <2>1
  <2>5. Len(Pre[i]) \in Nat /\ Len(ss[i + 1]) \in Nat /\ Len(ss[i + 1]) <= most
    BY <2>1, <2>4, Joined
  <2>6. (i + 1) * most = i * most + most /\ i * most \in Nat
    BY <2>1
  <2> DEFINE before == i * most
  <2>7. Len(Pre[i + 1]) <= before + most
    <3> HIDE DEF before
    <3>1. Len(Pre[i]) <= before /\ before \in Nat
      BY <2>2, <2>6 DEF before
    <3>2. most \in Nat
      OBVIOUS
    <3> QED
      BY ONLY <2>3, <2>5, <3>1, <3>2
  <2> QED
    BY <2>1, <2>6, <2>7
<1>4. Len(ss) \in G
  <2> HIDE DEF G
  <2>1. Len(ss) \in Nat
    OBVIOUS
  <2>2. \A j \in 0 .. Len(ss) : j \in G
    BY <1>2, <1>3, <2>1, UpTo
  <2> QED
    BY <2>1, <2>2
<1> QED
  BY <1>1, <1>4 DEF Grows

\* The same, to be expanded only where it is needed.
Joins(j, s, t) ==
  /\ j \in Bytes /\ Len(j) = Len(s) + Len(t) /\ Len(s) \in Nat /\ Len(t) \in Nat
  /\ \A i \in 1 .. Len(s) : j[i] = s[i]
  /\ \A i \in 1 .. Len(t) : j[Len(s) + i] = t[i]

\* Putting two runs together joins them.
LEMMA JoinedBytes == \A s, t \in Bytes : Joins(s \o t, s, t)
BY Joined DEF Joins

\* It does not matter which two of three runs are joined first.
LEMMA JoinedTwice ==
  ASSUME NEW s \in Bytes, NEW t \in Bytes, NEW u \in Bytes
  PROVE  (s \o t) \o u = s \o (t \o u)
<1>1. s \in Seq(Octet) /\ t \in Seq(Octet) /\ u \in Seq(Octet)
  BY DEF Bytes
<1> QED
  BY <1>1, ConcatAssociative

\* A number in octets is read back, whether two of them hold it or four.
LEMMA TwoOctets ==
  ASSUME NEW n \in Nat, n <= 65535
  PROVE  /\ Short(n) \in Bytes /\ Len(Short(n)) = 2 /\ Word(n, 2) = Short(n)
         /\ Short(n)[1] * 256 + Short(n)[2] = n
<1> DEFINE a == n \div 256
           b == n % 256
<1>1. a % 256 = a
  OBVIOUS
<1>2. a \in Nat /\ a <= 255 /\ b \in Nat /\ b <= 255 /\ b = n - a * 256
  OBVIOUS
<1>3. Short(n) = <<a, b>>
  BY <1>1 DEF Short
<1> HIDE DEF a, b
<1>4. a \in Octet /\ b \in Octet /\ a * 256 + b = n
  BY <1>2 DEF Octet
<1>5. <<a, b>> \in Seq(Octet) /\ Len(<<a, b>>) = 2 /\ <<a, b>>[1] = a /\ <<a, b>>[2] = b
  BY <1>4
<1>6. Word(n, 2) = Short(n)
  BY DEF Word
<1> QED
  BY <1>3, <1>4, <1>5, <1>6 DEF Bytes

\* A number of 32 bits is what its four octets say.
LEMMA FourOctets ==
  ASSUME NEW n \in Nat, n <= Largest
  PROVE  /\ Word(n, 4) \in Bytes /\ Len(Word(n, 4)) = 4
         /\ (Word(n, 4)[1] * 256 + Word(n, 4)[2]) * 65536 + (Word(n, 4)[3] * 256 + Word(n, 4)[4]) = n
<1> DEFINE high == n \div 65536
           low == n % 65536
<1>0. high \in Nat /\ high <= 65535 /\ low \in Nat /\ low <= 65535 /\ low = n - high * 65536
  BY DEF Largest
<1> HIDE DEF high, low
<1>1. high \in Nat /\ high <= 65535 /\ low \in Nat /\ low <= 65535 /\ high * 65536 + low = n
  BY <1>0
<1>2. Short(high) \in Bytes /\ Len(Short(high)) = 2 /\ Short(high)[1] * 256 + Short(high)[2] = high
  BY <1>1, TwoOctets
<1>3. Short(low) \in Bytes /\ Len(Short(low)) = 2 /\ Short(low)[1] * 256 + Short(low)[2] = low
  BY <1>1, TwoOctets
<1>4. [i \in 1 .. 4 - 4 |-> 0] = <<>>
  OBVIOUS
<1>5. Word(n, 4) = Short(high) \o Short(low)
  <2>1. Word(n, 4) = (<<>> \o Short(high)) \o Short(low)
    BY <1>4 DEF Word, high, low
  <2>2. <<>> \o Short(high) = Short(high)
    BY <1>2, Joined
  <2> QED
    BY <2>1, <2>2
<1> DEFINE w == Short(high) \o Short(low)
<1>6. /\ w \in Bytes /\ Len(w) = Len(Short(high)) + Len(Short(low))
      /\ \A i \in 1 .. Len(Short(high)) : w[i] = Short(high)[i]
      /\ \A i \in 1 .. Len(Short(low)) : w[Len(Short(high)) + i] = Short(low)[i]
  BY <1>2, <1>3, Joined
<1> HIDE DEF w
<1>7. Len(w) = 4 /\ w[1] = Short(high)[1] /\ w[2] = Short(high)[2] /\ w[3] = Short(low)[1] /\ w[4] = Short(low)[2]
  <2>1. 1 \in 1 .. 2 /\ 2 \in 1 .. 2 /\ 2 + 1 = 3 /\ 2 + 2 = 4
    OBVIOUS
  <2> QED
    BY <1>2, <1>3, <1>6, <2>1
<1>8. (w[1] * 256 + w[2]) * 65536 + (w[3] * 256 + w[4]) = n
  <2>1. w[1] * 256 + w[2] = high /\ w[3] * 256 + w[4] = low
    BY ONLY <1>2, <1>3, <1>7
  <2> QED
    BY ONLY <1>1, <2>1
<1>9. Word(n, 4) = w
  BY <1>5 DEF w
<1> QED
  BY ONLY <1>6, <1>7, <1>8, <1>9

\* Of the eight octets of a smaller number the last four are those of its 32 bits.
LEMMA EightOctets ==
  ASSUME NEW n \in Nat, n <= Largest
  PROVE  /\ Word(n, 8) \in Bytes /\ Len(Word(n, 8)) = 8
         /\ \A i \in 1 .. 4 : Word(n, 8)[4 + i] = Word(n, 4)[i]
<1> DEFINE high == Short(n \div 65536)
           low == Short(n % 65536)
           zeros == [i \in 1 .. 4 |-> 0]
<1>1. high \in Bytes /\ low \in Bytes
  <2>1. n \div 65536 \in Nat /\ n \div 65536 <= 65535 /\ n % 65536 \in Nat /\ n % 65536 <= 65535
    BY DEF Largest
  <2> QED
    BY <2>1, TwoOctets
<1>2. zeros \in Bytes /\ Len(zeros) = 4
  <2>1. 0 \in Octet
    BY DEF Octet
  <2> QED
    BY <2>1 DEF Bytes
<1>3. high \o low \in Bytes /\ zeros \o (high \o low) = (zeros \o high) \o low
  <2> HIDE DEF high, low, zeros
  <2>1. high \o low \in Bytes
    BY <1>1, Joined
  <2>2. zeros \o (high \o low) = (zeros \o high) \o low
    BY <1>1, <1>2, JoinedTwice
  <2> QED
    BY <2>1, <2>2
<1>4. Word(n, 4) = high \o low
  <2>1. [i \in 1 .. 4 - 4 |-> 0] = <<>>
    OBVIOUS
  <2>2. Word(n, 4) = (<<>> \o high) \o low
    BY <2>1 DEF Word
  <2> HIDE DEF high, low
  <2> QED
    BY <1>1, <2>2, Joined
<1>5. Word(n, 8) = zeros \o Word(n, 4)
  <2>1. Word(n, 8) = (zeros \o high) \o low
    <3>1. [i \in 1 .. 8 - 4 |-> 0] = zeros
      OBVIOUS
    <3> QED
      BY <3>1 DEF Word
  <2> HIDE DEF high, low, zeros
  <2> QED
    BY <1>3, <1>4, <2>1
<1>6. Word(n, 4) \in Bytes /\ Len(Word(n, 4)) = 4
  BY FourOctets
<1> DEFINE w == zeros \o Word(n, 4)
<1>7. /\ w \in Bytes /\ Len(w) = Len(zeros) + Len(Word(n, 4))
      /\ \A i \in 1 .. Len(Word(n, 4)) : w[Len(zeros) + i] = Word(n, 4)[i]
  <2> HIDE DEF zeros
  <2> QED
    BY <1>2, <1>6, Joined
<1> HIDE DEF w, zeros
<1>8. Len(w) = 8 /\ \A i \in 1 .. 4 : w[4 + i] = Word(n, 4)[i]
  BY ONLY <1>2, <1>6, <1>7
<1> QED
  BY ONLY <1>5, <1>7, <1>8 DEF w

-----------------------------------------------------------------------------
(* Split: an element list is read back (pfcp.py:1121-1135).                 *)

\* What Split finds in d from an octet on, as its defining equation says it.
FoundFrom(d, first, rest) ==
  IF first + 3 > Len(d) THEN <<>>
  ELSE LET past == first + 4 + ShortAt(d, first + 2)
       IN <<Leaf(ShortAt(d, first), SubSeq(d, first + 4, IF past > Len(d) THEN Len(d) ELSE past - 1))>>
          \o rest[past]

\* from is what Split reads in d.
Splits(d, from) == from = [first \in Nat \ {0} |-> FoundFrom(d, first, from)]

\* Elements as Split finds them.
LeafRecords == [type : Nat, value : Bytes]

\* An element's length leads past its first octet, so the rest is read from further on.
LEMMA ElementFound ==
  ASSUME NEW d \in Bytes, NEW first \in Nat \ {0}, first + 3 <= Len(d)
  PROVE  LET past == first + 4 + ShortAt(d, first + 2) IN
         /\ ShortAt(d, first) \in Nat /\ past \in Nat \ {0} /\ past > first /\ first + 4 <= Len(d) + 1
         /\ SubSeq(d, first + 4, IF past > Len(d) THEN Len(d) ELSE past - 1) \in Bytes
<1> DEFINE past == first + 4 + ShortAt(d, first + 2)
           last == IF past > Len(d) THEN Len(d) ELSE past - 1
<1>1. d \in Seq(Octet) /\ Len(d) \in Nat
  BY DEF Bytes
<1>2. ASSUME NEW i \in 1 .. Len(d)
      PROVE  d[i] \in Octet /\ d[i] \in Nat
  <2>1. d[i] \in Octet
    BY <1>1, ElementOfSeq
  <2>2. \A o \in Octet : o \in Nat
    BY DEF Octet
  <2> QED
    BY <2>1, <2>2
<1>3. ShortAt(d, first) \in Nat /\ ShortAt(d, first + 2) \in Nat
  <2>1. first \in 1 .. Len(d) /\ first + 1 \in 1 .. Len(d) /\ first + 2 \in 1 .. Len(d) /\ (first + 2) + 1 \in 1 .. Len(d)
    BY <1>1
  <2>2. d[first] \in Nat /\ d[first + 1] \in Nat /\ d[first + 2] \in Nat /\ d[(first + 2) + 1] \in Nat
    BY <1>2, <2>1
  <2>3. ShortAt(d, first) = d[first] * 256 + d[first + 1]
    BY DEF ShortAt
  <2>4. ShortAt(d, first + 2) = d[first + 2] * 256 + d[(first + 2) + 1]
    BY DEF ShortAt
  <2>5. \A a, b \in Nat : a * 256 + b \in Nat
    OBVIOUS
  <2>6. ShortAt(d, first) \in Nat
    BY ONLY <2>2, <2>3, <2>5
  <2>7. ShortAt(d, first + 2) \in Nat
    BY ONLY <2>2, <2>4, <2>5
  <2> QED
    BY <2>6, <2>7
<1>4. past \in Nat \ {0} /\ past > first /\ last \in Int /\ last <= Len(d) /\ first + 4 \in Int
  BY <1>1, <1>3
<1>5. \A i \in first + 4 .. last : d[i] \in Octet
  <2> HIDE DEF last
  <2>1. \A i \in first + 4 .. last : i \in 1 .. Len(d)
    BY <1>1, <1>4
  <2> QED
    BY <1>2, <2>1
<1>6. SubSeq(d, first + 4, last) \in Seq(Octet)
  <2> HIDE DEF last
  <2> QED
    BY <1>4, <1>5, SubSeqProperties
<1> QED
  BY <1>1, <1>3, <1>4, <1>6 DEF Bytes

\* Split (pfcp.py:1121-1135) has a reading that meets its equation at every octet.
LEMMA SplitEquation ==
  ASSUME NEW d \in Bytes
  PROVE  \E from : Splits(d, from) /\ Split(d) = from[1]
<1> DEFINE D == Nat \ {0}
           T == Seq(LeafRecords)
           step == [first \in D |-> [f \in [D -> T] |-> FoundFrom(d, first, f)]]
           m == [first \in D |-> IF first > Len(d) THEN 0 ELSE Len(d) - first + 1]
<1>1. Len(d) \in Nat
  BY DEF Bytes
<1>2. m \in [D -> Nat] /\ \A x \in D : m[x] <= Len(d)
  BY <1>1
<1>3. ASSUME NEW first \in D, NEW f \in [D -> T]
      PROVE  FoundFrom(d, first, f) \in T
  <2>1. CASE first + 3 > Len(d)
    BY <2>1 DEF FoundFrom
  <2>2. CASE ~(first + 3 > Len(d))
    <3> DEFINE past == first + 4 + ShortAt(d, first + 2)
               value == SubSeq(d, first + 4, IF past > Len(d) THEN Len(d) ELSE past - 1)
               one == Leaf(ShortAt(d, first), value)
    <3>1. ShortAt(d, first) \in Nat /\ past \in D /\ value \in Bytes
      <4>1. first + 3 <= Len(d)
        BY <1>1, <2>2
      <4> QED
        BY <4>1, ElementFound
    <3>2. FoundFrom(d, first, f) = <<one>> \o f[past]
      BY <2>2 DEF FoundFrom
    <3> HIDE DEF past, value
    <3>3. one \in LeafRecords
      BY <3>1 DEF Leaf, LeafRecords
    <3> HIDE DEF one
    <3>4. <<one>> \in Seq(LeafRecords) /\ f[past] \in Seq(LeafRecords)
      BY <3>1, <3>3
    <3> QED
      BY <3>2, <3>4, ConcatProperties
  <2> QED
    BY <2>1, <2>2
<1>4. ASSUME NEW first \in D, NEW f \in [D -> T], NEW g \in [D -> T],
             \A y \in D : m[y] < m[first] => f[y] = g[y]
      PROVE  FoundFrom(d, first, f) = FoundFrom(d, first, g)
  <2>1. CASE first + 3 > Len(d)
    BY <2>1 DEF FoundFrom
  <2>2. CASE ~(first + 3 > Len(d))
    <3> DEFINE past == first + 4 + ShortAt(d, first + 2)
    <3>0. first + 3 <= Len(d)
      BY <1>1, <2>2
    <3>1. past \in D /\ past > first
      BY <3>0, ElementFound
    <3>2. m[past] < m[first]
      <4> HIDE DEF past
      <4>1. /\ m[past] = IF past > Len(d) THEN 0 ELSE Len(d) - past + 1
            /\ m[first] = IF first > Len(d) THEN 0 ELSE Len(d) - first + 1
        BY <3>1
      <4> HIDE DEF m, step, T
      <4>2. first \in Nat /\ past \in Nat
        BY <3>1
      <4> QED
        BY ONLY <1>1, <3>0, <3>1, <4>1, <4>2
    <3>3. f[past] = g[past]
      <4> HIDE DEF past, m
      <4> QED
        BY <1>4, <3>1, <3>2
    <3> QED
      BY <2>2, <3>3 DEF FoundFrom
  <2> QED
    BY <2>1, <2>2
<1>5. IsRecursion(D, T, m, step)
  <2>1. T # {} /\ \E bound \in Nat : \A x \in D : m[x] <= bound
    <3>1. <<>> \in T
      OBVIOUS
    <3> HIDE DEF T, m
    <3> QED
      BY <1>1, <1>2, <3>1
  <2> HIDE DEF T, m
  <2>2. step \in [D -> [[D -> T] -> T]]
    BY <1>3
  <2>3. \A x \in D : \A f, g \in [D -> T] : (\A y \in D : m[y] < m[x] => f[y] = g[y]) => step[x][f] = step[x][g]
    BY <1>4
  <2> HIDE DEF step
  <2> QED
    BY <1>2, <2>1, <2>2, <2>3 DEF IsRecursion
<1>6. PICK f \in [D -> T] : IsSolution(f, D, step)
  <2> HIDE DEF step, D, T, m
  <2> QED
    BY <1>5, RecursionHasSolution
<1>7. Splits(d, f)
  <2> HIDE DEF T
  <2>1. \A x \in D : f[x] = FoundFrom(d, x, f)
    BY <1>6 DEF IsSolution
  <2>2. f = [x \in D |-> f[x]]
    OBVIOUS
  <2> QED
    BY <2>1, <2>2 DEF Splits
<1>8. Splits(d, CHOOSE from : Splits(d, from))
  <2> HIDE DEF T, D
  <2> QED
    BY <1>7
<1>9. Split(d) = (CHOOSE from : Splits(d, from))[1]
  BY DEF Split, Splits, FoundFrom
<1> QED
  BY <1>8, <1>9

\* An element's octets: its type, its length, its value, each in its place.
LEMMA LaidOut ==
  ASSUME NEW type \in Nat, type <= 65535, NEW value \in Bytes, Len(value) <= 65535
  PROVE  LET e == TypeLengthValue(type, value) IN
         /\ e \in Bytes /\ Len(e) = 4 + Len(value) /\ Len(value) \in Nat
         /\ e[1] * 256 + e[2] = type /\ e[3] * 256 + e[4] = Len(value)
         /\ \A k \in 1 .. Len(value) : e[4 + k] = value[k]
<1> DEFINE a == Short(type)
           b == Short(Len(value))
           head == a \o b
           e == head \o value
<1>1. /\ a \in Bytes /\ Len(a) = 2 /\ a[1] * 256 + a[2] = type
      /\ b \in Bytes /\ Len(b) = 2 /\ b[1] * 256 + b[2] = Len(value) /\ Len(value) \in Nat
      /\ TypeLengthValue(type, value) = e
  <2>1. Len(value) \in Nat
    BY Joined
  <2>2. /\ a \in Bytes /\ Len(a) = 2 /\ a[1] * 256 + a[2] = type /\ Word(type, 2) = a
    BY TwoOctets
  <2>3. /\ b \in Bytes /\ Len(b) = 2 /\ b[1] * 256 + b[2] = Len(value) /\ Word(Len(value), 2) = b
    BY <2>1, TwoOctets
  <2>4. TypeLengthValue(type, value) = e
    <3> HIDE DEF a, b
    <3> QED
      BY <2>2, <2>3, SMTT(30) DEF TypeLengthValue
  <2> QED
    BY <2>1, <2>2, <2>3, <2>4
<1> HIDE DEF a, b
<1>2. Joins(head, a, b)
  BY <1>1, JoinedBytes
<1> HIDE DEF head
<1>3. Joins(e, head, value)
  <2>1. head \in Bytes
    BY <1>2 DEF Joins
  <2> QED
    BY <2>1, JoinedBytes
<1> HIDE DEF e
<1>4. Len(head) = 4 /\ head[1] = a[1] /\ head[2] = a[2] /\ head[3] = b[1] /\ head[4] = b[2]
  <2>1. 1 \in 1 .. 2 /\ 2 \in 1 .. 2 /\ 2 + 1 = 3 /\ 2 + 2 = 4
    OBVIOUS
  <2> QED
    BY ONLY <1>1, <1>2, <2>1 DEF Joins
<1>5. e[1] = a[1] /\ e[2] = a[2] /\ e[3] = b[1] /\ e[4] = b[2]
  <2>1. 1 \in 1 .. 4 /\ 2 \in 1 .. 4 /\ 3 \in 1 .. 4 /\ 4 \in 1 .. 4
    OBVIOUS
  <2> QED
    BY ONLY <1>3, <1>4, <2>1 DEF Joins
<1>6. Len(e) = 4 + Len(value) /\ \A k \in 1 .. Len(value) : e[4 + k] = value[k]
  BY ONLY <1>3, <1>4 DEF Joins
<1>7. e[1] * 256 + e[2] = type /\ e[3] * 256 + e[4] = Len(value)
  BY ONLY <1>1, <1>5
<1> QED
  BY ONLY <1>1, <1>3, <1>6, <1>7 DEF Joins

\* Elements whose type and length fit their two octets.
Writable == [type : {t \in Nat : t <= 65535}, value : {v \in Bytes : Len(v) <= 65535}]
OctetsOf(es) == [i \in 1 .. Len(es) |-> TypeLengthValue(es[i].type, es[i].value)]

\* Where an element was laid down, it is found, and the reading goes on at the next.
LEMMA FoundInPlace ==
  ASSUME NEW e \in Writable, NEW d \in Bytes, NEW from, NEW o \in Nat,
         LET t == TypeLengthValue(e.type, e.value) IN
           o + Len(t) <= Len(d) /\ \A k \in 1 .. Len(t) : d[o + k] = t[k]
  PROVE  FoundFrom(d, o + 1, from) = <<e>> \o from[o + Len(TypeLengthValue(e.type, e.value)) + 1]
<1> DEFINE t == TypeLengthValue(e.type, e.value)
           n == Len(e.value)
<1>1. /\ e.type \in Nat /\ e.type <= 65535 /\ e.value \in Bytes /\ n <= 65535
      /\ e = [type |-> e.type, value |-> e.value]
  BY DEF Writable
<1>2. /\ Len(t) = 4 + n /\ n \in Nat /\ t[1] * 256 + t[2] = e.type /\ t[3] * 256 + t[4] = n
      /\ \A k \in 1 .. n : t[4 + k] = e.value[k]
  BY <1>1, LaidOut
<1>3. o + Len(t) <= Len(d) /\ (\A k \in 1 .. Len(t) : d[o + k] = t[k]) /\ Len(d) \in Nat
  BY Joined
<1> HIDE DEF t
<1>4. d[o + 1] = t[1] /\ d[o + 2] = t[2] /\ d[o + 3] = t[3] /\ d[o + 4] = t[4]
  <2>1. 1 \in 1 .. Len(t) /\ 2 \in 1 .. Len(t) /\ 3 \in 1 .. Len(t) /\ 4 \in 1 .. Len(t)
    BY ONLY <1>2
  <2> QED
    BY ONLY <1>3, <2>1
<1>5. ShortAt(d, o + 1) = e.type /\ ShortAt(d, (o + 1) + 2) = n
  <2>1. (o + 1) + 1 = o + 2 /\ (o + 1) + 2 = o + 3 /\ ((o + 1) + 2) + 1 = o + 4
    OBVIOUS
  <2> QED
    BY ONLY <1>2, <1>4, <2>1 DEF ShortAt
<1> DEFINE past == (o + 1) + 4 + ShortAt(d, (o + 1) + 2)
           last == IF past > Len(d) THEN Len(d) ELSE past - 1
<1>6. past = o + Len(t) + 1 /\ last = o + 4 + n /\ ~((o + 1) + 3 > Len(d))
  <2> HIDE DEF n
  <2>1. past = o + 5 + n
    BY <1>2, <1>5
  <2> HIDE DEF past
  <2>2. past = o + Len(t) + 1 /\ past <= Len(d) + 1
    BY ONLY <1>2, <1>3, <2>1, o \in Nat
  <2>3. ~((o + 1) + 3 > Len(d))
    BY ONLY <1>2, <1>3, o \in Nat
  <2>4. last = o + 4 + n
    <3>1. past \in Int /\ Len(d) \in Int /\ past - 1 = o + 4 + n
      BY ONLY <1>2, <1>3, <2>1, o \in Nat
    <3>2. CASE past > Len(d)
      <4>1. Len(d) = past - 1
        BY ONLY <2>2, <3>1, <3>2
      <4> QED
        BY ONLY <3>1, <3>2, <4>1 DEF last
    <3>3. CASE ~(past > Len(d))
      BY ONLY <3>1, <3>3 DEF last
    <3> QED
      BY <3>2, <3>3
  <2> QED
    BY <2>2, <2>3, <2>4
<1>7. SubSeq(d, (o + 1) + 4, last) = e.value
  <2> DEFINE i1 == (o + 1) + 4
             i2 == o + 4 + n
             s == SubSeq(d, i1, i2)
  <2> HIDE DEF n
  <2>1. i1 = o + 5 /\ i2 = o + 4 + n /\ i1 \in Nat /\ i2 \in Nat
    BY <1>2
  <2> HIDE DEF i1, i2
  <2>2. ASSUME NEW i \in i1 .. i2
        PROVE  d[i] \in Octet
    <3>1. i \in 1 .. Len(d)
      BY ONLY <1>2, <1>3, <2>1, <2>2, o \in Nat
    <3> QED
      BY <3>1, ElementOfSeq DEF Bytes
  <2>3. /\ s \in Seq(Octet) /\ Len(s) = IF i1 <= i2 THEN i2 - i1 + 1 ELSE 0
        /\ \A i \in 1 .. i2 - i1 + 1 : s[i] = d[i1 + i - 1]
    BY <2>1, <2>2, SubSeqProperties
  <2> HIDE DEF s
  <2>4. Len(s) = n
    <3>1. n \in Nat /\ (i1 <= i2 <=> n # 0) /\ i2 - i1 + 1 = n
      BY ONLY <1>2, <2>1, o \in Nat
    <3> QED
      BY ONLY <2>3, <3>1
  <2>5. ASSUME NEW i \in 1 .. n
        PROVE  s[i] = e.value[i]
    <3>1. i \in 1 .. i2 - i1 + 1 /\ i1 + i - 1 = o + (4 + i) /\ 4 + i \in 1 .. Len(t)
      BY <1>2, <2>1
    <3>2. s[i] = d[o + (4 + i)]
      BY <2>3, <3>1
    <3>3. d[o + (4 + i)] = t[4 + i]
      BY <1>3, <3>1
    <3> QED
      BY <1>2, <3>2, <3>3
  <2>6. e.value \in Seq(Octet)
    BY <1>1 DEF Bytes
  <2>7. s = e.value
    BY <2>3, <2>4, <2>5, <2>6, SeqEqual DEF n
  <2>8. last = i2 /\ (o + 1) + 4 = i1
    BY <1>6, <2>1
  <2> HIDE DEF last
  <2>9. SubSeq(d, (o + 1) + 4, last) = s
    BY ONLY <2>8 DEF s
  <2> QED
    BY <2>7, <2>9
<1>8. FoundFrom(d, o + 1, from) = <<Leaf(ShortAt(d, o + 1), SubSeq(d, (o + 1) + 4, last))>> \o from[past]
  BY <1>6 DEF FoundFrom
<1>9. Leaf(ShortAt(d, o + 1), SubSeq(d, (o + 1) + 4, last)) = e
  <2> HIDE DEF last
  <2> QED
    BY <1>1, <1>5, <1>7 DEF Leaf
<1> QED
  <2> HIDE DEF past, last
  <2> QED
    BY <1>6, <1>8, <1>9 DEF t

\* Elements that can be written are octets.
LEMMA OctetsAreBytes ==
  ASSUME NEW es \in Seq(Writable)
  PROVE  /\ OctetsOf(es) \in Seq(Bytes) /\ Len(OctetsOf(es)) = Len(es)
         /\ \A i \in 1 .. Len(es) : es[i] \in Writable /\ OctetsOf(es)[i] = TypeLengthValue(es[i].type, es[i].value)
<1>1. ASSUME NEW i \in 1 .. Len(es)
      PROVE  es[i] \in Writable /\ TypeLengthValue(es[i].type, es[i].value) \in Bytes
  <2>1. es[i] \in Writable
    BY ElementOfSeq
  <2>2. es[i].type \in Nat /\ es[i].type <= 65535 /\ es[i].value \in Bytes /\ Len(es[i].value) <= 65535
    BY <2>1 DEF Writable
  <2> QED
    BY <2>1, <2>2, LaidOut, SMTT(30)
<1>2. Len(es) \in Nat
  OBVIOUS
<1>3. OctetsOf(es) \in [1 .. Len(es) -> Bytes] /\ Len(OctetsOf(es)) = Len(es)
  BY <1>1, <1>2 DEF OctetsOf
<1>4. \A i \in 1 .. Len(es) : OctetsOf(es)[i] = TypeLengthValue(es[i].type, es[i].value)
  BY DEF OctetsOf
<1>5. OctetsOf(es) \in Seq(Bytes)
  BY <1>2, <1>3
<1> QED
  BY <1>1, <1>3, <1>4, <1>5

\* Reading the octets of elements laid one behind the other finds those very elements.
THEOREM SplitInverts ==
  ASSUME NEW es \in Seq(Writable)
  PROVE  Split(FlattenSeq(OctetsOf(es))) = es
<1> DEFINE n == Len(es)
           ss == OctetsOf(es)
           d == FlattenSeq(ss)
<1>1. ss \in Seq(Bytes) /\ Len(ss) = n /\ n \in Nat /\ d \in Bytes /\ Len(d) \in Nat
  <2>1. ss \in Seq(Bytes) /\ Len(ss) = n
    BY OctetsAreBytes
  <2> HIDE DEF ss
  <2>2. d \in Bytes
    BY <2>1, FlattenType
  <2> HIDE DEF d
  <2> QED
    BY <2>1, <2>2, Joined
<1>2. \A i \in 1 .. n : es[i] \in Writable /\ ss[i] = TypeLengthValue(es[i].type, es[i].value)
  BY OctetsAreBytes
<1> HIDE DEF ss
<1>3. PICK Pre \in [0 .. n -> Bytes] : Grows(ss, Pre)
  BY <1>1, FlattenGrowsFromNothing
<1>4. \A i \in 1 .. n : /\ Len(Pre[i]) = Len(Pre[i - 1]) + Len(ss[i]) /\ Len(Pre[i]) <= Len(d)
                        /\ \A k \in 1 .. Len(ss[i]) : d[Len(Pre[i - 1]) + k] = ss[i][k]
  BY <1>1, <1>3, PartsKeepTheirPlace
<1>5. PICK from : Splits(d, from) /\ Split(d) = from[1]
  <2> HIDE DEF d
  <2> QED
    BY <1>1, SplitEquation
<1>6. Pre[0] = <<>> /\ d = Pre[n]
  BY <1>1, <1>3 DEF Grows
<1> HIDE DEF d
<1>7. \A first \in Nat \ {0} : from[first] = FoundFrom(d, first, from)
  BY <1>5 DEF Splits
<1>8. \A i \in 0 .. n : Len(Pre[i]) \in Nat
  BY <1>3, Joined
<1> DEFINE Rest(j) == from[Len(Pre[n - j]) + 1] = SubSeq(es, n - j + 1, n)
           G == {j \in Nat : j <= n => Rest(j)}
<1>9. 0 \in G
  <2>1. from[Len(d) + 1] = <<>>
    <3>1. Len(d) + 1 \in Nat \ {0} /\ (Len(d) + 1) + 3 > Len(d)
      BY <1>1
    <3> QED
      BY <1>7, <3>1 DEF FoundFrom
  <2>2. n - 0 = n /\ n < n - 0 + 1 /\ n \in Int /\ n - 0 + 1 \in Int
    BY <1>1
  <2>3. SubSeq(es, n - 0 + 1, n) = <<>>
    <3> HIDE DEF n
    <3> QED
      BY <2>2, SubSeqEmpty
  <2>4. Rest(0)
    <3> HIDE DEF n
    <3> QED
      BY <1>6, <2>1, <2>2, <2>3
  <2> QED
    BY <2>4
<1>10. ASSUME NEW j \in 0 .. n - 1, j \in G
       PROVE  j + 1 \in G
  <2> DEFINE i == n - j
  <2>1. i \in 1 .. n /\ i - 1 \in 0 .. n /\ j \in Nat /\ j <= n /\ n - (j + 1) = i - 1 /\ i \in 0 .. n
    BY <1>1
  <2>2. Rest(j)
    BY <1>10, <2>1
  <2>3. from[Len(Pre[i]) + 1] = SubSeq(es, i + 1, n)
    BY <2>2
  <2> HIDE DEF i, n
  <2>4. /\ es[i] \in Writable /\ ss[i] = TypeLengthValue(es[i].type, es[i].value)
        /\ Len(Pre[i]) = Len(Pre[i - 1]) + Len(ss[i]) /\ Len(Pre[i]) <= Len(d)
        /\ \A k \in 1 .. Len(ss[i]) : d[Len(Pre[i - 1]) + k] = ss[i][k]
        /\ Len(Pre[i - 1]) \in Nat
    BY <1>2, <1>4, <1>8, <2>1
  <2>5. FoundFrom(d, Len(Pre[i - 1]) + 1, from) = <<es[i]>> \o from[Len(Pre[i - 1]) + Len(ss[i]) + 1]
    <3> DEFINE e == es[i]
               o == Len(Pre[i - 1])
               t == TypeLengthValue(e.type, e.value)
    <3>1. e \in Writable /\ o \in Nat /\ d \in Bytes
      BY <1>1, <2>4
    <3>2. o + Len(t) <= Len(d) /\ \A k \in 1 .. Len(t) : d[o + k] = t[k]
      BY <2>4
    <3> HIDE DEF e, o
    <3>3. FoundFrom(d, o + 1, from) = <<e>> \o from[o + Len(t) + 1]
      BY <3>1, <3>2, FoundInPlace
    <3> QED
      BY <2>4, <3>3 DEF e, o
  <2>6. from[Len(Pre[i - 1]) + 1] = <<es[i]>> \o SubSeq(es, i + 1, n)
    <3>1. Len(Pre[i - 1]) + 1 \in Nat \ {0}
      BY <2>4
    <3> QED
      BY <1>7, <2>3, <2>4, <2>5, <3>1
  <2>7. <<es[i]>> \o SubSeq(es, i + 1, n) = SubSeq(es, i, n)
    <3>1. i \in 1 .. Len(es) /\ n \in i .. Len(es)
      BY <1>1, <2>1 DEF n
    <3> QED
      BY <3>1, SubSeqRecursiveFirst
  <2>8. n - (j + 1) + 1 = i
    BY <1>1, <2>1
  <2>9. Rest(j + 1)
    BY <2>1, <2>6, <2>7, <2>8
  <2> QED
    BY <2>1, <2>9
<1>11. Rest(n)
  <2> HIDE DEF Rest
  <2>1. n \in 0 .. n /\ n <= n
    BY <1>1
  <2>2. \A j \in 0 .. n : j \in G
    <3> HIDE DEF G
    <3> QED
      BY <1>1, <1>9, <1>10, UpTo
  <2> QED
    BY <2>1, <2>2
<1>12. n - n = 0 /\ Len(Pre[0]) + 1 = 1 /\ n - n + 1 = 1
  BY <1>1, <1>6
<1>13. SubSeq(es, 1, n) = es
  BY SubSeqFull
<1> QED
  <2> HIDE DEF n
  <2>1. from[1] = es
    BY <1>11, <1>12, <1>13
  <2> QED
    BY <1>5, <2>1 DEF d, ss

-----------------------------------------------------------------------------
(* Groups, and the elements inside.                                         *)

\* Elements a message is made of: leaves, groups of leaves, groups of both.
Leaves == [type : {t \in Nat \ Grouped : t <= 65535}, value : {v \in Bytes : Len(v) <= 64}]
GroupsOf(S) == [type : Grouped, parts : {p \in Seq(S) : Len(p) <= 8}]
Branches == Leaves \cup GroupsOf(Leaves)
Trees == Leaves \cup GroupsOf(Branches)

\* A group seen as the leaf that holds its parts' octets.
Packed(e, content) == IF e.type \in Grouped THEN Leaf(e.type, content) ELSE e
PackedBranch(e) == Packed(e, FlattenSeq(OctetsOf(e.parts)))
BranchContent(ps) == FlattenSeq(OctetsOf([i \in 1 .. Len(ps) |-> PackedBranch(ps[i])]))
PackedTree(e) == Packed(e, BranchContent(e.parts))

\* Elements in so many octets at most, and their concatenation.
AtMost(most) == {e \in Writable : Len(e.value) <= most}

\* A few elements of bounded size are bounded together, and Split reads them back.
LEMMA ContentIsBounded ==
  ASSUME NEW most \in Nat, NEW es \in Seq(AtMost(most)), Len(es) <= 8
  PROVE  /\ FlattenSeq(OctetsOf(es)) \in Bytes /\ Len(FlattenSeq(OctetsOf(es))) <= 8 * (most + 4)
         /\ Split(FlattenSeq(OctetsOf(es))) = es
<1>1. es \in Seq(Writable)
  BY DEF AtMost
<1>2. /\ OctetsOf(es) \in Seq(Bytes) /\ Len(OctetsOf(es)) = Len(es)
      /\ \A i \in 1 .. Len(es) : OctetsOf(es)[i] = TypeLengthValue(es[i].type, es[i].value)
  BY <1>1, OctetsAreBytes
<1>3. ASSUME NEW i \in 1 .. Len(es)
      PROVE  Len(OctetsOf(es)[i]) <= most + 4
  <2>1. es[i] \in AtMost(most)
    BY ElementOfSeq
  <2>2. es[i].type \in Nat /\ es[i].type <= 65535 /\ es[i].value \in Bytes /\ Len(es[i].value) <= 65535 /\ Len(es[i].value) <= most
    BY <2>1 DEF AtMost, Writable
  <2>3. Len(TypeLengthValue(es[i].type, es[i].value)) = 4 + Len(es[i].value) /\ Len(es[i].value) \in Nat
    <3> DEFINE type == es[i].type
               value == es[i].value
    <3>1. type \in Nat /\ type <= 65535 /\ value \in Bytes /\ Len(value) <= 65535
      BY <2>2
    <3> HIDE DEF type, value
    <3>2. Len(TypeLengthValue(type, value)) = 4 + Len(value) /\ Len(value) \in Nat
      BY <3>1, LaidOut
    <3> QED
      BY <3>2 DEF type, value
  <2> QED
    BY <1>2, <2>2, <2>3
<1>4. Len(FlattenSeq(OctetsOf(es))) <= Len(es) * (most + 4)
  <2>1. most + 4 \in Nat
    OBVIOUS
  <2> QED
    BY <1>2, <1>3, <2>1, FlattenIsBounded
<1>5. FlattenSeq(OctetsOf(es)) \in Bytes
  BY <1>2, FlattenType
<1>6. Len(es) * (most + 4) <= 8 * (most + 4)
  <2>1. \A n \in Nat, b \in Nat : n <= 8 => n * b <= 8 * b
    <3> SUFFICES ASSUME NEW n \in Nat, NEW b \in Nat, n <= 8 PROVE n * b <= 8 * b
      OBVIOUS
    <3>1. n = 0 \/ n = 1 \/ n = 2 \/ n = 3 \/ n = 4 \/ n = 5 \/ n = 6 \/ n = 7 \/ n = 8
      OBVIOUS
    <3> QED
      BY <3>1
  <2> QED
    BY <2>1
<1>7. Len(FlattenSeq(OctetsOf(es))) \in Nat /\ Len(es) * (most + 4) \in Nat /\ 8 * (most + 4) \in Nat
  BY <1>5, Joined
<1>8. Len(FlattenSeq(OctetsOf(es))) <= 8 * (most + 4)
  <2>1. \A a, b, c \in Nat : a <= b /\ b <= c => a <= c
    OBVIOUS
  <2> QED
    BY ONLY <1>4, <1>6, <1>7, <2>1
<1> QED
  BY <1>1, <1>5, <1>8, SplitInverts

\* An element of its own packs as its type, length and value.
LEMMA LeavesArePacked ==
  ASSUME NEW e \in Leaves
  PROVE  e \in AtMost(64) /\ e.type \notin Grouped /\ LeafOctets(e) = TypeLengthValue(e.type, e.value)
BY DEF Leaves, AtMost, Writable, LeafOctets

\* A group of such elements packs likewise, within 544 octets.
LEMMA BranchIsPacked ==
  ASSUME NEW e \in Branches
  PROVE  LET p == PackedBranch(e) IN
         /\ p \in AtMost(544) /\ p.type = e.type
         /\ GroupOctets(LeafOctets, e) = TypeLengthValue(p.type, p.value)
         /\ e = IF p.type \in Grouped THEN Group(p.type, Split(p.value)) ELSE p
<1>1. CASE e \in Leaves
  <2>1. e \in AtMost(64) /\ e.type \notin Grouped /\ LeafOctets(e) = TypeLengthValue(e.type, e.value)
    BY <1>1, LeavesArePacked
  <2>2. PackedBranch(e) = e
    BY <2>1 DEF PackedBranch, Packed
  <2>3. e \in AtMost(544)
    <3>1. e \in Writable /\ Len(e.value) <= 64 /\ Len(e.value) \in Nat
      BY <2>1, Joined DEF AtMost, Writable
    <3> QED
      BY <3>1 DEF AtMost
  <2> QED
    BY <2>1, <2>2, <2>3 DEF GroupOctets
<1>2. CASE e \in GroupsOf(Leaves)
  <2>1. e.type \in Grouped /\ e.parts \in Seq(Leaves) /\ Len(e.parts) <= 8 /\ e = [type |-> e.type, parts |-> e.parts]
    BY <1>2 DEF GroupsOf
  <2>2. e.parts \in Seq(AtMost(64))
    <3>1. Leaves \subseteq AtMost(64)
      BY LeavesArePacked
    <3> QED
      BY <2>1, <3>1, SeqMonotonic
  <2> DEFINE content == FlattenSeq(OctetsOf(e.parts))
  <2>3. content \in Bytes /\ Len(content) <= 8 * (64 + 4) /\ Split(content) = e.parts
    BY <2>1, <2>2, ContentIsBounded
  <2>4. \A i \in 1 .. Len(e.parts) : LeafOctets(e.parts[i]) = TypeLengthValue(e.parts[i].type, e.parts[i].value)
    BY DEF LeafOctets
  <2>5. [i \in 1 .. Len(e.parts) |-> LeafOctets(e.parts[i])] = OctetsOf(e.parts)
    BY <2>4 DEF OctetsOf
  <2>6. GroupOctets(LeafOctets, e) = TypeLengthValue(e.type, content)
    BY <2>1, <2>5 DEF GroupOctets
  <2>7. PackedBranch(e) = Leaf(e.type, content)
    BY <2>1 DEF PackedBranch, Packed
  <2> HIDE DEF content
  <2>8. Leaf(e.type, content).type = e.type /\ Leaf(e.type, content).value = content
    BY DEF Leaf
  <2>9. Leaf(e.type, content) \in AtMost(544)
    <3>1. Len(content) \in Nat /\ Len(content) <= 544
      BY <2>3, Joined
    <3>2. e.type \in Nat /\ e.type <= 65535
      BY <2>1 DEF Grouped
    <3>3. content \in Bytes /\ Len(content) <= 65535
      BY <2>3, <3>1
    <3> QED
      BY <3>1, <3>2, <3>3 DEF Leaf, AtMost, Writable
  <2>10. e = Group(e.type, Split(content))
    BY <2>1, <2>3 DEF Group
  <2> QED
    BY <2>1, <2>6, <2>7, <2>8, <2>9, <2>10
<1> QED
  BY <1>1, <1>2 DEF Branches

\* The octets of a list of branches, and what a reader finds in them.
LEMMA BranchesAreFound ==
  ASSUME NEW ps \in Seq(Branches), Len(ps) <= 8
  PROVE  /\ FlattenSeq([i \in 1 .. Len(ps) |-> GroupOctets(LeafOctets, ps[i])]) = BranchContent(ps)
         /\ BranchContent(ps) \in Bytes /\ Len(BranchContent(ps)) <= 4384
         /\ SplitInside(Split, BranchContent(ps)) = ps
<1> DEFINE packed == [i \in 1 .. Len(ps) |-> PackedBranch(ps[i])]
<1>1. \A i \in 1 .. Len(ps) : ps[i] \in Branches
  BY ElementOfSeq
<1>2. Len(ps) \in Nat
  OBVIOUS
<1>3. packed \in Seq(AtMost(544)) /\ Len(packed) = Len(ps) /\ \A i \in 1 .. Len(ps) : packed[i] = PackedBranch(ps[i])
  <2>1. \A i \in 1 .. Len(ps) : PackedBranch(ps[i]) \in AtMost(544)
    BY <1>1, BranchIsPacked
  <2>2. packed \in [1 .. Len(ps) -> AtMost(544)]
    BY <2>1
  <2>3. Len(packed) = Len(ps) /\ \A i \in 1 .. Len(ps) : packed[i] = PackedBranch(ps[i])
    BY <1>2
  <2> HIDE DEF packed
  <2>4. packed \in Seq(AtMost(544))
    BY <1>2, <2>2
  <2> QED
    BY <2>3, <2>4
<1>4. BranchContent(ps) = FlattenSeq(OctetsOf(packed))
  BY DEF BranchContent
<1> HIDE DEF packed
<1>5. [i \in 1 .. Len(ps) |-> GroupOctets(LeafOctets, ps[i])] = OctetsOf(packed)
  <2>1. \A i \in 1 .. Len(ps) : GroupOctets(LeafOctets, ps[i]) = TypeLengthValue(packed[i].type, packed[i].value)
    BY <1>1, <1>3, BranchIsPacked
  <2> QED
    BY <1>3, <2>1 DEF OctetsOf
<1> DEFINE content == FlattenSeq(OctetsOf(packed))
<1>6. content \in Bytes /\ Len(content) <= 8 * (544 + 4) /\ Split(content) = packed
  BY <1>2, <1>3, ContentIsBounded
<1> HIDE DEF content
<1>7. SplitInside(Split, content) = [i \in 1 .. Len(packed) |-> IF packed[i].type \in Grouped
                                       THEN Group(packed[i].type, Split(packed[i].value)) ELSE packed[i]]
  BY <1>6 DEF SplitInside
<1>8. \A i \in 1 .. Len(ps) : ps[i] = IF packed[i].type \in Grouped
                                      THEN Group(packed[i].type, Split(packed[i].value)) ELSE packed[i]
  BY <1>1, <1>3, BranchIsPacked
<1>9. SplitInside(Split, content) = [i \in 1 .. Len(ps) |-> ps[i]]
  BY <1>3, <1>7, <1>8
<1>10. ps = [i \in 1 .. Len(ps) |-> ps[i]]
  OBVIOUS
<1>11. Len(content) <= 4384
  BY <1>6
<1> QED
  BY <1>4, <1>5, <1>6, <1>9, <1>10, <1>11 DEF content

\* A group packs as type, length and the octets of its parts, which Split finds again inside.
LEMMA TreeIsPacked ==
  ASSUME NEW e \in Trees
  PROVE  LET p == PackedTree(e) IN
         /\ p \in AtMost(4384) /\ p.type = e.type
         /\ ElementOctets(e) = TypeLengthValue(p.type, p.value)
         /\ e = IF p.type \in Grouped THEN Group(p.type, SplitInside(Split, p.value)) ELSE p
<1>1. CASE e \in Leaves
  <2>1. e \in AtMost(64) /\ e.type \notin Grouped /\ LeafOctets(e) = TypeLengthValue(e.type, e.value)
    BY <1>1, LeavesArePacked
  <2>2. PackedTree(e) = e
    BY <2>1 DEF PackedTree, Packed
  <2>3. e \in AtMost(4384)
    <3>1. e \in Writable /\ Len(e.value) <= 64 /\ Len(e.value) \in Nat
      BY <2>1, Joined DEF AtMost, Writable
    <3> QED
      BY <3>1 DEF AtMost
  <2> QED
    BY <2>1, <2>2, <2>3 DEF ElementOctets, GroupOctets
<1>2. CASE e \in GroupsOf(Branches)
  <2>1. e.type \in Grouped /\ e.parts \in Seq(Branches) /\ Len(e.parts) <= 8 /\ e = [type |-> e.type, parts |-> e.parts]
    BY <1>2 DEF GroupsOf
  <2> DEFINE content == BranchContent(e.parts)
  <2>2. /\ FlattenSeq([i \in 1 .. Len(e.parts) |-> GroupOctets(LeafOctets, e.parts[i])]) = content
        /\ content \in Bytes /\ Len(content) <= 4384 /\ SplitInside(Split, content) = e.parts
    BY <2>1, BranchesAreFound
  <2>3. ElementOctets(e) = TypeLengthValue(e.type, FlattenSeq([i \in 1 .. Len(e.parts) |-> GroupOctets(LeafOctets, e.parts[i])]))
    BY <2>1 DEF ElementOctets, GroupOctets
  <2>4. PackedTree(e) = Leaf(e.type, content)
    BY <2>1 DEF PackedTree, Packed
  <2> HIDE DEF content
  <2>5. Leaf(e.type, content).type = e.type /\ Leaf(e.type, content).value = content
    BY DEF Leaf
  <2>6. Leaf(e.type, content) \in AtMost(4384)
    <3>1. Len(content) \in Nat /\ Len(content) <= 4384
      BY <2>2, Joined
    <3>2. e.type \in Nat /\ e.type <= 65535
      BY <2>1 DEF Grouped
    <3>3. content \in Bytes /\ Len(content) <= 65535
      BY <2>2, <3>1
    <3> QED
      BY <3>1, <3>2, <3>3 DEF Leaf, AtMost, Writable
  <2>7. e = Group(e.type, SplitInside(Split, content))
    BY <2>1, <2>2 DEF Group
  <2> QED
    BY <2>1, <2>2, <2>3, <2>4, <2>5, <2>6, <2>7
<1> QED
  BY <1>1, <1>2 DEF Trees

\* Whatever elements a message is made of, a reader of its octets finds them at every depth.
THEOREM SplitDeepInvertsContent ==
  ASSUME NEW es \in Seq(Trees), Len(es) <= 8
  PROVE  Content(es) \in Bytes /\ Len(Content(es)) <= 35104 /\ SplitDeep(Content(es)) = es
<1> DEFINE packed == [i \in 1 .. Len(es) |-> PackedTree(es[i])]
<1>1. \A i \in 1 .. Len(es) : es[i] \in Trees
  BY ElementOfSeq
<1>2. Len(es) \in Nat
  OBVIOUS
<1>3. packed \in Seq(AtMost(4384)) /\ Len(packed) = Len(es) /\ \A i \in 1 .. Len(es) : packed[i] = PackedTree(es[i])
  <2>1. \A i \in 1 .. Len(es) : PackedTree(es[i]) \in AtMost(4384)
    BY <1>1, TreeIsPacked
  <2>2. packed \in [1 .. Len(es) -> AtMost(4384)]
    BY <2>1
  <2>3. Len(packed) = Len(es) /\ \A i \in 1 .. Len(es) : packed[i] = PackedTree(es[i])
    BY <1>2
  <2> HIDE DEF packed
  <2>4. packed \in Seq(AtMost(4384))
    BY <1>2, <2>2
  <2> QED
    BY <2>3, <2>4
<1> HIDE DEF packed
<1> DEFINE content == FlattenSeq(OctetsOf(packed))
<1>4. Content(es) = content
  <2>1. \A i \in 1 .. Len(es) : ElementOctets(es[i]) = TypeLengthValue(packed[i].type, packed[i].value)
    BY <1>1, <1>3, TreeIsPacked
  <2>2. [i \in 1 .. Len(es) |-> ElementOctets(es[i])] = OctetsOf(packed)
    BY <1>3, <2>1 DEF OctetsOf
  <2> QED
    BY <2>2 DEF Content
<1>5. content \in Bytes /\ Len(content) <= 8 * (4384 + 4) /\ Split(content) = packed
  BY <1>2, <1>3, ContentIsBounded
<1> HIDE DEF content
<1>6. SplitDeep(content) = [i \in 1 .. Len(packed) |-> IF packed[i].type \in Grouped
                              THEN Group(packed[i].type, SplitInside(Split, packed[i].value)) ELSE packed[i]]
  BY <1>5 DEF SplitDeep, SplitInside
<1>7. \A i \in 1 .. Len(es) : es[i] = IF packed[i].type \in Grouped
                                      THEN Group(packed[i].type, SplitInside(Split, packed[i].value)) ELSE packed[i]
  BY <1>1, <1>3, TreeIsPacked
<1>8. SplitDeep(content) = [i \in 1 .. Len(es) |-> es[i]]
  BY <1>3, <1>6, <1>7
<1>9. es = [i \in 1 .. Len(es) |-> es[i]]
  OBVIOUS
<1>10. Len(content) <= 35104
  BY <1>5
<1> QED
  BY <1>4, <1>5, <1>8, <1>9, <1>10

-----------------------------------------------------------------------------
(* Lists of elements.                                                       *)

\* A list of so many at most.
Listed(p, S, most) == p \in Seq(S) /\ Len(p) \in Nat /\ Len(p) <= most

\* No element is a list of any length.
LEMMA NoneListed == \A S : \A n \in Nat : Listed(<<>>, S, n)
BY DEF Listed

\* So are one, two and three elements.
LEMMA FewListed ==
  ASSUME NEW S
  PROVE  /\ \A x \in S : Listed(<<x>>, S, 1)
         /\ \A x, y \in S : Listed(<<x, y>>, S, 2)
         /\ \A x, y, z \in S : Listed(<<x, y, z>>, S, 3)
BY DEF Listed

\* Two lists one after the other are a list.
LEMMA BothListed ==
  ASSUME NEW S, NEW a \in Nat, NEW b \in Nat, NEW c \in Nat, a + b <= c, NEW p, NEW q,
         Listed(p, S, a), Listed(q, S, b)
  PROVE  Listed(p \o q, S, c)
<1>1. p \in Seq(S) /\ q \in Seq(S)
  BY DEF Listed
<1>2. p \o q \in Seq(S) /\ Len(p \o q) = Len(p) + Len(q)
  BY <1>1
<1> QED
  BY <1>2 DEF Listed

\* x stands in a list at i.
Stands(p, i, x) == i \in 1 .. Len(p) /\ p[i] = x

\* What is appended does not move what stands before it.
LEMMA StandsStill ==
  ASSUME NEW S, NEW a \in Nat, NEW b \in Nat, NEW p, NEW q, Listed(p, S, a), Listed(q, S, b),
         NEW i, NEW x, Stands(p, i, x)
  PROVE  Stands(p \o q, i, x)
<1>1. p \in Seq(S) /\ q \in Seq(S) /\ i \in 1 .. Len(p) /\ p[i] = x
  BY DEF Listed, Stands
<1> QED
  BY <1>1 DEF Stands

\* The first of what is appended stands next.
LEMMA StandsNext ==
  ASSUME NEW S, NEW a \in Nat, NEW b \in Nat, NEW p, NEW q, Listed(p, S, a), Listed(q, S, b),
         NEW i, Len(p) + 1 = i, NEW x, Stands(q, 1, x)
  PROVE  Stands(p \o q, i, x)
<1>1. p \in Seq(S) /\ q \in Seq(S) /\ 1 \in 1 .. Len(q) /\ q[1] = x /\ Len(p) \in Nat
  BY DEF Listed, Stands
<1>2. i \in 1 .. Len(p \o q) /\ (p \o q)[i] = x
  BY <1>1
<1> QED
  BY <1>2 DEF Stands

\* An optional part is a list, if it is one when given.
LEMMA GivenListed ==
  ASSUME NEW S, NEW n \in Nat, NEW x, NEW p, x # Missing => Listed(p, S, n)
  PROVE  Listed(Given(x, p), S, n)
BY DEF Given, Listed

\* An optional element is a list of at most one.
LEMMA OneListed ==
  ASSUME NEW S, NEW x, NEW e, x # Missing => e \in S
  PROVE  Listed(OneElement(x, e), S, 1)
<1>1. x # Missing => Listed(<<e>>, S, 1)
  BY FewListed
<1> QED
  BY <1>1, GivenListed DEF OneElement

\* A list of some elements is a list of more and longer ones.
LEMMA ListedWider ==
  ASSUME NEW S, NEW T, S \subseteq T, NEW n \in Nat, NEW m \in Nat, n <= m, NEW p, Listed(p, S, n)
  PROVE  Listed(p, T, m)
<1>1. p \in Seq(S) /\ \A i \in 1 .. Len(p) : p[i] \in T
  BY ElementOfSeq DEF Listed
<1>2. p \in Seq(T)
  BY <1>1
<1> QED
  BY <1>2 DEF Listed

\* Octets.
LEMMA LeafMade ==
  ASSUME NEW type \in Nat \ Grouped, type <= 65535, NEW v, NEW n \in Nat, n <= 64, Listed(v, Octet, n)
  PROVE  Leaf(type, v) \in Leaves
BY DEF Leaf, Leaves, Listed, Bytes

\* A number up to 255 is an octet.
LEMMA OctetMade == \A n \in Nat : n <= 255 => n \in Octet
BY DEF Octet

\* struct.pack makes as many octets as its format asks for (pfcp.py:302, 832-855).
LEMMA WordMade ==
  ASSUME NEW n \in Nat, NEW k \in {2, 4, 5, 8}
  PROVE  Listed(Word(n, k), Octet, k)
<1>1. \A m \in Nat : Listed(Short(m), Octet, 2)
  <2> TAKE m \in Nat
  <2>1. (m \div 256) % 256 \in Octet /\ m % 256 \in Octet
    BY DEF Octet
  <2> QED
    BY <2>1, FewListed DEF Short
<1>2. CASE k = 2
  BY <1>1, <1>2 DEF Word
<1>3. CASE k # 2
  <2> DEFINE zeros == [i \in 1 .. k - 4 |-> 0]
  <2>1. zeros \in Seq(Octet) /\ Len(zeros) = k - 4 /\ k - 4 \in Nat
    BY <1>3 DEF Octet
  <2>2. Listed(zeros, Octet, k - 4)
    <3> HIDE DEF zeros
    <3> QED BY <2>1 DEF Listed
  <2>3. n \div 65536 \in Nat /\ n % 65536 \in Nat
    OBVIOUS
  <2>4. Word(n, k) = zeros \o Short(n \div 65536) \o Short(n % 65536)
    <3>1. PICK hi, lo : hi = Short(n \div 65536) /\ lo = Short(n % 65536)
      OBVIOUS
    <3>2. Word(n, k) = IF k = 2 THEN Short(n) ELSE zeros \o hi \o lo
      BY ONLY <3>1 DEF Word, zeros
    <3> HIDE DEF zeros
    <3> QED
      BY ONLY <1>3, <3>1, <3>2
  <2> HIDE DEF zeros
  <2>5. PICK j \in Nat : j = k - 4
    BY <2>1
  <2>6. \E x, y : /\ x = Short(n \div 65536) /\ y = Short(n % 65536)
                  /\ Listed(zeros, Octet, j) /\ Listed(x, Octet, 2) /\ Listed(y, Octet, 2)
    BY <1>1, <2>2, <2>3, <2>5
  <2>7. PICK x, y : /\ x = Short(n \div 65536) /\ y = Short(n % 65536)
                   /\ Listed(zeros, Octet, j) /\ Listed(x, Octet, 2) /\ Listed(y, Octet, 2)
    BY <2>6
  <2>8. Listed(zeros \o x, Octet, j + 2)
    BY <2>7, BothListed
  <2>9. Listed(zeros \o x \o y, Octet, k)
    BY <2>5, <2>7, <2>8, BothListed
  <2> QED
    BY <2>4, <2>7, <2>9
<1> QED
  BY <1>2, <1>3

-----------------------------------------------------------------------------
(* What each PFCP encoder makes (pfcp.py:294-1010).                         *)

\* Numbers a field of 32 bits holds.
Small == {n \in Nat : n <= Largest}
FSeidArguments == [seid : Small, v4 : Maybe(V4), v6 : Maybe(V6)]
PdiArguments == [source : {0, 1}, fteid : FTeids \cup {Missing}, ueIp : UeIps \cup {Missing},
                 ni : Maybe(<<105, 110>>), qfi : {Missing, 1, 9, 65}]
PdrArguments == [id : {1, 2}, precedence : Numbers \cup {100}, pdi : PdiArguments, removal : Maybe(0),
                 far : {Missing, 1, 2}, urrs : {<<>>, <<1, 2>>}, qer : Maybe(1)]
OuterArguments == [description : {256}, teid : Numbers \cup {Missing}, v4 : Maybe(V4)]
ForwardingArguments == [destination : {0, 1}, ni : Maybe(<<105, 110>>), outer : {Missing} \cup OuterArguments]
FarArguments == [id : Numbers \cup {1, 2}, action : {2, 256}, bar : Maybe(1), forwarding : {Missing} \cup ForwardingArguments]
QerArguments == [id : Numbers \cup {1}, ul : {0, 1}, dl : {0, 1}, mbr : Rates2 \cup {Missing}, gbr : Rates2 \cup {Missing},
                 qfi : Maybe(1)]

\* The octets of the addresses and of the network instance.
LEMMA AddressesListed ==
  /\ Listed(V4, Octet, 4) /\ Len(V4) = 4 /\ V4 \in Bytes
  /\ Listed(V6, Octet, 16) /\ Len(V6) = 16 /\ V6 \in Bytes
  /\ Listed(<<105, 110>>, Octet, 2)
<1>1. V4 \in Seq(0 .. 255) /\ Len(V4) = 4
  BY DEF V4
<1>2. V6 \in Seq(0 .. 255) /\ Len(V6) = 16
  BY DEF V6
<1>3. <<105, 110>> \in Seq(0 .. 255) /\ Len(<<105, 110>>) = 2
  OBVIOUS
<1> QED
  BY <1>1, <1>2, <1>3 DEF Listed, Bytes, Octet

\* One octet is a list of one.
LEMMA OneOctet == \A n \in Nat : n <= 255 => Listed(<<n>>, Octet, 1)
BY OctetMade, FewListed

\* A node id fits one element.
LEMMA NodeIdMade ==
  ASSUME NEW n \in NodeIds
  PROVE  NodeId(n) \in Leaves
<1>1. n.kind \in {0, 1, 2} /\ n.id \in {V4, V6, <<117, 112>>}
  BY DEF NodeIds
<1>2. Listed(<<117, 112>>, Octet, 2)
  BY OctetMade, FewListed
<1>3. Listed(n.id, Octet, 16)
  BY <1>1, <1>2, AddressesListed, ListedWider
<1>4. Listed(<<n.kind>>, Octet, 1)
  BY <1>1, OneOctet
<1>5. Listed(<<n.kind>> \o n.id, Octet, 17)
  BY <1>3, <1>4, BothListed
<1> QED
  BY <1>5, LeafMade DEF NodeId, Grouped

\* A flag is its bit or nothing.
LEMMA FlagMade == \A x : \A bit \in Nat : Flag(x, bit) \in {0, bit}
BY DEF Flag

\* The tested numbers fit the fields.
LEMMA NumbersSmall == Numbers \subseteq Small /\ Numbers \subseteq Nat /\ Small \subseteq Nat
BY PfcpCodecAssumption DEF PfcpCodecAssumption, Small

\* An address or name that may be missing is at most 16 octets.
LEMMA MaybeListed ==
  ASSUME NEW x \in Maybe(V4) \cup Maybe(V6) \cup Maybe(<<105, 110>>)
  PROVE  Listed(Given(x, x), Octet, 16)
<1>1. x # Missing => Listed(x, Octet, 16)
  BY AddressesListed, ListedWider DEF Maybe
<1> QED
  BY <1>1, GivenListed

\* An F-SEID fits one element.
LEMMA FSeidMade ==
  ASSUME NEW s \in FSeidArguments
  PROVE  FSeid(s) \in Leaves
<1> DEFINE flags == Flag(s.v4, 2) + Flag(s.v6, 1)
<1>1. s.seid \in Nat /\ s.v4 \in Maybe(V4) /\ s.v6 \in Maybe(V6)
  BY NumbersSmall DEF FSeidArguments
<1>2. flags \in Nat /\ flags <= 255
  BY FlagMade
<1>3. Listed(<<flags>>, Octet, 1) /\ Listed(Word(s.seid, 8), Octet, 8)
  BY <1>1, <1>2, OneOctet, WordMade
<1>4. Listed(Given(s.v4, s.v4), Octet, 16) /\ Listed(Given(s.v6, s.v6), Octet, 16)
  BY <1>1, MaybeListed
<1>5. Listed(<<flags>> \o Word(s.seid, 8), Octet, 9)
  BY <1>3, BothListed
<1>6. Listed(<<flags>> \o Word(s.seid, 8) \o Given(s.v4, s.v4), Octet, 25)
  BY <1>4, <1>5, BothListed
<1>7. Listed(<<flags>> \o Word(s.seid, 8) \o Given(s.v4, s.v4) \o Given(s.v6, s.v6), Octet, 41)
  BY <1>4, <1>6, BothListed
<1> QED
  BY <1>7, LeafMade DEF FSeid, Grouped

\* An F-TEID fits one element.
LEMMA FTeidMade ==
  ASSUME NEW f \in FTeids
  PROVE  FTeid(f) \in Leaves
<1> DEFINE flags == Flag(f.choose, 4) + Flag(f.v4, 2) + Flag(f.v6, 1)
<1>1. f.teid \in Nat /\ f.v4 \in Maybe(V4) /\ f.v6 \in Maybe(V6) /\ f.choose \in Maybe(7)
  BY NumbersSmall DEF FTeids
<1>2. flags \in Nat /\ flags <= 255
  BY FlagMade
<1>3. Listed(<<flags>>, Octet, 1) /\ Listed(Word(f.teid, 4), Octet, 4)
  BY <1>1, <1>2, OneOctet, WordMade
<1>4. Listed(Given(f.v4, f.v4), Octet, 16) /\ Listed(Given(f.v6, f.v6), Octet, 16)
  BY <1>1, MaybeListed
<1>5. Listed(Given(f.choose, <<f.choose>>), Octet, 1)
  <2>1. f.choose # Missing => Listed(<<f.choose>>, Octet, 1)
    BY <1>1, OneOctet DEF Maybe
  <2> QED
    BY <2>1, GivenListed
<1>6. Listed(<<flags>> \o Word(f.teid, 4), Octet, 5)
  BY <1>3, BothListed
<1>7. Listed(<<flags>> \o Word(f.teid, 4) \o Given(f.v4, f.v4), Octet, 21)
  BY <1>4, <1>6, BothListed
<1>8. Listed(<<flags>> \o Word(f.teid, 4) \o Given(f.v4, f.v4) \o Given(f.v6, f.v6), Octet, 37)
  BY <1>4, <1>7, BothListed
<1>9. Listed(<<flags>> \o Word(f.teid, 4) \o Given(f.v4, f.v4) \o Given(f.v6, f.v6)
             \o Given(f.choose, <<f.choose>>), Octet, 38)
  BY <1>5, <1>8, BothListed
<1> QED
  BY <1>9, LeafMade DEF FTeid, Grouped

\* A UE address fits one element.
LEMMA UeIpAddressMade ==
  ASSUME NEW a \in UeIps
  PROVE  UeIpAddress(a) \in Leaves
<1> DEFINE flags == a.side * 4 + Flag(a.v4, 2) + Flag(a.v6, 1)
<1>1. a.side \in {0, 1} /\ a.v4 \in Maybe(V4) /\ a.v6 \in Maybe(V6) /\ a.prefix \in Maybe(64)
  BY DEF UeIps
<1>2. flags \in Nat /\ flags <= 255
  BY <1>1, FlagMade
<1>3. Listed(<<flags>>, Octet, 1)
  BY <1>2, OneOctet
<1>4. Listed(Given(a.v4, a.v4), Octet, 16)
  BY <1>1, MaybeListed
<1>5. Listed(Given(a.prefix, <<a.prefix>>), Octet, 1)
  <2>1. a.prefix # Missing => Listed(<<a.prefix>>, Octet, 1)
    BY <1>1, OneOctet DEF Maybe
  <2> QED
    BY <2>1, GivenListed
<1>6. a.v6 # Missing => Listed(a.v6 \o Given(a.prefix, <<a.prefix>>), Octet, 17)
  <2>1. a.v6 # Missing => Listed(a.v6, Octet, 16)
    BY <1>1, AddressesListed DEF Maybe
  <2> QED
    BY <1>5, <2>1, BothListed
<1>7. Listed(Given(a.v6, a.v6 \o Given(a.prefix, <<a.prefix>>)), Octet, 17)
  BY <1>6, GivenListed
<1>8. Listed(<<flags>> \o Given(a.v4, a.v4), Octet, 17)
  BY <1>3, <1>4, BothListed
<1>9. Listed(<<flags>> \o Given(a.v4, a.v4) \o Given(a.v6, a.v6 \o Given(a.prefix, <<a.prefix>>)), Octet, 34)
  BY <1>7, <1>8, BothListed
<1> QED
  BY <1>9, LeafMade DEF UeIpAddress, Grouped

\* The ids and precedences are numbers.
LEMMA NumbersOrFew == \A x : x \in Numbers \/ x = 1 \/ x = 2 \/ x = 100 => x \in Nat
<1>1. 1 \in Nat /\ 2 \in Nat /\ 100 \in Nat
  OBVIOUS
<1> QED
  BY ONLY <1>1, NumbersSmall, ZenonT(60)

\* Leaves of a fixed width.
LEMMA WordLeaf ==
  ASSUME NEW type \in Nat \ Grouped, type <= 65535, NEW n \in Nat, NEW k \in {2, 4, 5, 8}
  PROVE  Leaf(type, Word(n, k)) \in Leaves
<1>1. k \in Nat /\ k <= 64 /\ Listed(Word(n, k), Octet, k)
  BY WordMade
<1> QED
  BY <1>1, LeafMade

\* One octet fits one element.
LEMMA OctetLeaf ==
  ASSUME NEW type \in Nat \ Grouped, type <= 65535, NEW n \in Nat, n <= 255
  PROVE  Leaf(type, <<n>>) \in Leaves
BY OneOctet, LeafMade

\* A rule's id fits one element.
LEMMA RuleIdMade ==
  ASSUME NEW type \in {56, 81, 108, 109}, NEW id \in Nat, NEW k \in {2, 4}
  PROVE  RuleId(type, id, k) \in Leaves
<1>1. type \in Nat \ Grouped /\ type <= 65535 /\ k \in {2, 4, 5, 8}
  BY DEF Grouped
<1> QED
  BY <1>1, WordLeaf DEF RuleId

\* A network instance fits one element, if there is one.
LEMMA NetworkInstanceMade ==
  ASSUME NEW ni \in Maybe(<<105, 110>>)
  PROVE  Listed(NetworkInstance(ni), Leaves, 1)
<1>1. ni # Missing => Leaf(22, ni) \in Leaves
  BY AddressesListed, LeafMade DEF Maybe, Grouped
<1>2. ni # Missing => Listed(<<Leaf(22, ni)>>, Leaves, 1)
  BY <1>1, FewListed
<1> QED
  BY <1>2, GivenListed DEF NetworkInstance

\* A QFI fits one element, if there is one.
LEMMA QfiMade ==
  ASSUME NEW q, q # Missing => q \in Nat
  PROVE  Listed(Qfi(q), Leaves, 1)
<1>1. ASSUME q # Missing PROVE Leaf(124, <<q % 64>>) \in Leaves
  <2>1. q % 64 \in Nat /\ q % 64 <= 255
    BY <1>1
  <2> QED
    BY <2>1, OctetLeaf DEF Grouped
<1>2. q # Missing => Listed(<<Leaf(124, <<q % 64>>)>>, Leaves, 1)
  BY <1>1, FewListed
<1> QED
  BY <1>2, GivenListed DEF Qfi

\* An outer header fits one element.
LEMMA OuterHeaderCreationMade ==
  ASSUME NEW h \in OuterArguments
  PROVE  OuterHeaderCreation(h) \in Leaves
<1>0. h.description \in {256} /\ h.teid \in Numbers \cup {Missing} /\ h.v4 \in Maybe(V4)
  BY DEF OuterArguments
<1>1. h.description \in Nat /\ (h.teid # Missing => h.teid \in Nat) /\ h.v4 \in Maybe(V4)
  <2>1. h.teid # Missing => h.teid \in Nat
    <3>1. h.teid \in Numbers \/ h.teid = Missing
      BY <1>0
    <3> QED
      BY <3>1, NumbersOrFew
  <2> QED
    BY <1>0, <2>1
<1>2. Listed(Word(h.description, 2), Octet, 2) /\ (h.teid # Missing => Listed(Word(h.teid, 4), Octet, 4))
  <2>1. 2 \in {2, 4, 5, 8} /\ 4 \in {2, 4, 5, 8}
    OBVIOUS
  <2>2. Listed(Word(h.description, 2), Octet, 2)
    BY <1>1, <2>1, WordMade
  <2>3. h.teid # Missing => Listed(Word(h.teid, 4), Octet, 4)
    BY <1>1, <2>1, WordMade
  <2> QED
    BY <2>2, <2>3
<1>3. Listed(Given(h.teid, Word(h.teid, 4)), Octet, 4)
  BY <1>2, GivenListed
<1>4. Listed(Given(h.v4, h.v4), Octet, 16)
  BY <1>1, MaybeListed
<1>5. Listed(Word(h.description, 2) \o Given(h.teid, Word(h.teid, 4)), Octet, 6)
  BY <1>2, <1>3, BothListed
<1>6. Listed(Word(h.description, 2) \o Given(h.teid, Word(h.teid, 4)) \o Given(h.v4, h.v4), Octet, 22)
  BY <1>4, <1>5, BothListed
<1> QED
  BY <1>6, LeafMade DEF OuterHeaderCreation, Grouped

\* Two bit rates fit one element.
LEMMA BitRatesMade ==
  ASSUME NEW r \in Rates2, NEW type \in {26, 27}
  PROVE  BitRates(type, r) \in Leaves
<1>1. r.ul \in Nat /\ r.dl \in Nat
  BY DEF Rates2
<1>2. Listed(Word(r.ul, 5), Octet, 5) /\ Listed(Word(r.dl, 5), Octet, 5)
  BY <1>1, WordMade
<1>3. Listed(Word(r.ul, 5) \o Word(r.dl, 5), Octet, 10)
  BY <1>2, BothListed
<1>4. type \in Nat \ Grouped /\ type <= 65535
  BY DEF Grouped
<1> QED
  BY <1>3, <1>4, LeafMade DEF BitRates

\* Groups.
LEMMA GroupMade ==
  ASSUME NEW S, NEW type \in Grouped, NEW p, NEW n \in Nat, n <= 8, Listed(p, S, n)
  PROVE  Group(type, p) \in GroupsOf(S)
BY DEF Group, GroupsOf, Listed

\* Groups hold elements of their own and smaller groups.
LEMMA LeavesInBranches == Leaves \subseteq Branches /\ Leaves \subseteq Trees /\ GroupsOf(Leaves) \subseteq Branches
                          /\ GroupsOf(Branches) \subseteq Trees
BY DEF Branches, Trees

\* A PDI is a group of such elements, its F-TEID the second where there is one.
LEMMA PdiParts ==
  ASSUME NEW p \in PdiArguments
  PROVE  Pdi(p) \in Branches /\ (p.fteid # Missing => Pdi(p).parts[2] = FTeid(p.fteid))
<1>1. /\ p.source \in {0, 1} /\ p.fteid \in FTeids \cup {Missing} /\ p.ueIp \in UeIps \cup {Missing}
      /\ p.ni \in Maybe(<<105, 110>>) /\ p.qfi \in {Missing, 1, 9, 65}
  BY DEF PdiArguments
<1> DEFINE head == <<Leaf(20, <<p.source>>)>>
           fteid == OneElement(p.fteid, FTeid(p.fteid))
           ueIp == OneElement(p.ueIp, UeIpAddress(p.ueIp))
<1>2. Leaf(20, <<p.source>>) \in Leaves
  BY <1>1, OctetLeaf DEF Grouped
<1>3. Listed(head, Leaves, 1) /\ Len(head) + 1 = 2
  BY <1>2, FewListed
<1>4. Listed(fteid, Leaves, 1) /\ (p.fteid # Missing => Stands(fteid, 1, FTeid(p.fteid)))
  <2>1. Listed(fteid, Leaves, 1)
    BY <1>1, FTeidMade, OneListed
  <2>2. p.fteid # Missing => fteid = <<FTeid(p.fteid)>>
    BY DEF OneElement, Given
  <2> HIDE DEF fteid
  <2> QED
    BY <2>1, <2>2 DEF Stands
<1>5. Listed(ueIp, Leaves, 1)
  BY <1>1, UeIpAddressMade, OneListed
<1>6. Listed(NetworkInstance(p.ni), Leaves, 1) /\ Listed(Qfi(p.qfi), Leaves, 1)
  BY <1>1, NetworkInstanceMade, QfiMade
<1>7. Pdi(p) = Group(2, head \o fteid \o ueIp \o NetworkInstance(p.ni) \o Qfi(p.qfi))
  BY DEF Pdi
<1> HIDE DEF head, fteid, ueIp
<1>8. /\ Listed(head \o fteid, Leaves, 2)
      /\ p.fteid # Missing => Stands(head \o fteid, 2, FTeid(p.fteid))
  BY <1>3, <1>4, BothListed, StandsNext
<1>9. /\ Listed(head \o fteid \o ueIp, Leaves, 3)
      /\ p.fteid # Missing => Stands(head \o fteid \o ueIp, 2, FTeid(p.fteid))
  BY <1>5, <1>8, BothListed, StandsStill
<1>10. /\ Listed(head \o fteid \o ueIp \o NetworkInstance(p.ni), Leaves, 4)
       /\ p.fteid # Missing => Stands(head \o fteid \o ueIp \o NetworkInstance(p.ni), 2, FTeid(p.fteid))
  BY <1>6, <1>9, BothListed, StandsStill
<1>11. /\ Listed(head \o fteid \o ueIp \o NetworkInstance(p.ni) \o Qfi(p.qfi), Leaves, 5)
       /\ p.fteid # Missing =>
            Stands(head \o fteid \o ueIp \o NetworkInstance(p.ni) \o Qfi(p.qfi), 2, FTeid(p.fteid))
  BY <1>6, <1>10, BothListed, StandsStill
<1>12. Pdi(p) \in Branches
  BY <1>7, <1>11, GroupMade, LeavesInBranches DEF Grouped
<1> QED
  BY <1>7, <1>11, <1>12 DEF Group, Stands

\* Forwarding parameters are a group of such elements.
LEMMA ForwardingParametersMade ==
  ASSUME NEW f \in ForwardingArguments
  PROVE  ForwardingParameters(f) \in Branches
<1>1. f.destination \in {0, 1} /\ f.ni \in Maybe(<<105, 110>>) /\ f.outer \in {Missing} \cup OuterArguments
  BY DEF ForwardingArguments
<1>2. Leaf(42, <<f.destination>>) \in Leaves
  BY <1>1, OctetLeaf DEF Grouped
<1>3. Listed(<<Leaf(42, <<f.destination>>)>>, Leaves, 1)
  BY <1>2, FewListed
<1>4. Listed(NetworkInstance(f.ni), Leaves, 1)
  BY <1>1, NetworkInstanceMade
<1>5. Listed(OneElement(f.outer, OuterHeaderCreation(f.outer)), Leaves, 1)
  BY <1>1, OuterHeaderCreationMade, OneListed
<1>6. Listed(<<Leaf(42, <<f.destination>>)>> \o NetworkInstance(f.ni), Leaves, 2)
  BY <1>3, <1>4, BothListed
<1>7. Listed(<<Leaf(42, <<f.destination>>)>> \o NetworkInstance(f.ni)
             \o OneElement(f.outer, OuterHeaderCreation(f.outer)), Leaves, 3)
  BY <1>5, <1>6, BothListed
<1>8. ForwardingParameters(f) \in GroupsOf(Leaves)
  BY <1>7, GroupMade DEF ForwardingParameters, Grouped
<1> QED
  BY <1>8, LeavesInBranches

\* A PDR is a group whose third element is its PDI.
LEMMA PdrParts ==
  ASSUME NEW p \in PdrArguments
  PROVE  CreatePdr(p) \in Trees /\ CreatePdr(p).parts[3] = Pdi(p.pdi)
<1>0. /\ p.id \in {1, 2}
      /\ p.precedence \in Numbers \cup {100}
      /\ p.pdi \in PdiArguments
      /\ p.removal \in Maybe(0)
      /\ p.far \in {Missing, 1, 2}
      /\ p.urrs \in {<<>>, <<1, 2>>}
      /\ p.qer \in Maybe(1)
  BY DEF PdrArguments
<1>1. /\ p.id \in {1, 2} /\ p.precedence \in Nat /\ p.pdi \in PdiArguments /\ p.removal \in Maybe(0)
      /\ p.far \in {Missing, 1, 2} /\ p.urrs \in {<<>>, <<1, 2>>} /\ p.qer \in Maybe(1)
  <2>1. p.precedence \in Nat
    <3>1. p.precedence \in Numbers \/ p.precedence = 100
      BY <1>0
    <3> QED
      BY <3>1, NumbersOrFew
  <2> QED
    BY ONLY <1>0, <2>1, Zenon
<1> DEFINE urrs == [i \in 1 .. Len(p.urrs) |-> RuleId(81, p.urrs[i], 4)]
           head == <<RuleId(56, p.id, 2), Leaf(29, Word(p.precedence, 4)), Pdi(p.pdi)>>
<1>2. RuleId(56, p.id, 2) \in Branches
  BY <1>1, RuleIdMade, LeavesInBranches
<1>3. Leaf(29, Word(p.precedence, 4)) \in Branches
  BY <1>1, WordLeaf, LeavesInBranches DEF Grouped
<1>4. Listed(head, Branches, 3) /\ Stands(head, 3, Pdi(p.pdi))
  <2>1. Listed(head, Branches, 3)
    BY <1>1, <1>2, <1>3, PdiParts, FewListed
  <2> QED
    BY <2>1 DEF Stands
<1>5. Listed(OneElement(p.removal, Leaf(95, <<p.removal>>)), Branches, 1)
  <2>1. p.removal # Missing => Leaf(95, <<p.removal>>) \in Branches
    BY <1>1, OctetLeaf, LeavesInBranches DEF Grouped, Maybe
  <2> QED
    BY <2>1, OneListed
<1>6. Listed(OneElement(p.far, RuleId(108, p.far, 4)), Branches, 1)
  <2>1. p.far # Missing => RuleId(108, p.far, 4) \in Branches
    BY <1>1, RuleIdMade, LeavesInBranches
  <2> QED
    BY <2>1, OneListed
<1>7. Listed(OneElement(p.qer, RuleId(109, p.qer, 4)), Branches, 1)
  <2>1. p.qer # Missing => RuleId(109, p.qer, 4) \in Branches
    BY <1>1, RuleIdMade, LeavesInBranches DEF Maybe
  <2> QED
    BY <2>1, OneListed
<1>8. Listed(urrs, Branches, 2)
  <2>1. \A i \in 1 .. Len(p.urrs) : RuleId(81, p.urrs[i], 4) \in Branches
    <3>1. \A i \in 1 .. Len(p.urrs) : p.urrs[i] \in Nat
      BY <1>1
    <3> QED
      BY <3>1, RuleIdMade, LeavesInBranches
  <2>2. Len(p.urrs) \in Nat /\ Len(p.urrs) <= 2
    <3>1. CASE p.urrs = <<>>
      BY <3>1
    <3>2. CASE p.urrs = <<1, 2>>
      BY <3>2
    <3> QED
      BY <1>1, <3>1, <3>2
  <2> QED
    BY <2>1, <2>2 DEF Listed
<1> DEFINE removal == OneElement(p.removal, Leaf(95, <<p.removal>>))
           far == OneElement(p.far, RuleId(108, p.far, 4))
           qer == OneElement(p.qer, RuleId(109, p.qer, 4))
<1>9. CreatePdr(p) = Group(1, head \o removal \o far \o urrs \o qer)
  BY DEF CreatePdr
<1> HIDE DEF head, urrs, removal, far, qer
<1>10. Listed(head \o removal, Branches, 4) /\ Stands(head \o removal, 3, Pdi(p.pdi))
  BY <1>4, <1>5, BothListed, StandsStill DEF removal
<1>11. Listed(head \o removal \o far, Branches, 5) /\ Stands(head \o removal \o far, 3, Pdi(p.pdi))
  BY <1>6, <1>10, BothListed, StandsStill DEF far
<1>12. Listed(head \o removal \o far \o urrs, Branches, 7) /\ Stands(head \o removal \o far \o urrs, 3, Pdi(p.pdi))
  BY <1>8, <1>11, BothListed, StandsStill
<1>13. /\ Listed(head \o removal \o far \o urrs \o qer, Branches, 8)
       /\ Stands(head \o removal \o far \o urrs \o qer, 3, Pdi(p.pdi))
  BY <1>7, <1>12, BothListed, StandsStill DEF qer
<1>14. CreatePdr(p) \in GroupsOf(Branches)
  BY <1>9, <1>13, GroupMade DEF Grouped
<1> QED
  BY <1>9, <1>13, <1>14, LeavesInBranches DEF Group, Stands

\* A FAR is a group of a group.
LEMMA CreateFarMade ==
  ASSUME NEW f \in FarArguments
  PROVE  CreateFar(f) \in Trees
<1>0. /\ f.id \in Numbers \cup {1, 2}
      /\ f.action \in {2, 256}
      /\ f.bar \in Maybe(1)
      /\ f.forwarding \in {Missing} \cup ForwardingArguments
  BY DEF FarArguments
<1>1. /\ f.id \in Nat /\ f.action \in {2, 256} /\ f.bar \in Maybe(1)
      /\ f.forwarding \in {Missing} \cup ForwardingArguments
  <2>1. f.id \in Nat
    <3>1. f.id \in Numbers \/ f.id = 1 \/ f.id = 2
      BY <1>0
    <3> QED
      BY <3>1, NumbersOrFew
  <2> QED
    BY ONLY <1>0, <2>1, Zenon
<1> DEFINE head == <<RuleId(108, f.id, 4), Leaf(44, Word(f.action, 2))>>
<1>2. RuleId(108, f.id, 4) \in Branches
  BY <1>1, RuleIdMade, LeavesInBranches
<1>3. Leaf(44, Word(f.action, 2)) \in Branches
  BY <1>1, WordLeaf, LeavesInBranches DEF Grouped
<1>4. Listed(head, Branches, 2)
  BY <1>2, <1>3, FewListed
<1>5. Listed(OneElement(f.forwarding, ForwardingParameters(f.forwarding)), Branches, 1)
  BY <1>1, ForwardingParametersMade, OneListed
<1>6. Listed(OneElement(f.bar, Leaf(88, <<f.bar>>)), Branches, 1)
  <2>1. f.bar # Missing => Leaf(88, <<f.bar>>) \in Branches
    BY <1>1, OctetLeaf, LeavesInBranches DEF Grouped, Maybe
  <2> QED
    BY <2>1, OneListed
<1> HIDE DEF head
<1>7. Listed(head \o OneElement(f.forwarding, ForwardingParameters(f.forwarding)), Branches, 3)
  BY <1>4, <1>5, BothListed
<1>8. Listed(head \o OneElement(f.forwarding, ForwardingParameters(f.forwarding))
             \o OneElement(f.bar, Leaf(88, <<f.bar>>)), Branches, 4)
  BY <1>6, <1>7, BothListed
<1>9. CreateFar(f) \in GroupsOf(Branches)
  BY <1>8, GroupMade DEF CreateFar, Grouped, head
<1> QED
  BY <1>9, LeavesInBranches

\* A QER is a group.
LEMMA CreateQerMade ==
  ASSUME NEW q \in QerArguments
  PROVE  CreateQer(q) \in Trees
<1>0. /\ q.id \in Numbers \cup {1}
      /\ q.ul \in {0, 1}
      /\ q.dl \in {0, 1}
      /\ q.qfi \in Maybe(1)
      /\ q.mbr \in Rates2 \cup {Missing}
      /\ q.gbr \in Rates2 \cup {Missing}
  BY DEF QerArguments
<1>1. /\ q.id \in Nat /\ q.ul \in {0, 1} /\ q.dl \in {0, 1} /\ q.qfi \in Maybe(1)
      /\ q.mbr \in Rates2 \cup {Missing} /\ q.gbr \in Rates2 \cup {Missing}
  <2>1. q.id \in Nat
    <3>1. q.id \in Numbers \/ q.id = 1
      BY <1>0
    <3> QED
      BY <3>1, NumbersOrFew
  <2> QED
    BY ONLY <1>0, <2>1, Zenon
<1> DEFINE head == <<RuleId(109, q.id, 4), Leaf(25, <<q.dl * 4 + q.ul>>)>>
<1>2. RuleId(109, q.id, 4) \in Leaves
  BY <1>1, RuleIdMade
<1>3. Leaf(25, <<q.dl * 4 + q.ul>>) \in Leaves
  <2>1. q.dl * 4 + q.ul \in Nat /\ q.dl * 4 + q.ul <= 255
    BY <1>1
  <2> QED
    BY <2>1, OctetLeaf DEF Grouped
<1>4. Listed(head, Leaves, 2)
  BY <1>2, <1>3, FewListed
<1>5. Listed(OneElement(q.mbr, BitRates(26, q.mbr)), Leaves, 1)
  BY <1>1, BitRatesMade, OneListed
<1>6. Listed(OneElement(q.gbr, BitRates(27, q.gbr)), Leaves, 1)
  BY <1>1, BitRatesMade, OneListed
<1>7. Listed(Qfi(q.qfi), Leaves, 1)
  BY <1>1, QfiMade DEF Maybe
<1> HIDE DEF head
<1>8. Listed(head \o OneElement(q.mbr, BitRates(26, q.mbr)), Leaves, 3)
  BY <1>4, <1>5, BothListed
<1>9. Listed(head \o OneElement(q.mbr, BitRates(26, q.mbr)) \o OneElement(q.gbr, BitRates(27, q.gbr)), Leaves, 4)
  BY <1>6, <1>8, BothListed
<1>10. Listed(head \o OneElement(q.mbr, BitRates(26, q.mbr)) \o OneElement(q.gbr, BitRates(27, q.gbr))
              \o Qfi(q.qfi), Leaves, 5)
  BY <1>7, <1>9, BothListed
<1>11. Listed(head \o OneElement(q.mbr, BitRates(26, q.mbr)) \o OneElement(q.gbr, BitRates(27, q.gbr))
              \o Qfi(q.qfi), Branches, 5)
  BY <1>10, LeavesInBranches, ListedWider
<1>12. CreateQer(q) \in GroupsOf(Branches)
  BY <1>11, GroupMade DEF CreateQer, Grouped, head
<1> QED
  BY <1>12, LeavesInBranches

-----------------------------------------------------------------------------
(* What each PFCP message is made of.                                       *)

\* What the arguments of a session establishment request are.
IsEstablishment(m) ==
  /\ m.type = SessionEstablishmentRequest /\ m.seid \in Small /\ m.node \in NodeIds
  /\ m.fseid \in FSeidArguments /\ m.pdnType \in Maybe(1)
  /\ Listed(m.pdrs, PdrArguments, 2) /\ Listed(m.fars, FarArguments, 2) /\ Listed(m.qers, QerArguments, 1)

\* The arguments the node picks by itself are among those of any rule.
LEMMA ArgumentsWiden ==
  /\ Pdis \subseteq PdiArguments /\ Pdis # {} /\ Fars \subseteq FarArguments /\ Qers \subseteq QerArguments
<1>1. Pdis \subseteq PdiArguments
  BY DEF Pdis, PdiArguments, Maybe
<1>2. Pdis # {}
  <2>1. [source |-> 0, fteid |-> Missing, ueIp |-> Missing, ni |-> Missing, qfi |-> Missing] \in Pdis
    BY DEF Pdis, Maybe
  <2> QED
    BY <2>1
<1>3. Fars \subseteq FarArguments
  BY DEF Fars, FarArguments, ForwardingArguments, OuterArguments, Maybe
<1>4. Qers \subseteq QerArguments
  BY DEF Qers, QerArguments
<1> QED
  BY <1>1, <1>2, <1>3, <1>4

\* The tested PDRs are PDRs.
LEMMA PdrsWiden == Pdrs \subseteq PdrArguments
<1> DEFINE one == CHOOSE p \in Pdis : TRUE
<1>1. one \in Pdis
  BY ArgumentsWiden
<1>2. Pdis \subseteq PdiArguments
  BY ArgumentsWiden
<1> SUFFICES ASSUME NEW p \in Pdrs PROVE p \in PdrArguments
  OBVIOUS
<1>3. CASE p \in [id : {1}, precedence : {100}, pdi : Pdis, removal : {0}, far : {1}, urrs : {<<>>}, qer : {Missing}]
  BY <1>2, <1>3 DEF PdrArguments, Maybe
<1> HIDE DEF one
<1>4. CASE p \in [id : {1}, precedence : Numbers, pdi : {one}, removal : Maybe(0),
                  far : Maybe(1), urrs : {<<>>, <<1, 2>>}, qer : Maybe(1)]
  BY <1>1, <1>2, <1>4 DEF PdrArguments, Maybe
<1> QED
  BY <1>3, <1>4 DEF Pdrs, one

\* 0 and 1 fit the fields.
LEMMA OneIsSmall == 1 \in Small /\ 0 \in Small
BY DEF Small, Largest

\* The node itself has an IPv4 address.
LEMMA NodeIdV4 == [kind |-> 0, id |-> V4] \in NodeIds
BY DEF NodeIds

\* A session of one rule.
LEMMA OneRuleShape ==
  ASSUME NEW P, NEW R, NEW Q, NEW D, NEW m \in OneRule(P, R, Q, D), D \subseteq Maybe(1),
         \A l \in P : Listed(l, PdrArguments, 1), \A l \in R : Listed(l, FarArguments, 1),
         \A l \in Q : Listed(l, QerArguments, 1)
  PROVE  IsEstablishment(m)
<1>1. /\ m.type = SessionEstablishmentRequest /\ m.seid = 1 /\ m.node = [kind |-> 0, id |-> V4]
      /\ m.fseid = [seid |-> 1, v4 |-> V4, v6 |-> Missing]
      /\ m.pdrs \in P /\ m.fars \in R /\ m.qers \in Q /\ m.pdnType \in D
  BY DEF OneRule
<1>2. m.fseid \in FSeidArguments
  BY <1>1, OneIsSmall DEF FSeidArguments, Maybe
<1>3. Listed(m.pdrs, PdrArguments, 2) /\ Listed(m.fars, FarArguments, 2) /\ Listed(m.qers, QerArguments, 1)
  BY <1>1, ListedWider
<1> QED
  BY <1>1, <1>2, <1>3, OneIsSmall, NodeIdV4 DEF IsEstablishment

\* What the node sends from its own rules is an establishment request as any other.
LEMMA NodeRequestShape ==
  ASSUME NEW seid \in Numbers, NEW teid \in Numbers
  PROVE  IsEstablishment(NodeRequest(seid, V4, teid))
<1> DEFINE m == NodeRequest(seid, V4, teid)
           pdi1 == [source |-> 0, fteid |-> [teid |-> teid, v4 |-> V4, v6 |-> Missing, choose |-> Missing],
                    ueIp |-> Missing, ni |-> Missing, qfi |-> 1]
           pdi2 == [source |-> 1, fteid |-> Missing, ni |-> Missing, qfi |-> 1,
                    ueIp |-> [side |-> 1, v4 |-> V4, v6 |-> Missing, prefix |-> Missing]]
           rule1 == [id |-> 1, precedence |-> 100, pdi |-> pdi1, removal |-> 0, far |-> 1, urrs |-> <<>>, qer |-> Missing]
           rule2 == [id |-> 2, precedence |-> 100, pdi |-> pdi2, removal |-> Missing, far |-> 2, urrs |-> <<>>, qer |-> Missing]
           forwarding1 == [destination |-> 1, ni |-> <<105, 110>>, outer |-> Missing]
           outer2 == [description |-> 256, teid |-> teid, v4 |-> V4]
           forwarding2 == [destination |-> 0, ni |-> Missing, outer |-> outer2]
           far1 == [id |-> 1, action |-> 2, bar |-> Missing, forwarding |-> forwarding1]
           far2 == [id |-> 2, action |-> 2, bar |-> Missing, forwarding |-> forwarding2]
           rates == [ul |-> 100000, dl |-> 100000]
           qer == [id |-> 1, ul |-> 0, dl |-> 0, mbr |-> rates, gbr |-> Missing, qfi |-> 1]
<1>1. /\ m.type = SessionEstablishmentRequest /\ m.seid = seid /\ m.node = [kind |-> 0, id |-> V4]
      /\ m.fseid = [seid |-> seid, v4 |-> V4, v6 |-> Missing] /\ m.pdnType = Missing
      /\ m.pdrs = <<rule1, rule2>> /\ m.fars = <<far1, far2>> /\ m.qers = <<qer>>
  BY DEF NodeRequest
<1>2. pdi1 \in PdiArguments /\ pdi2 \in PdiArguments
  BY DEF PdiArguments, FTeids, UeIps, Maybe
<1>3. outer2 \in OuterArguments
  BY DEF OuterArguments, Maybe
<1>4. rates \in Rates2
  BY DEF Rates2
<1> HIDE DEF pdi1, pdi2, outer2, rates, m
<1>5. rule1 \in PdrArguments /\ rule2 \in PdrArguments
  BY <1>2 DEF PdrArguments, Maybe
<1>6. forwarding1 \in ForwardingArguments /\ forwarding2 \in ForwardingArguments
  BY <1>3 DEF ForwardingArguments, Maybe
<1> HIDE DEF forwarding1, forwarding2
<1>7. far1 \in FarArguments /\ far2 \in FarArguments
  BY <1>6 DEF FarArguments, Maybe
<1>8. qer \in QerArguments
  BY <1>4 DEF QerArguments, Maybe
<1> HIDE DEF rule1, rule2, far1, far2, qer
<1>9. Listed(m.pdrs, PdrArguments, 2) /\ Listed(m.fars, FarArguments, 2) /\ Listed(m.qers, QerArguments, 1)
  BY <1>1, <1>5, <1>7, <1>8, FewListed
<1>10. seid \in Small
  BY NumbersSmall
<1>11. m.fseid \in FSeidArguments
  BY <1>1, <1>10 DEF FSeidArguments, Maybe
<1> QED
  BY <1>1, <1>9, <1>10, <1>11, NodeIdV4 DEF IsEstablishment, Maybe, m

\* What is known of a message and of the elements it is encoded as.
Shaped(m) ==
  /\ m.type \in {HeartbeatRequest, HeartbeatResponse, AssociationSetupRequest, AssociationSetupResponse}
                \cup OfSessions
  /\ m.type \in OfSessions => m.seid \in Small
  /\ Listed(ElementsOf(m), Trees, 8)
  /\ "node" \in DOMAIN m => m.node \in NodeIds /\ ElementsOf(m)[1] = NodeId(m.node)
  /\ m.type = SessionEstablishmentRequest =>
       /\ m.fseid \in FSeidArguments /\ ElementsOf(m)[2] = FSeid(m.fseid)
       /\ Listed(m.pdrs, PdrArguments, 2)
       /\ Len(m.pdrs) = 1 => ElementsOf(m)[3] = CreatePdr(m.pdrs[1])
  /\ m.type = SessionEstablishmentResponse /\ m.fseid # Missing =>
       m.fseid \in FSeidArguments /\ ElementsOf(m)[3] = FSeid(m.fseid)

\* j is p with q after it.
Appended(j, p, q) ==
  /\ Len(j) = Len(p) + Len(q) /\ Len(p) \in Nat /\ Len(q) \in Nat
  /\ \A i \in 1 .. Len(p) : j[i] = p[i]
  /\ Len(q) > 0 => j[Len(p) + 1] = q[1]

\* One list after another.
LEMMA HeadKept ==
  ASSUME NEW S, NEW a \in Nat, NEW b \in Nat, NEW p, NEW q, Listed(p, S, a), Listed(q, S, b)
  PROVE  Appended(p \o q, p, q)
<1>1. p \in Seq(S) /\ q \in Seq(S)
  BY DEF Listed
<1> QED
  BY <1>1 DEF Appended

\* Each type is its own case.
LEMMA ElementsOfEach ==
  ASSUME NEW m
  PROVE  /\ m.type \in {HeartbeatRequest, HeartbeatResponse} => ElementsOf(m) = <<RecoveryTimeStamp(m.time)>>
         /\ m.type = AssociationSetupRequest =>
              ElementsOf(m) = <<NodeId(m.node), RecoveryTimeStamp(m.time)>>
                              \o OneElement(m.features, Leaf(89, Word(m.features, 2)))
         /\ m.type = AssociationSetupResponse =>
              ElementsOf(m) = <<NodeId(m.node), Cause(m.cause), RecoveryTimeStamp(m.time)>>
                              \o OneElement(m.features, Leaf(43, Word(m.features, 2)))
         /\ m.type = SessionEstablishmentRequest =>
              ElementsOf(m) = <<NodeId(m.node), FSeid(m.fseid)>> \o EachOf(CreatePdr, m.pdrs)
                              \o EachOf(CreateFar, m.fars) \o EachOf(CreateQer, m.qers)
                              \o OneElement(m.pdnType, Leaf(113, <<m.pdnType>>))
         /\ m.type = SessionEstablishmentResponse =>
              ElementsOf(m) = <<NodeId(m.node), Cause(m.cause)>> \o OneElement(m.fseid, FSeid(m.fseid))
         /\ m.type = SessionDeletionRequest => ElementsOf(m) = <<>>
         /\ m.type = SessionDeletionResponse => ElementsOf(m) = <<Cause(m.cause)>>
<1> USE DEF HeartbeatRequest, HeartbeatResponse, AssociationSetupRequest, AssociationSetupResponse,
            SessionEstablishmentRequest, SessionEstablishmentResponse, SessionDeletionRequest, SessionDeletionResponse
<1>1. CASE m.type \in {HeartbeatRequest, HeartbeatResponse}
  <2>1. ElementsOf(m) = <<RecoveryTimeStamp(m.time)>>
    BY <1>1 DEF ElementsOf
  <2>2. /\ m.type # AssociationSetupRequest /\ m.type # AssociationSetupResponse
        /\ m.type # SessionEstablishmentRequest /\ m.type # SessionEstablishmentResponse
        /\ m.type # SessionDeletionRequest /\ m.type # SessionDeletionResponse
    BY <1>1
  <2> QED
    BY <2>1, <2>2, Zenon
<1>2. CASE m.type = AssociationSetupRequest
  BY <1>2 DEF ElementsOf
<1>3. CASE m.type = AssociationSetupResponse
  BY <1>3 DEF ElementsOf
<1>4. CASE m.type = SessionEstablishmentRequest
  <2>1. /\ m.type \notin {HeartbeatRequest, HeartbeatResponse} /\ m.type # AssociationSetupRequest
        /\ m.type # AssociationSetupResponse /\ m.type # SessionEstablishmentResponse
        /\ m.type # SessionDeletionRequest /\ m.type # SessionDeletionResponse
    BY <1>4
  <2> QED
    BY ONLY <1>4, <2>1, Zenon DEF ElementsOf
<1>5. CASE m.type = SessionEstablishmentResponse
  BY <1>5 DEF ElementsOf
<1>6. CASE m.type = SessionDeletionRequest
  BY <1>6 DEF ElementsOf
<1>7. CASE m.type = SessionDeletionResponse
  BY <1>7 DEF ElementsOf
<1> QED
  BY <1>1, <1>2, <1>3, <1>4, <1>5, <1>6, <1>7

\* What a list holds is of the list's kind.
LEMMA ListedMember ==
  ASSUME NEW S, NEW n \in Nat, NEW p, Listed(p, S, n), NEW i \in 1 .. Len(p)
  PROVE  p[i] \in S
BY ElementOfSeq DEF Listed

\* An establishment request has the elements its encoder puts first in their places.
LEMMA EstablishmentShaped ==
  ASSUME NEW m, IsEstablishment(m)
  PROVE  Shaped(m)
<1>1. /\ m.type = SessionEstablishmentRequest /\ m.seid \in Small /\ m.node \in NodeIds
      /\ m.fseid \in FSeidArguments /\ m.pdnType \in Maybe(1)
      /\ Listed(m.pdrs, PdrArguments, 2) /\ Listed(m.fars, FarArguments, 2) /\ Listed(m.qers, QerArguments, 1)
  BY DEF IsEstablishment
<1> DEFINE head == <<NodeId(m.node), FSeid(m.fseid)>>
           pdrs == [i \in 1 .. Len(m.pdrs) |-> CreatePdr(m.pdrs[i])]
           fars == [i \in 1 .. Len(m.fars) |-> CreateFar(m.fars[i])]
           qers == [i \in 1 .. Len(m.qers) |-> CreateQer(m.qers[i])]
           pdn == OneElement(m.pdnType, Leaf(113, <<m.pdnType>>))
<1>2. ElementsOf(m) = head \o pdrs \o fars \o qers \o pdn
  BY <1>1, ElementsOfEach DEF EachOf
<1>3. Listed(head, Trees, 2)
  BY <1>1, NodeIdMade, FSeidMade, LeavesInBranches, FewListed
<1>4. Listed(pdrs, Trees, 2) /\ Len(pdrs) = Len(m.pdrs)
  <2>1. \A i \in 1 .. Len(m.pdrs) : CreatePdr(m.pdrs[i]) \in Trees
    BY <1>1, PdrParts, ListedMember
  <2>2. Len(m.pdrs) \in Nat /\ Len(m.pdrs) <= 2
    BY <1>1 DEF Listed
  <2> QED
    BY <2>1, <2>2 DEF Listed
<1>5. Listed(fars, Trees, 2)
  <2>1. \A i \in 1 .. Len(m.fars) : CreateFar(m.fars[i]) \in Trees
    BY <1>1, CreateFarMade, ListedMember
  <2>2. Len(m.fars) \in Nat /\ Len(m.fars) <= 2
    BY <1>1 DEF Listed
  <2> QED
    BY <2>1, <2>2 DEF Listed
<1>6. Listed(qers, Trees, 1)
  <2>1. \A i \in 1 .. Len(m.qers) : CreateQer(m.qers[i]) \in Trees
    BY <1>1, CreateQerMade, ListedMember
  <2>2. Len(m.qers) \in Nat /\ Len(m.qers) <= 1
    BY <1>1 DEF Listed
  <2> QED
    BY <2>1, <2>2 DEF Listed
<1>7. Listed(pdn, Trees, 1)
  <2>1. m.pdnType # Missing => Leaf(113, <<m.pdnType>>) \in Trees
    BY <1>1, OctetLeaf, LeavesInBranches DEF Grouped, Maybe
  <2> QED
    BY <2>1, OneListed
<1>9. /\ Len(head) = 2 /\ head[1] = NodeId(m.node) /\ head[2] = FSeid(m.fseid)
      /\ Len(m.pdrs) = 1 => pdrs[1] = CreatePdr(m.pdrs[1])
  OBVIOUS
<1> HIDE DEF head, pdrs, fars, qers, pdn
<1>10. PICK j1 : j1 = head \o pdrs
  OBVIOUS
<1>11. Listed(j1, Trees, 4) /\ Appended(j1, head, pdrs)
  BY <1>3, <1>4, <1>10, BothListed, HeadKept
<1>12. PICK j2 : j2 = j1 \o fars
  OBVIOUS
<1>13. Listed(j2, Trees, 6) /\ Appended(j2, j1, fars)
  BY <1>5, <1>11, <1>12, BothListed, HeadKept
<1>14. PICK j3 : j3 = j2 \o qers
  OBVIOUS
<1>15. Listed(j3, Trees, 7) /\ Appended(j3, j2, qers)
  BY <1>6, <1>13, <1>14, BothListed, HeadKept
<1>16. PICK j4 : j4 = j3 \o pdn
  OBVIOUS
<1>17. Listed(j4, Trees, 8) /\ Appended(j4, j3, pdn)
  BY <1>7, <1>15, <1>16, BothListed, HeadKept
<1>18. ElementsOf(m) = j4
  BY <1>2, <1>10, <1>12, <1>14, <1>16
<1>19. \A i \in 1 .. Len(j1) : j4[i] = j1[i]
  <2>1. \A i \in 1 .. Len(j1) : j2[i] = j1[i] /\ i \in 1 .. Len(j2)
    BY <1>13 DEF Appended
  <2>2. \A i \in 1 .. Len(j2) : j3[i] = j2[i] /\ i \in 1 .. Len(j3)
    BY <1>15 DEF Appended
  <2>3. \A i \in 1 .. Len(j3) : j4[i] = j3[i]
    BY <1>17 DEF Appended
  <2> QED
    BY <2>1, <2>2, <2>3
<1>20. j4[1] = NodeId(m.node) /\ j4[2] = FSeid(m.fseid)
  <2>1. 1 \in 1 .. Len(head) /\ 2 \in 1 .. Len(head)
    BY <1>9
  <2>2. 1 \in 1 .. Len(j1) /\ 2 \in 1 .. Len(j1)
    BY <1>9, <1>11 DEF Appended
  <2>3. j1[1] = head[1] /\ j1[2] = head[2]
    BY <1>11, <2>1 DEF Appended
  <2> QED
    BY <1>9, <1>19, <2>2, <2>3
<1>21. ASSUME Len(m.pdrs) = 1 PROVE j4[3] = CreatePdr(m.pdrs[1])
  <2>1. Len(pdrs) > 0 /\ Len(head) + 1 = 3
    BY <1>4, <1>9, <1>21
  <2>2. j1[3] = pdrs[1] /\ 3 \in 1 .. Len(j1)
    BY <1>9, <1>11, <2>1 DEF Appended
  <2> QED
    BY <1>9, <1>19, <1>21, <2>2
<1>22. /\ m.type \in OfSessions /\ m.type # SessionEstablishmentResponse
  BY <1>1 DEF OfSessions, SessionEstablishmentRequest, SessionEstablishmentResponse
<1>23. PICK e : e = ElementsOf(m)
  OBVIOUS
<1> QED
  BY <1>1, <1>17, <1>18, <1>20, <1>21, <1>22, <1>23 DEF Shaped

\* Which message types carry an SEID.
LEMMA TypesApart ==
  /\ HeartbeatRequest \notin OfSessions /\ HeartbeatResponse \notin OfSessions
  /\ AssociationSetupRequest \notin OfSessions /\ AssociationSetupResponse \notin OfSessions
  /\ SessionEstablishmentResponse \in OfSessions /\ SessionDeletionRequest \in OfSessions
  /\ SessionDeletionResponse \in OfSessions
  /\ \A t \in {HeartbeatRequest, HeartbeatResponse, AssociationSetupRequest, AssociationSetupResponse,
               SessionEstablishmentResponse, SessionDeletionRequest, SessionDeletionResponse} :
       t # SessionEstablishmentRequest
  /\ \A t \in {HeartbeatRequest, HeartbeatResponse, AssociationSetupRequest, AssociationSetupResponse,
               SessionEstablishmentRequest, SessionDeletionRequest, SessionDeletionResponse} :
       t # SessionEstablishmentResponse
BY DEF OfSessions, HeartbeatRequest, HeartbeatResponse, AssociationSetupRequest, AssociationSetupResponse,
       SessionEstablishmentRequest, SessionEstablishmentResponse, SessionDeletionRequest, SessionDeletionResponse

\* A time stamp fits one element.
LEMMA TimeMade == \A n \in Numbers : RecoveryTimeStamp(n) \in Trees
<1> TAKE n \in Numbers
<1>1. n \in Nat
  BY NumbersSmall
<1> QED
  BY <1>1, WordLeaf, LeavesInBranches DEF RecoveryTimeStamp, Grouped

\* A cause fits one element.
LEMMA CauseMade == \A c \in {1, 72} : Cause(c) \in Trees
<1> TAKE c \in {1, 72}
<1>1. 19 \in Nat \ Grouped /\ 19 <= 65535 /\ c \in Nat /\ c <= 255
  BY DEF Grouped
<1> QED
  BY <1>1, OctetLeaf, LeavesInBranches DEF Cause

\* One element is few.
LEMMA OneIsFew ==
  ASSUME NEW S, NEW p, Listed(p, S, 1)
  PROVE  Listed(p, S, 8)
BY DEF Listed

\* Features fit one element, if there are any.
LEMMA FeaturesMade ==
  ASSUME NEW f \in Maybe(1), NEW type \in {43, 89}
  PROVE  Listed(OneElement(f, Leaf(type, Word(f, 2))), Trees, 1)
<1>1. type \in Nat \ Grouped /\ type <= 65535
  BY DEF Grouped
<1>2. f # Missing => Leaf(type, Word(f, 2)) \in Trees
  BY <1>1, WordLeaf, LeavesInBranches DEF Maybe
<1> QED
  BY <1>2, OneListed

\* A heartbeat consists of its time stamp.
LEMMA HeartbeatShaped ==
  ASSUME NEW m \in [type : {HeartbeatRequest, HeartbeatResponse}, seid : {0}, time : Numbers]
  PROVE  Shaped(m)
<1>1. m.type \in {HeartbeatRequest, HeartbeatResponse} /\ m.time \in Numbers /\ "node" \notin DOMAIN m
  OBVIOUS
<1>2. Listed(ElementsOf(m), Trees, 8)
  <2>1. Listed(<<RecoveryTimeStamp(m.time)>>, Trees, 1)
    BY <1>1, TimeMade, FewListed
  <2> QED
    BY <1>1, <2>1, ElementsOfEach, OneIsFew
<1> QED
  BY <1>1, <1>2, TypesApart DEF Shaped

\* An association setup request consists of such elements.
LEMMA SetupRequestShaped ==
  ASSUME NEW m \in [type : {AssociationSetupRequest}, seid : {0}, node : NodeIds, time : Numbers, features : Maybe(1)]
  PROVE  Shaped(m)
<1>1. m.type = AssociationSetupRequest /\ m.time \in Numbers /\ m.node \in NodeIds /\ m.features \in Maybe(1)
  OBVIOUS
<1> DEFINE head == <<NodeId(m.node), RecoveryTimeStamp(m.time)>>
           rest == OneElement(m.features, Leaf(89, Word(m.features, 2)))
<1>2. Listed(head, Trees, 2)
  BY <1>1, NodeIdMade, TimeMade, LeavesInBranches, FewListed
<1>3. Listed(rest, Trees, 1)
  BY <1>1, FeaturesMade
<1>4. ElementsOf(m) = head \o rest
  BY <1>1, ElementsOfEach
<1>5. Len(head) = 2 /\ head[1] = NodeId(m.node)
  OBVIOUS
<1> HIDE DEF head, rest
<1>6. Listed(head \o rest, Trees, 8) /\ Appended(head \o rest, head, rest)
  BY <1>2, <1>3, BothListed, HeadKept
<1>7. ElementsOf(m)[1] = NodeId(m.node)
  BY <1>4, <1>5, <1>6 DEF Appended
<1> QED
  BY <1>1, <1>4, <1>6, <1>7, TypesApart DEF Shaped

\* So does its response.
LEMMA SetupResponseShaped ==
  ASSUME NEW m \in [type : {AssociationSetupResponse}, seid : {0}, node : NodeIds, cause : {1, 72}, time : Numbers,
                    features : Maybe(1)]
  PROVE  Shaped(m)
<1>1. /\ m.type = AssociationSetupResponse /\ m.time \in Numbers /\ m.node \in NodeIds /\ m.features \in Maybe(1)
      /\ m.cause \in {1, 72}
  OBVIOUS
<1> DEFINE head == <<NodeId(m.node), Cause(m.cause), RecoveryTimeStamp(m.time)>>
           rest == OneElement(m.features, Leaf(43, Word(m.features, 2)))
<1>2. Listed(head, Trees, 3)
  BY <1>1, NodeIdMade, TimeMade, CauseMade, LeavesInBranches, FewListed
<1>3. Listed(rest, Trees, 1)
  BY <1>1, FeaturesMade
<1>4. ElementsOf(m) = head \o rest
  BY <1>1, ElementsOfEach
<1>5. Len(head) = 3 /\ head[1] = NodeId(m.node)
  OBVIOUS
<1> HIDE DEF head, rest
<1>6. Listed(head \o rest, Trees, 8) /\ Appended(head \o rest, head, rest)
  BY <1>2, <1>3, BothListed, HeadKept
<1>7. ElementsOf(m)[1] = NodeId(m.node)
  BY <1>4, <1>5, <1>6 DEF Appended
<1> QED
  BY <1>1, <1>4, <1>6, <1>7, TypesApart DEF Shaped

\* A response that names the session has its F-SEID third.
LEMMA EstablishmentResponseShaped ==
  ASSUME NEW m \in [type : {SessionEstablishmentResponse}, seid : Numbers, node : NodeIds, cause : {1, 72},
                    fseid : FSeids \cup {Missing}]
  PROVE  Shaped(m)
<1>1. /\ m.type = SessionEstablishmentResponse /\ m.seid \in Numbers /\ m.node \in NodeIds /\ m.cause \in {1, 72}
      /\ m.fseid \in FSeids \cup {Missing}
  OBVIOUS
<1>2. m.seid \in Small /\ FSeids \subseteq FSeidArguments
  BY <1>1, NumbersSmall DEF FSeids, FSeidArguments
<1> DEFINE head == <<NodeId(m.node), Cause(m.cause)>>
           rest == OneElement(m.fseid, FSeid(m.fseid))
<1>3. Listed(head, Trees, 2)
  BY <1>1, NodeIdMade, CauseMade, LeavesInBranches, FewListed
<1>4. Listed(rest, Trees, 1)
  <2>1. m.fseid # Missing => FSeid(m.fseid) \in Trees
    BY <1>1, <1>2, FSeidMade, LeavesInBranches
  <2> QED
    BY <2>1, OneListed
<1>5. ElementsOf(m) = head \o rest
  BY <1>1, ElementsOfEach
<1>6. Len(head) = 2 /\ head[1] = NodeId(m.node)
  OBVIOUS
<1>7. m.fseid # Missing => Len(rest) > 0 /\ rest[1] = FSeid(m.fseid)
  BY DEF OneElement, Given
<1> HIDE DEF head, rest
<1>8. Listed(head \o rest, Trees, 8) /\ Appended(head \o rest, head, rest)
  BY <1>3, <1>4, BothListed, HeadKept
<1>9. ElementsOf(m)[1] = NodeId(m.node)
  BY <1>5, <1>6, <1>8 DEF Appended
<1>10. m.fseid # Missing => m.fseid \in FSeidArguments /\ ElementsOf(m)[3] = FSeid(m.fseid)
  <2>1. Len(head) + 1 = 3
    BY <1>6
  <2> QED
    BY <1>1, <1>2, <1>5, <1>7, <1>8, <2>1 DEF Appended
<1> QED
  BY <1>1, <1>2, <1>5, <1>8, <1>9, <1>10, TypesApart, ZenonT(60) DEF Shaped

\* A deletion has no element and its response a cause.
LEMMA DeletionShaped ==
  /\ \A m \in [type : {SessionDeletionRequest}, seid : Numbers] : Shaped(m)
  /\ \A m \in [type : {SessionDeletionResponse}, seid : Numbers, cause : {1}] : Shaped(m)
<1>1. ASSUME NEW m \in [type : {SessionDeletionRequest}, seid : Numbers]
      PROVE  Shaped(m)
  <2>1. m.type = SessionDeletionRequest /\ m.seid \in Small /\ "node" \notin DOMAIN m
    BY NumbersSmall
  <2>2. Listed(ElementsOf(m), Trees, 8)
    BY <2>1, ElementsOfEach, NoneListed, ZenonT(60)
  <2> QED
    BY <2>1, <2>2, TypesApart DEF Shaped
<1>2. ASSUME NEW m \in [type : {SessionDeletionResponse}, seid : Numbers, cause : {1}]
      PROVE  Shaped(m)
  <2>1. m.type = SessionDeletionResponse /\ m.seid \in Small /\ "node" \notin DOMAIN m /\ m.cause = 1
    BY NumbersSmall
  <2>2. Listed(<<Cause(m.cause)>>, Trees, 1)
    BY <2>1, CauseMade, FewListed
  <2>3. Listed(ElementsOf(m), Trees, 8)
    BY <2>1, <2>2, ElementsOfEach, OneIsFew
  <2> QED
    BY <2>1, <2>3, TypesApart DEF Shaped
<1> QED
  BY <1>1, <1>2

\* Whatever PFCP message is sent, its elements are packed trees in their places.
LEMMA MessagesShaped ==
  ASSUME NEW m \in PfcpMessages
  PROVE  Shaped(m)
<1>1. ASSUME NEW P, NEW R, NEW Q, NEW D, m \in OneRule(P, R, Q, D), D \subseteq Maybe(1),
             \A l \in P : Listed(l, PdrArguments, 1), \A l \in R : Listed(l, FarArguments, 1),
             \A l \in Q : Listed(l, QerArguments, 1)
      PROVE  Shaped(m)
  BY <1>1, OneRuleShape, EstablishmentShaped
<1>2. /\ \A l \in {<<p>> : p \in Pdrs} : Listed(l, PdrArguments, 1)
      /\ \A l \in {<<f>> : f \in Fars} : Listed(l, FarArguments, 1)
      /\ \A l \in {<<q>> : q \in Qers} : Listed(l, QerArguments, 1)
  BY PdrsWiden, ArgumentsWiden, FewListed
<1>3. \A S : \A l \in {<<>>} : Listed(l, S, 1)
  BY NoneListed
<1>4. {Missing} \subseteq Maybe(1) /\ Maybe(1) \subseteq Maybe(1)
  BY DEF Maybe
<1>5. CASE m \in OneRule({<<p>> : p \in Pdrs}, {<<>>}, {<<>>}, {Missing})
  BY <1>1, <1>2, <1>3, <1>4, <1>5
<1>6. CASE m \in OneRule({<<>>}, {<<f>> : f \in Fars}, {<<>>}, Maybe(1))
  BY <1>1, <1>2, <1>3, <1>4, <1>6
<1>7. CASE m \in OneRule({<<>>}, {<<>>}, {<<q>> : q \in Qers}, {Missing})
  BY <1>1, <1>2, <1>3, <1>4, <1>7
<1>8. CASE m \in {NodeRequest(s, V4, t) : s \in Numbers, t \in Numbers}
  BY <1>8, NodeRequestShape, EstablishmentShaped
<1> QED
  BY <1>5, <1>6, <1>7, <1>8, HeartbeatShaped, SetupRequestShaped, SetupResponseShaped,
     EstablishmentResponseShaped, DeletionShaped DEF PfcpMessages

-----------------------------------------------------------------------------
(* What stands where in the octets.                                         *)

\* t stands in d after its first o octets.
Holds(d, o, t) ==
  /\ o + Len(t) <= Len(d) /\ Len(t) \in Nat /\ Len(d) \in Nat
  /\ \A k \in 1 .. Len(t) : d[o + k] = t[k]

\* Of two runs joined each stands in its place.
LEMMA HoldsParts ==
  ASSUME NEW s \in Bytes, NEW t \in Bytes
  PROVE  s \o t \in Bytes /\ Len(s \o t) = Len(s) + Len(t) /\ Holds(s \o t, 0, s) /\ Holds(s \o t, Len(s), t)
<1> DEFINE j == s \o t
<1>1. Joins(j, s, t)
  BY JoinedBytes
<1> HIDE DEF j
<1>2. j \in Bytes /\ Len(j) = Len(s) + Len(t) /\ Holds(j, 0, s) /\ Holds(j, Len(s), t)
  BY <1>1 DEF Joins, Holds
<1> QED
  BY <1>2 DEF j

\* And stays there when more follows.
LEMMA HoldsStill ==
  ASSUME NEW s \in Bytes, NEW u \in Bytes, NEW o \in Nat, NEW t, Holds(s, o, t)
  PROVE  Holds(s \o u, o, t)
<1> DEFINE j == s \o u
<1>1. Joins(j, s, u)
  BY JoinedBytes
<1> HIDE DEF j
<1>2. Holds(j, o, t)
  <2>1. ASSUME NEW k \in 1 .. Len(t) PROVE j[o + k] = t[k]
    <3>1. o + k \in 1 .. Len(s) /\ s[o + k] = t[k]
      BY DEF Holds
    <3> QED
      BY <1>1, <3>1 DEF Joins
  <2>2. o + Len(t) <= Len(j) /\ Len(t) \in Nat /\ Len(j) \in Nat
    BY <1>1 DEF Joins, Holds
  <2> QED
    BY <2>1, <2>2 DEF Holds
<1> QED
  BY <1>2 DEF j

\* What stands in the octets is what a slice takes.
LEMMA HeldTaken ==
  ASSUME NEW d \in Bytes, NEW o \in Nat, NEW t \in Bytes, Holds(d, o, t)
  PROVE  SubSeq(d, o + 1, o + Len(t)) = t
<1>1. d \in Seq(Octet) /\ t \in Seq(Octet) /\ Len(d) \in Nat /\ Len(t) \in Nat /\ o + Len(t) <= Len(d)
  BY DEF Bytes, Holds
<1>2. Len(SubSeq(d, o + 1, o + Len(t))) = Len(t)
  BY <1>1
<1>3. ASSUME NEW k \in 1 .. Len(t) PROVE SubSeq(d, o + 1, o + Len(t))[k] = t[k]
  <2>1. d[o + k] = t[k]
    BY DEF Holds
  <2>2. SubSeq(d, o + 1, o + Len(t))[k] = d[o + 1 + k - 1] /\ o + 1 + k - 1 = o + k
    BY <1>1
  <2> QED
    BY <2>1, <2>2
<1>4. SubSeq(d, o + 1, o + Len(t)) \in Seq(Octet)
  <2>1. \A i \in 1 .. Len(d) : d[i] \in Octet
    BY <1>1, ElementOfSeq
  <2> QED
    BY <1>1, <2>1
<1> QED
  BY <1>1, <1>2, <1>3, <1>4, SeqEqual

\* struct.unpack reads the 16 bits that were packed.
LEMMA ShortRead ==
  ASSUME NEW d, NEW o \in Nat, NEW at, at = o + 1, NEW n \in Nat, n <= 65535, Holds(d, o, Word(n, 2))
  PROVE  ShortAt(d, at) = n
<1>1. Len(Word(n, 2)) = 2 /\ Word(n, 2)[1] * 256 + Word(n, 2)[2] = n
  BY TwoOctets
<1>2. d[o + 1] = Word(n, 2)[1] /\ d[o + 2] = Word(n, 2)[2]
  BY <1>1 DEF Holds
<1>3. (o + 1) + 1 = o + 2
  OBVIOUS
<1> QED
  BY <1>1, <1>2, <1>3 DEF ShortAt

\* struct.unpack reads the 32 bits that were packed.
LEMMA LongRead ==
  ASSUME NEW d, NEW o \in Nat, NEW at, at = o + 1, NEW n \in Nat, n <= Largest, Holds(d, o, Word(n, 4))
  PROVE  LongAt(d, at) = n
<1> DEFINE w == Word(n, 4)
<1>1. Len(w) = 4 /\ (w[1] * 256 + w[2]) * 65536 + (w[3] * 256 + w[4]) = n
  BY FourOctets
<1>2. d[o + 1] = w[1] /\ d[o + 2] = w[2] /\ d[o + 3] = w[3] /\ d[o + 4] = w[4]
  <2>1. 1 \in 1 .. Len(w) /\ 2 \in 1 .. Len(w) /\ 3 \in 1 .. Len(w) /\ 4 \in 1 .. Len(w)
    BY <1>1
  <2> HIDE DEF w
  <2>2. Holds(d, o, w)
    BY DEF w
  <2> QED
    BY <2>1, <2>2 DEF Holds
<1> HIDE DEF w
<1>3. (o + 1) + 1 = o + 2 /\ (o + 1) + 2 = o + 3 /\ ((o + 1) + 2) + 1 = o + 4
  OBVIOUS
<1>4. LongAt(d, o + 1) = (d[o + 1] * 256 + d[o + 2]) * 65536 + (d[o + 3] * 256 + d[o + 4])
  BY <1>3 DEF LongAt, ShortAt
<1> QED
  BY <1>1, <1>2, <1>4

\* Of eight octets the last four are the number.
LEMMA EightRead ==
  ASSUME NEW d, NEW o \in Nat, NEW at, at = o + 5, NEW n \in Nat, n <= Largest, Holds(d, o, Word(n, 8))
  PROVE  LongAt(d, at) = n
<1> DEFINE w == Word(n, 4)
           l == Word(n, 8)
<1>1. Len(w) = 4 /\ Len(l) = 8 /\ \A i \in 1 .. 4 : l[4 + i] = w[i]
  BY FourOctets, EightOctets
<1> HIDE DEF w, l
<1>2. Holds(d, o + 4, w)
  <2>1. Holds(d, o, l)
    BY DEF l
  <2>2. ASSUME NEW k \in 1 .. 4 PROVE d[o + 4 + k] = w[k]
    <3>1. 4 + k \in 1 .. Len(l) /\ o + 4 + k = o + (4 + k)
      BY <1>1
    <3> QED
      BY <1>1, <2>1, <3>1 DEF Holds
  <2> QED
    BY <1>1, <2>1, <2>2 DEF Holds
<1>3. o + 4 \in Nat /\ at = (o + 4) + 1
  OBVIOUS
<1> QED
  BY <1>2, <1>3, LongRead DEF w

\* Five pieces one after another.
InTurn(j, a, b, c, d, e) ==
  /\ j \in Bytes /\ Len(j) = Len(a) + Len(b) + Len(c) + Len(d) + Len(e)
  /\ Len(a) \in Nat /\ Len(b) \in Nat /\ Len(c) \in Nat /\ Len(d) \in Nat /\ Len(e) \in Nat
  /\ Holds(j, 0, a) /\ Holds(j, Len(a), b) /\ Holds(j, Len(a) + Len(b), c)
  /\ Holds(j, Len(a) + Len(b) + Len(c), d) /\ Holds(j, Len(a) + Len(b) + Len(c) + Len(d), e)

\* Five runs joined stand one after the other.
LEMMA FivePieces ==
  ASSUME NEW a \in Bytes, NEW b \in Bytes, NEW c \in Bytes, NEW d \in Bytes, NEW e \in Bytes
  PROVE  InTurn(a \o b \o c \o d \o e, a, b, c, d, e)
<1>0. Len(a) \in Nat /\ Len(b) \in Nat /\ Len(c) \in Nat /\ Len(d) \in Nat /\ Len(e) \in Nat
  BY DEF Bytes
<1>1. PICK j1 : j1 = a \o b
  OBVIOUS
<1>2. j1 \in Bytes /\ Len(j1) = Len(a) + Len(b) /\ Holds(j1, 0, a) /\ Holds(j1, Len(a), b)
  BY <1>1, HoldsParts
<1>3. PICK j2 : j2 = j1 \o c
  OBVIOUS
<1>4. j2 \in Bytes /\ Len(j2) = Len(j1) + Len(c) /\ Holds(j2, Len(j1), c) /\ Holds(j2, 0, a) /\ Holds(j2, Len(a), b)
  BY <1>0, <1>2, <1>3, HoldsParts, HoldsStill
<1>5. PICK j3 : j3 = j2 \o d
  OBVIOUS
<1>6. /\ j3 \in Bytes /\ Len(j3) = Len(j2) + Len(d) /\ Holds(j3, Len(j2), d) /\ Holds(j3, Len(j1), c)
      /\ Holds(j3, 0, a) /\ Holds(j3, Len(a), b)
  <2>1. Len(j1) \in Nat
    BY <1>0, <1>2
  <2> QED
    BY <1>0, <1>4, <1>5, <2>1, HoldsParts, HoldsStill
<1>7. PICK j4 : j4 = j3 \o e
  OBVIOUS
<1>8. /\ j4 \in Bytes /\ Len(j4) = Len(j3) + Len(e) /\ Holds(j4, Len(j3), e) /\ Holds(j4, Len(j2), d)
      /\ Holds(j4, Len(j1), c) /\ Holds(j4, 0, a) /\ Holds(j4, Len(a), b)
  <2>1. Len(j1) \in Nat /\ Len(j2) \in Nat
    BY <1>0, <1>2, <1>4
  <2> QED
    BY <1>0, <1>6, <1>7, <2>1, HoldsParts, HoldsStill
<1>9. Len(j1) = Len(a) + Len(b) /\ Len(j2) = Len(a) + Len(b) + Len(c) /\ Len(j3) = Len(a) + Len(b) + Len(c) + Len(d)
      /\ Len(j4) = Len(a) + Len(b) + Len(c) + Len(d) + Len(e)
  BY <1>0, <1>2, <1>4, <1>6, <1>8
<1>10. j4 = a \o b \o c \o d \o e
  BY <1>1, <1>3, <1>5, <1>7
<1> QED
  BY <1>0, <1>8, <1>9, <1>10 DEF InTurn

\* The flags say which addresses are there.
LEMMA FSeidReadBack ==
  ASSUME NEW s \in FSeidArguments
  PROVE  DecodeFSeid(FSeid(s).value) = s
<1> DEFINE flags == Flag(s.v4, 2) + Flag(s.v6, 1)
           a == <<flags>>   b == Word(s.seid, 8)   c == Given(s.v4, s.v4)   d == Given(s.v6, s.v6)
           v == a \o b \o c \o d \o <<>>
<1>1. /\ s.seid \in Small /\ s.v4 \in Maybe(V4) /\ s.v6 \in Maybe(V6)
      /\ s = [seid |-> s.seid, v4 |-> s.v4, v6 |-> s.v6]
  BY DEF FSeidArguments
<1>2. s.seid \in Nat /\ s.seid <= Largest
  BY <1>1 DEF Small
<1>3. flags = (IF s.v4 = Missing THEN 0 ELSE 2) + (IF s.v6 = Missing THEN 0 ELSE 1)
  BY DEF Flag
<1>4. a \in Bytes /\ Len(a) = 1 /\ a[1] = flags
  <2>1. flags \in Nat /\ flags <= 255
    BY <1>3
  <2>2. Listed(a, Octet, 1)
    BY <2>1, OneOctet
  <2> QED
    BY <2>2 DEF Listed, Bytes
<1>5. b \in Bytes /\ Len(b) = 8
  BY <1>2, EightOctets
<1>6. c \in Bytes /\ (s.v4 # Missing => c = s.v4 /\ Len(c) = 4) /\ (s.v4 = Missing => Len(c) = 0)
  BY <1>1, AddressesListed DEF Given, Maybe, Bytes
<1>7. d \in Bytes /\ (s.v6 # Missing => d = s.v6 /\ Len(d) = 16) /\ (s.v6 = Missing => Len(d) = 0)
  BY <1>1, AddressesListed DEF Given, Maybe, Bytes
<1>8. <<>> \in Bytes
  BY DEF Bytes
<1>9. FSeid(s).value = v
  <2>1. FSeid(s).value = a \o b \o c \o d
    BY DEF FSeid, Leaf
  <2>2. a \o b \o c \o d \in Bytes
    BY <1>4, <1>5, <1>6, <1>7, JoinedBytes DEF Joins
  <2> HIDE DEF a, b, c, d
  <2>3. (a \o b \o c \o d) \o <<>> = a \o b \o c \o d
    BY ONLY <2>2, Joined
  <2> QED
    BY <2>1, <2>3
<1> HIDE DEF a, b, c, d, flags
<1>10. /\ v \in Bytes /\ Holds(v, 0, a) /\ Holds(v, 1, b) /\ Holds(v, 9, c) /\ Holds(v, 9 + Len(c), d)
  <2>1. Len(c) \in Nat
    BY <1>6
  <2>2. /\ v \in Bytes /\ Holds(v, 0, a) /\ Holds(v, Len(a), b) /\ Holds(v, Len(a) + Len(b), c)
        /\ Holds(v, Len(a) + Len(b) + Len(c), d)
    <3>1. a \in Bytes /\ b \in Bytes /\ c \in Bytes /\ d \in Bytes
      BY <1>4, <1>5, <1>6, <1>7
    <3>2. InTurn(v, a, b, c, d, <<>>)
      BY ONLY <1>8, <3>1, FivePieces
    <3> HIDE DEF v
    <3> QED
      BY <3>2 DEF InTurn
  <2>3. Len(a) = 1 /\ Len(a) + Len(b) = 9 /\ Len(a) + Len(b) + Len(c) = 9 + Len(c)
    BY <1>4, <1>5
  <2> QED
    BY <2>2, <2>3
<1> HIDE DEF v
<1>11. v[1] = flags
  <2>1. v[0 + 1] = a[1]
    BY <1>4, <1>10 DEF Holds
  <2> QED
    BY <1>4, <2>1
<1>12. LongAt(v, 6) = s.seid
  <2>1. 1 \in Nat /\ 6 = 1 + 5 /\ Holds(v, 1, Word(s.seid, 8))
    BY <1>10 DEF b
  <2> QED
    BY ONLY <1>2, <2>1, EightRead
<1>13. /\ (v[1] \div 2) % 2 = (IF s.v4 = Missing THEN 0 ELSE 1)
       /\ v[1] % 2 = (IF s.v6 = Missing THEN 0 ELSE 1)
  BY <1>3, <1>11
<1>14. s.v4 # Missing => SubSeq(v, 10, 13) = s.v4
  <2>1. s.v4 # Missing => SubSeq(v, 9 + 1, 9 + Len(c)) = c
    BY <1>6, <1>10, HeldTaken
  <2> QED
    BY <1>6, <2>1
<1>15. s.v6 # Missing => LET o == IF s.v4 # Missing THEN 14 ELSE 10 IN SubSeq(v, o, o + 15) = s.v6
  <2>0. Len(c) \in Nat
    BY <1>6
  <2>1. SubSeq(v, (9 + Len(c)) + 1, (9 + Len(c)) + Len(d)) = d
    <3>1. PICK o \in Nat : o = 9 + Len(c)
      BY <2>0
    <3>2. SubSeq(v, o + 1, o + Len(d)) = d
      BY <1>7, <1>10, <3>1, HeldTaken
    <3> QED
      BY <3>1, <3>2
  <2>2. ASSUME s.v6 # Missing
        PROVE  LET o == IF s.v4 # Missing THEN 14 ELSE 10 IN (9 + Len(c)) + 1 = o /\ (9 + Len(c)) + Len(d) = o + 15
    <3>1. Len(d) = 16
      BY <1>7, <2>2
    <3>2. CASE s.v4 # Missing
      <4>1. Len(c) = 4
        BY <1>6, <3>2
      <4> QED
        BY <3>1, <3>2, <4>1
    <3>3. CASE s.v4 = Missing
      <4>1. Len(c) = 0
        BY <1>6, <3>3
      <4> QED
        BY <3>1, <3>3, <4>1
    <3> QED
      BY <3>2, <3>3
  <2> QED
    BY <1>7, <2>1, <2>2
<1>16. DecodeFSeid(v) = [seid |-> s.seid, v4 |-> s.v4, v6 |-> s.v6]
  <2>1. (v[1] \div 2) % 2 = 1 <=> s.v4 # Missing
    BY <1>13
  <2>2. v[1] % 2 = 1 <=> s.v6 # Missing
    BY <1>13
  <2> QED
    BY <1>12, <1>14, <1>15, <2>1, <2>2 DEF DecodeFSeid
<1> QED
  BY <1>1, <1>9, <1>16

-----------------------------------------------------------------------------
(* The fields and the header are read back.                                 *)

\* An F-TEID is read back, with either address, both or CHOOSE (pfcp.py:400-443).
LEMMA FTeidReadBack ==
  ASSUME NEW f \in FTeids
  PROVE  DecodeFTeid(FTeid(f).value) = f
<1> DEFINE flags == Flag(f.choose, 4) + Flag(f.v4, 2) + Flag(f.v6, 1)
           a == <<flags>>   b == Word(f.teid, 4)   c == Given(f.v4, f.v4)   d == Given(f.v6, f.v6)
           e == Given(f.choose, <<f.choose>>)
           v == a \o b \o c \o d \o e
           o == IF f.v4 # Missing THEN 10 ELSE 6
           p == IF f.v6 # Missing THEN o + 16 ELSE o
<1>1. /\ f.teid \in Small /\ f.v4 \in Maybe(V4) /\ f.v6 \in Maybe(V6) /\ f.choose \in Maybe(7)
      /\ f = [teid |-> f.teid, v4 |-> f.v4, v6 |-> f.v6, choose |-> f.choose]
  BY NumbersSmall DEF FTeids
<1>2. f.teid \in Nat /\ f.teid <= Largest
  BY <1>1 DEF Small
<1>3. flags = (IF f.choose = Missing THEN 0 ELSE 4) + (IF f.v4 = Missing THEN 0 ELSE 2) + (IF f.v6 = Missing THEN 0 ELSE 1)
  BY DEF Flag
<1>4. a \in Bytes /\ Len(a) = 1 /\ a[1] = flags
  <2>1. flags \in Nat /\ flags <= 255
    BY <1>3
  <2>2. Listed(a, Octet, 1)
    BY <2>1, OneOctet
  <2> QED
    BY <2>2 DEF Listed, Bytes
<1>5. b \in Bytes /\ Len(b) = 4
  BY <1>2, FourOctets
<1>6. c \in Bytes /\ (f.v4 # Missing => c = f.v4 /\ Len(c) = 4) /\ (f.v4 = Missing => Len(c) = 0)
  BY <1>1, AddressesListed DEF Given, Maybe, Bytes
<1>7. d \in Bytes /\ (f.v6 # Missing => d = f.v6 /\ Len(d) = 16) /\ (f.v6 = Missing => Len(d) = 0)
  BY <1>1, AddressesListed DEF Given, Maybe, Bytes
<1>8. e \in Bytes /\ (f.choose # Missing => Len(e) = 1 /\ e[1] = f.choose)
  <2>1. CASE f.choose = Missing
    BY <2>1 DEF Given, Bytes
  <2>2. CASE f.choose # Missing
    <3>1. e = <<7>> /\ f.choose = 7
      BY <1>1, <2>2 DEF Given, Maybe
    <3>2. Listed(<<7>>, Octet, 1) /\ Len(<<7>>) = 1 /\ <<7>>[1] = 7
      BY OneOctet
    <3> HIDE DEF e
    <3>3. e \in Bytes
      BY <3>1, <3>2 DEF Listed, Bytes
    <3>4. Len(e) = 1 /\ e[1] = f.choose
      BY <3>1, <3>2
    <3> QED
      BY <3>3, <3>4
  <2> QED
    BY <2>1, <2>2
<1>9. FTeid(f).value = v
  BY DEF FTeid, Leaf
<1> HIDE DEF a, b, c, d, e, flags
<1>10. /\ v \in Bytes /\ Holds(v, 0, a) /\ Holds(v, 1, b) /\ Holds(v, 5, c) /\ Holds(v, 5 + Len(c), d)
       /\ Holds(v, 5 + Len(c) + Len(d), e) /\ Len(c) \in Nat /\ Len(d) \in Nat
  <2>1. a \in Bytes /\ b \in Bytes /\ c \in Bytes /\ d \in Bytes /\ e \in Bytes
    BY <1>4, <1>5, <1>6, <1>7, <1>8
  <2>2. InTurn(v, a, b, c, d, e)
    BY ONLY <2>1, FivePieces
  <2> HIDE DEF v
  <2>3. /\ v \in Bytes /\ Holds(v, 0, a) /\ Holds(v, Len(a), b) /\ Holds(v, Len(a) + Len(b), c)
        /\ Holds(v, Len(a) + Len(b) + Len(c), d) /\ Holds(v, Len(a) + Len(b) + Len(c) + Len(d), e)
        /\ Len(c) \in Nat /\ Len(d) \in Nat
    BY <2>2 DEF InTurn
  <2>4. Len(a) = 1 /\ Len(a) + Len(b) = 5
    BY <1>4, <1>5
  <2> QED
    BY <2>3, <2>4
<1> HIDE DEF v
<1>11. v[1] = flags
  <2>1. v[0 + 1] = a[1]
    BY <1>4, <1>10 DEF Holds
  <2> QED
    BY <1>4, <2>1
<1>12. LongAt(v, 2) = f.teid
  <2>1. 1 \in Nat /\ 2 = 1 + 1 /\ Holds(v, 1, Word(f.teid, 4))
    BY <1>10 DEF b
  <2> QED
    BY ONLY <1>2, <2>1, LongRead
<1>13. /\ (v[1] \div 2) % 2 = 1 <=> f.v4 # Missing
       /\ v[1] % 2 = 1 <=> f.v6 # Missing
       /\ (v[1] \div 4) % 2 = 1 <=> f.choose # Missing
  BY <1>3, <1>11
<1>14. f.v4 # Missing => SubSeq(v, 6, 9) = f.v4
  <2>1. f.v4 # Missing => SubSeq(v, 5 + 1, 5 + Len(c)) = c
    BY <1>6, <1>10, HeldTaken
  <2> QED
    BY <1>6, <2>1
<1>15. 5 + Len(c) + 1 = o /\ o \in Nat /\ 5 + Len(c) = o - 1 /\ o - 1 \in Nat
  <2>1. CASE f.v4 # Missing
    <3>1. Len(c) = 4
      BY <1>6, <2>1
    <3> QED
      BY <2>1, <3>1
  <2>2. CASE f.v4 = Missing
    <3>1. Len(c) = 0
      BY <1>6, <2>2
    <3> QED
      BY <2>2, <3>1
  <2> QED
    BY <2>1, <2>2
<1>16. (5 + Len(c) + Len(d)) + 1 = p /\ p \in Nat /\ 5 + Len(c) + Len(d) = p - 1 /\ p - 1 \in Nat
  <2>1. CASE f.v6 # Missing
    <3>1. Len(d) = 16 /\ p = o + 16
      BY <1>7, <2>1
    <3> HIDE DEF o, p
    <3> QED
      BY <1>10, <1>15, <3>1
  <2>2. CASE f.v6 = Missing
    <3>1. Len(d) = 0 /\ p = o
      BY <1>7, <2>2
    <3> HIDE DEF o, p
    <3> QED
      BY <1>10, <1>15, <3>1
  <2> QED
    BY <2>1, <2>2
<1> HIDE DEF o, p
<1>17. f.v6 # Missing => SubSeq(v, o, o + 15) = f.v6
  <2>1. SubSeq(v, (o - 1) + 1, (o - 1) + Len(d)) = d
    BY <1>7, <1>10, <1>15, HeldTaken
  <2>2. f.v6 # Missing => (o - 1) + 1 = o /\ (o - 1) + Len(d) = o + 15
    <3> SUFFICES ASSUME f.v6 # Missing PROVE (o - 1) + 1 = o /\ (o - 1) + Len(d) = o + 15
      OBVIOUS
    <3>1. Len(d) = 16
      BY <1>7
    <3> QED
      BY <1>15, <3>1
  <2> QED
    BY <1>7, <2>1, <2>2
<1>18. f.choose # Missing => v[p] = f.choose
  <2> SUFFICES ASSUME f.choose # Missing PROVE v[p] = f.choose
    OBVIOUS
  <2>1. Len(e) = 1 /\ e[1] = f.choose
    BY <1>8
  <2>2. v[(p - 1) + 1] = e[1]
    BY <1>10, <1>16, <2>1 DEF Holds
  <2>3. (p - 1) + 1 = p
    BY <1>16
  <2> QED
    BY <2>1, <2>2, <2>3
<1>19. DecodeFTeid(v) = [teid |-> f.teid, v4 |-> f.v4, v6 |-> f.v6, choose |-> f.choose]
  BY <1>12, <1>13, <1>14, <1>17, <1>18 DEF DecodeFTeid, o, p
<1> QED
  BY <1>1, <1>9, <1>19

\* A node id is read back, whichever of the three kinds it is (pfcp.py:315-344).
LEMMA NodeIdReadBack ==
  ASSUME NEW n \in NodeIds
  PROVE  DecodeNodeId(NodeId(n).value) = n
<1>1. ASSUME NEW id \in Bytes, NEW kind \in {0, 1, 2}
      PROVE  LET v == <<kind>> \o id IN
             /\ v[1] = kind /\ SubSeq(v, 2, 1 + Len(id)) = id /\ Len(v) = 1 + Len(id)
  <2> DEFINE v == <<kind>> \o id
  <2>1. Listed(<<kind>>, Octet, 1)
    BY OneOctet
  <2>2. <<kind>> \in Bytes /\ Len(<<kind>>) = 1 /\ <<kind>>[1] = kind
    BY <2>1 DEF Listed, Bytes
  <2>3. v \in Bytes /\ Len(v) = Len(<<kind>>) + Len(id) /\ Holds(v, 0, <<kind>>) /\ Holds(v, Len(<<kind>>), id)
    BY <2>2, HoldsParts
  <2> HIDE DEF v
  <2>4. v[0 + 1] = kind
    BY <2>2, <2>3 DEF Holds
  <2>5. SubSeq(v, 1 + 1, 1 + Len(id)) = id
    BY <2>2, <2>3, HeldTaken
  <2> QED
    BY <2>2, <2>3, <2>4, <2>5 DEF v
<1>2. PICK v, id, kind : v = NodeId(n).value /\ id = n.id /\ kind = n.kind
  OBVIOUS
<1>3. v = <<kind>> \o id
  BY <1>2 DEF NodeId, Leaf
<1>4. /\ kind \in {0, 1, 2} /\ n = [kind |-> kind, id |-> id]
      /\ (kind = 0 => id = V4) /\ (kind = 1 => id = V6) /\ (kind = 2 => id = <<117, 112>>)
  BY <1>2 DEF NodeIds
<1>5. id \in Bytes /\ (kind = 0 => Len(id) = 4) /\ (kind = 1 => Len(id) = 16) /\ Len(id) \in Nat
  <2>1. Listed(<<117, 112>>, Octet, 2)
    BY OctetMade, FewListed
  <2>2. <<117, 112>> \in Bytes
    BY <2>1 DEF Listed, Bytes
  <2>3. id \in Bytes
    BY <1>4, <2>2, AddressesListed
  <2>4. Len(id) \in Nat
    BY <2>3 DEF Bytes
  <2> QED
    BY <1>4, <2>3, <2>4, AddressesListed
<1>6. v[1] = kind /\ SubSeq(v, 2, 1 + Len(id)) = id /\ Len(v) = 1 + Len(id)
  BY <1>1, <1>3, <1>4, <1>5
<1>7. ASSUME kind = 0 PROVE DecodeNodeId(v) = [kind |-> kind, id |-> id]
  <2>1. v[1] = 0 /\ SubSeq(v, 2, 5) = id
    BY <1>5, <1>6, <1>7
  <2> QED
    BY ONLY <1>7, <2>1 DEF DecodeNodeId
<1>8. ASSUME kind = 1 PROVE DecodeNodeId(v) = [kind |-> kind, id |-> id]
  <2>1. v[1] = 1 /\ SubSeq(v, 2, 17) = id
    BY <1>5, <1>6, <1>8
  <2> QED
    BY ONLY <1>8, <2>1 DEF DecodeNodeId
<1>9. ASSUME kind = 2 PROVE DecodeNodeId(v) = [kind |-> kind, id |-> id]
  <2>1. v[1] = 2 /\ SubSeq(v, 2, Len(v)) = id /\ v[1] # 0 /\ v[1] # 1
    BY <1>5, <1>6, <1>9
  <2> QED
    BY ONLY <1>9, <2>1, Zenon DEF DecodeNodeId
<1>10. DecodeNodeId(v) = n
  BY <1>4, <1>7, <1>8, <1>9
<1> QED
  BY <1>2, <1>10

\* What a reader finds in a message that starts with this header.
HeaderFound(d, type, length, seid, number, content) ==
  /\ d \in Bytes /\ Len(d) = HeaderSize(type) + Len(content)
  /\ SubSeq(d, HeaderSize(type) + 1, Len(d)) = content
  /\ d[1] = (IF type \in OfSessions THEN 33 ELSE 32) /\ d[2] = type /\ ShortAt(d, 3) = length
  /\ type \in OfSessions => LongAt(d, 9) = seid /\ LongAt(d, 13) = number
  /\ type \notin OfSessions => LongAt(d, 5) = number

\* Every field of the header is found where PfcpHeader put it.
LEMMA HeaderIsFound ==
  ASSUME NEW type \in Nat, type <= 255, NEW length \in Nat, length <= 65535,
         NEW seid, type \in OfSessions => seid \in Small, NEW number \in Nat, number <= Largest,
         NEW content \in Bytes
  PROVE  HeaderFound(PfcpHeader(type, length, seid, number) \o content, type, length, seid, number, content)
<1> DEFINE first == 32 + (IF type \in OfSessions THEN 1 ELSE 0)
           a == <<first, type>>
           b == Word(length, 2)
           c == IF type \in OfSessions THEN Word(seid, 8) ELSE <<>>
           e == Word(number, 4)
           spare == <<0, 0>>
           h == a \o b \o c \o e \o spare
           d == h \o content
<1>1. a \in Bytes /\ Len(a) = 2 /\ a[1] = first /\ a[2] = type
  <2>1. first \in Nat /\ first <= 255
    OBVIOUS
  <2>2. first \in Octet /\ type \in Octet
    BY <2>1, OctetMade
  <2> HIDE DEF first
  <2> QED
    BY <2>2 DEF Bytes
<1>2. b \in Bytes /\ Len(b) = 2
  BY TwoOctets
<1>3. c \in Bytes /\ Len(c) = IF type \in OfSessions THEN 8 ELSE 0
  <2>1. CASE type \in OfSessions
    BY <2>1, EightOctets DEF Small
  <2>2. CASE type \notin OfSessions
    BY <2>2 DEF Bytes
  <2> QED
    BY <2>1, <2>2
<1>4. e \in Bytes /\ Len(e) = 4
  BY FourOctets
<1>5. spare \in Bytes /\ Len(spare) = 2
  <2>1. 0 \in Octet
    BY OctetMade
  <2> QED
    BY <2>1 DEF Bytes
<1>6. PfcpHeader(type, length, seid, number) = h
  BY DEF PfcpHeader
<1>7. HeaderSize(type) = 10 + Len(c) /\ Len(c) \in Nat
  BY <1>3 DEF HeaderSize
<1> HIDE DEF a, b, c, e, spare, first
<1>8. InTurn(h, a, b, c, e, spare)
  BY ONLY <1>1, <1>2, <1>3, <1>4, <1>5, FivePieces
<1> HIDE DEF h
<1>9. /\ h \in Bytes /\ Len(h) = 10 + Len(c) /\ Holds(h, 0, a) /\ Holds(h, 2, b) /\ Holds(h, 4, c)
      /\ Holds(h, 4 + Len(c), e)
  <2>1. /\ h \in Bytes /\ Len(h) = Len(a) + Len(b) + Len(c) + Len(e) + Len(spare) /\ Holds(h, 0, a)
        /\ Holds(h, Len(a), b) /\ Holds(h, Len(a) + Len(b), c) /\ Holds(h, Len(a) + Len(b) + Len(c), e)
    BY <1>8 DEF InTurn
  <2>2. Len(a) + Len(b) = 4 /\ Len(a) + Len(b) + Len(c) + Len(e) + Len(spare) = 10 + Len(c)
    BY <1>1, <1>2, <1>4, <1>5, <1>7
  <2> QED
    BY <1>1, <2>1, <2>2
<1>10. /\ d \in Bytes /\ Len(d) = Len(h) + Len(content) /\ Holds(d, Len(h), content) /\ Holds(d, 0, a)
       /\ Holds(d, 2, b) /\ Holds(d, 4, c) /\ Holds(d, 4 + Len(c), e)
  <2>0. h \in Bytes
    BY <1>9
  <2>1. /\ d \in Bytes /\ Len(d) = Len(h) + Len(content) /\ Holds(d, Len(h), content)
    BY ONLY <2>0, HoldsParts, content \in Bytes DEF d
  <2>2. \A o \in Nat : \A t : Holds(h, o, t) => Holds(d, o, t)
    BY ONLY <2>0, HoldsStill, content \in Bytes DEF d
  <2> HIDE DEF d
  <2>3. 0 \in Nat /\ 2 \in Nat /\ 4 \in Nat /\ 4 + Len(c) \in Nat
    BY <1>7
  <2> QED
    BY ONLY <1>9, <2>1, <2>2, <2>3
<1> HIDE DEF d
<1>11. SubSeq(d, HeaderSize(type) + 1, Len(d)) = content
  <2>1. Len(h) \in Nat
    BY <1>7, <1>9
  <2>2. SubSeq(d, Len(h) + 1, Len(h) + Len(content)) = content
    BY <1>10, <2>1, HeldTaken
  <2> QED
    BY <1>7, <1>9, <1>10, <2>2
<1>12. d[1] = first /\ d[2] = type
  <2>1. d[0 + 1] = a[1] /\ d[0 + 2] = a[2]
    BY <1>1, <1>10 DEF Holds
  <2> QED
    BY <1>1, <2>1
<1>13. ShortAt(d, 3) = length
  <2>1. PICK o \in Nat, at \in Nat : o = 2 /\ at = 3
    OBVIOUS
  <2>2. at = o + 1 /\ Holds(d, o, Word(length, 2))
    BY <1>10, <2>1 DEF b
  <2>3. ShortAt(d, at) = length
    BY ONLY <2>2, ShortRead, o \in Nat, length \in Nat, length <= 65535
  <2> QED
    BY ONLY <2>1, <2>3
<1>14. ASSUME type \in OfSessions PROVE LongAt(d, 9) = seid /\ LongAt(d, 13) = number
  <2>1. c = Word(seid, 8) /\ Len(c) = 8 /\ seid \in Nat /\ seid <= Largest
    BY <1>3, <1>14 DEF c, Small
  <2>2. Holds(d, 4, Word(seid, 8)) /\ 4 \in Nat /\ 9 = 4 + 5
    BY <1>10, <2>1
  <2>3. LongAt(d, 9) = seid
    BY ONLY <2>1, <2>2, EightRead
  <2>4. Holds(d, 12, Word(number, 4)) /\ 12 \in Nat /\ 13 = 12 + 1
    <3>0. Len(c) = 8
      BY <2>1
    <3>1. 4 + Len(c) = 12
      BY ONLY <3>0
    <3> QED
      BY <1>10, <3>1 DEF e
  <2>5. LongAt(d, 13) = number
    BY ONLY <2>4, LongRead, number \in Nat, number <= Largest
  <2> QED
    BY <2>3, <2>5
<1>15. ASSUME type \notin OfSessions PROVE LongAt(d, 5) = number
  <2>1. Len(c) = 0
    BY <1>3, <1>15
  <2>2. Holds(d, 4, Word(number, 4)) /\ 4 \in Nat /\ 5 = 4 + 1
    <3>1. 4 + Len(c) = 4
      BY <2>1
    <3> QED
      BY <1>10, <3>1 DEF e
  <2> QED
    BY ONLY <2>2, LongRead, number \in Nat, number <= Largest
<1>16. Len(d) = HeaderSize(type) + Len(content)
  BY <1>7, <1>9, <1>10
<1>17. first = (IF type \in OfSessions THEN 33 ELSE 32)
  BY DEF first
<1>18. d \in Bytes /\ d[1] = (IF type \in OfSessions THEN 33 ELSE 32) /\ d[2] = type
  BY ONLY <1>10, <1>12, <1>17
<1>19. HeaderFound(d, type, length, seid, number, content)
  BY ONLY <1>11, <1>13, <1>14, <1>15, <1>16, <1>18, Zenon DEF HeaderFound
<1> QED
  BY <1>6, <1>19 DEF d

-----------------------------------------------------------------------------
(* The PFCP codec.                                                          *)

\* The last sequence number before the counter wraps (24 bits).
LastNumber == 16777215

\* What is on the wire was packed from the message, and what was read was read from there.
CodecIInv ==
  /\ nodeNumber \in Nat /\ nodeNumber <= LastNumber
  /\ pfcpSent # Missing => pfcpSent \in PfcpMessages /\ pfcpWire = EncodePfcp(pfcpSent, nodeNumber)
  /\ pfcpRead # Missing => pfcpSent # Missing /\ pfcpRead = DecodePfcp(pfcpWire)

\* Nothing is sent at first.
LEMMA CodecInitInv == CodecInit => CodecIInv
BY PfcpCodecAssumption DEF CodecInit, CodecIInv, PfcpCodecAssumption, LastNumber

\* What is read is always the decoding of what was sent.
LEMMA CodecNextInv == CodecIInv /\ [CodecNext]_codecVars => CodecIInv'
<1> SUFFICES ASSUME CodecIInv, [CodecNext]_codecVars PROVE CodecIInv'
  OBVIOUS
<1>1. ASSUME NEW m \in PfcpMessages, NodeSends(m) PROVE CodecIInv'
  <2>1. pfcpSent = Missing /\ pfcpSent' = m /\ pfcpWire' = EncodePfcp(m, nodeNumber') /\ pfcpRead' = pfcpRead
    BY <1>1 DEF NodeSends
  <2>2. nodeNumber' \in Nat /\ nodeNumber' <= LastNumber
    BY <1>1 DEF NodeSends, CodecIInv, LastNumber
  <2>3. pfcpRead = Missing
    BY <2>1 DEF CodecIInv
  <2> QED
    BY ONLY <2>1, <2>2, <2>3, m \in PfcpMessages DEF CodecIInv
<1>2. CASE PeerReads
  BY <1>2 DEF PeerReads, CodecIInv
<1>3. CASE UNCHANGED codecVars
  BY <1>3 DEF codecVars, CodecIInv
<1> QED
  BY <1>1, <1>2, <1>3 DEF CodecNext

\* Every PFCP message type is an octet.
LEMMA TypesAreOctets ==
  \A t \in {HeartbeatRequest, HeartbeatResponse, AssociationSetupRequest, AssociationSetupResponse} \cup OfSessions :
    t \in Nat /\ t <= 255
BY DEF OfSessions, HeartbeatRequest, HeartbeatResponse, AssociationSetupRequest, AssociationSetupResponse,
       SessionEstablishmentRequest, SessionEstablishmentResponse, SessionDeletionRequest, SessionDeletionResponse

\* The octets of a message.
LEMMA EncodedFound ==
  ASSUME NEW m \in PfcpMessages, NEW number \in Nat, number <= LastNumber
  PROVE  LET content == Content(ElementsOf(m)) IN
         /\ HeaderFound(EncodePfcp(m, number), m.type, Len(content), m.seid, number, content)
         /\ SplitDeep(content) = ElementsOf(m) /\ Len(content) \in Nat
<1>1. Shaped(m)
  BY MessagesShaped
<1>2. ElementsOf(m) \in Seq(Trees) /\ Len(ElementsOf(m)) <= 8
  BY <1>1 DEF Shaped, Listed
<1> DEFINE content == Content(ElementsOf(m))
<1>3. content \in Bytes /\ Len(content) <= 35104 /\ SplitDeep(content) = ElementsOf(m)
  BY <1>2, SplitDeepInvertsContent
<1> HIDE DEF content
<1>4. Len(content) \in Nat /\ Len(content) <= 65535
  <2>1. Len(content) \in Nat
    BY <1>3 DEF Bytes
  <2> QED
    BY ONLY <1>3, <2>1
<1>5. m.type \in Nat /\ m.type <= 255 /\ (m.type \in OfSessions => m.seid \in Small)
  BY <1>1, TypesAreOctets DEF Shaped
<1>6. number <= Largest
  BY DEF Largest, LastNumber
<1>7. HeaderFound(PfcpHeader(m.type, Len(content), m.seid, number) \o content,
                  m.type, Len(content), m.seid, number, content)
  <2>1. PICK t, n, s : t = m.type /\ n = Len(content) /\ s = m.seid
    OBVIOUS
  <2>2. /\ t \in Nat /\ t <= 255 /\ (t \in OfSessions => s \in Small) /\ n \in Nat /\ n <= 65535
        /\ content \in Bytes
    BY ONLY <1>3, <1>4, <1>5, <2>1
  <2>3. HeaderFound(PfcpHeader(t, n, s, number) \o content, t, n, s, number, content)
    BY ONLY <1>6, <2>2, HeaderIsFound, number \in Nat
  <2> QED
    BY ONLY <2>1, <2>3
<1>8. EncodePfcp(m, number) = PfcpHeader(m.type, Len(content), m.seid, number) \o content
  BY DEF EncodePfcp, content
<1> QED
  BY <1>3, <1>4, <1>7, <1>8 DEF content

\* Where a tunnel endpoint stands in a detection rule.
LEMMA FTeidInPdr ==
  ASSUME NEW p \in PdrArguments, p.pdi.fteid # Missing
  PROVE  p.pdi.fteid \in FTeids /\ CreatePdr(p).parts[3].parts[2] = FTeid(p.pdi.fteid)
<1>1. p.pdi \in PdiArguments
  BY DEF PdrArguments
<1>2. p.pdi.fteid \in FTeids
  BY <1>1 DEF PdiArguments
<1> QED
  BY <1>1, <1>2, PdiParts, PdrParts

\* A leaf keeps its octets.
LEMMA ArgumentsReadBack ==
  ASSUME NEW m \in PfcpMessages, pfcpSent = m, ElementsFound = ElementsOf(m)
  PROVE  ArgumentsSurvive(m)
<1>1. Shaped(m)
  BY MessagesShaped
<1>2. ASSUME "node" \in DOMAIN m PROVE DecodeNodeId(ElementsFound[1].value) = m.node
  <2>1. m.node \in NodeIds /\ ElementsOf(m)[1] = NodeId(m.node)
    BY <1>1, <1>2 DEF Shaped
  <2> QED
    BY <2>1, NodeIdReadBack
<1>3. ASSUME m.type = SessionEstablishmentRequest
      PROVE  /\ DecodeFSeid(ElementsFound[2].value) = m.fseid
             /\ Len(m.pdrs) = 1 /\ m.pdrs[1].pdi.fteid # Missing =>
                  DecodeFTeid(ElementsFound[3].parts[3].parts[2].value) = m.pdrs[1].pdi.fteid
  <2>1. /\ m.fseid \in FSeidArguments /\ ElementsOf(m)[2] = FSeid(m.fseid)
        /\ Listed(m.pdrs, PdrArguments, 2)
        /\ Len(m.pdrs) = 1 => ElementsOf(m)[3] = CreatePdr(m.pdrs[1])
    BY <1>1, <1>3 DEF Shaped
  <2>2. DecodeFSeid(ElementsFound[2].value) = m.fseid
    BY <2>1, FSeidReadBack
  <2>3. ASSUME Len(m.pdrs) = 1, m.pdrs[1].pdi.fteid # Missing
        PROVE  DecodeFTeid(ElementsFound[3].parts[3].parts[2].value) = m.pdrs[1].pdi.fteid
    <3>1. m.pdrs[1] \in PdrArguments
      BY <2>1, <2>3, ListedMember
    <3>2. ElementsFound[3] = CreatePdr(m.pdrs[1])
      BY <2>1, <2>3
    <3> QED
      BY <2>3, <3>1, <3>2, FTeidInPdr, FTeidReadBack
  <2> QED
    BY <2>2, <2>3
<1>4. ASSUME m.type = SessionEstablishmentResponse, m.fseid # Missing
      PROVE  DecodeFSeid(ElementsFound[3].value) = m.fseid
  <2>1. m.fseid \in FSeidArguments /\ ElementsOf(m)[3] = FSeid(m.fseid)
    BY <1>1, <1>4 DEF Shaped
  <2> QED
    BY <2>1, FSeidReadBack
<1> QED
  BY <1>2, <1>3, <1>4 DEF ArgumentsSurvive

\* So every message sent is read back, header, elements and the fields taken from them.
LEMMA CodecImplies == CodecIInv => PfcpReadBack
<1> SUFFICES ASSUME CodecIInv PROVE PfcpReadBack
  OBVIOUS
<1> DEFINE m == pfcpSent
           content == Content(ElementsOf(m))
<1>1. ASSUME m # Missing
      PROVE  /\ m \in PfcpMessages /\ Shaped(m)
             /\ HeaderFound(pfcpWire, m.type, Len(content), m.seid, nodeNumber, content)
             /\ SplitDeep(content) = ElementsOf(m) /\ Len(content) \in Nat
  <2>1. m \in PfcpMessages /\ pfcpWire = EncodePfcp(m, nodeNumber) /\ nodeNumber \in Nat /\ nodeNumber <= LastNumber
    BY <1>1 DEF CodecIInv
  <2> HIDE DEF m
  <2> QED
    BY <2>1, EncodedFound, MessagesShaped
<1> HIDE DEF content
<1>2. ASSUME m # Missing PROVE ElementsFound = ElementsOf(m) /\ ArgumentsSurvive(m)
  <2>1. ElementsFound = ElementsOf(m)
    BY <1>1, <1>2 DEF HeaderFound, ElementsFound
  <2> QED
    BY <1>1, <1>2, <2>1, ArgumentsReadBack
<1>3. ASSUME pfcpRead # Missing
      PROVE  LET h == pfcpRead.header IN
             /\ h.version = 1 /\ h.type = m.type
             /\ h.seid = (IF h.type \in OfSessions THEN m.seid ELSE 0)
             /\ h.length = Len(pfcpWire) - HeaderSize(h.type)
             /\ h.number = WaitsUnder(pfcpWire) /\ h.number = nodeNumber \div 256
  <2> DEFINE d == pfcpWire
             h == DecodePfcpHeader(d)
  <2>1. m # Missing /\ pfcpRead.header = h
    BY <1>3 DEF CodecIInv, DecodePfcp
  <2>2. HeaderFound(d, m.type, Len(content), m.seid, nodeNumber, content)
    BY <1>1, <2>1
  <2>3. /\ Len(d) = HeaderSize(m.type) + Len(content) /\ d[2] = m.type /\ ShortAt(d, 3) = Len(content)
        /\ d[1] = (IF m.type \in OfSessions THEN 33 ELSE 32)
        /\ m.type \in OfSessions => LongAt(d, 9) = m.seid /\ LongAt(d, 13) = nodeNumber
        /\ m.type \notin OfSessions => LongAt(d, 5) = nodeNumber
    BY <2>2, Zenon DEF HeaderFound
  <2>4. HeaderSize(m.type) \in Nat /\ Len(content) \in Nat
    BY <1>1, <2>1 DEF HeaderSize
  <2>5. d[1] \div 32 = 1 /\ (d[1] % 2 = 1 <=> m.type \in OfSessions) /\ (d[1] % 2 = 0 <=> m.type \notin OfSessions)
    BY ONLY <2>3
  <2>6. /\ h.version = d[1] \div 32 /\ h.type = d[2] /\ h.length = ShortAt(d, 3)
        /\ h.seid = (IF d[1] % 2 = 1 THEN LongAt(d, 9) ELSE 0)
        /\ h.number = LongAt(d, IF d[1] % 2 = 1 THEN 13 ELSE 5) \div 256
    BY DEF DecodePfcpHeader
  <2> HIDE DEF h, d, m
  <2>7. h.version = 1 /\ h.type = m.type
    BY ONLY <2>3, <2>5, <2>6
  <2>8. h.seid = IF m.type \in OfSessions THEN m.seid ELSE 0
    BY ONLY <2>3, <2>5, <2>6, Zenon
  <2>9. h.length = Len(d) - HeaderSize(m.type)
    BY ONLY <2>3, <2>4, <2>6
  <2>10. LongAt(d, IF d[1] % 2 = 1 THEN 13 ELSE 5) = nodeNumber /\ LongAt(d, IF d[1] % 2 = 0 THEN 5 ELSE 13) = nodeNumber
    BY ONLY <2>3, <2>5
  <2>11. h.number = nodeNumber \div 256 /\ WaitsUnder(d) = nodeNumber \div 256
    BY ONLY <2>6, <2>10 DEF WaitsUnder
  <2> QED
    BY ONLY <2>1, <2>7, <2>8, <2>9, <2>11 DEF d, m
<1> QED
  BY <1>2, <1>3 DEF PfcpReadBack, m

-----------------------------------------------------------------------------
(* NAS: the recursive readings of nas_5g.py.                                *)

\* Numbers of n digits.
DigitsOf(n) == [1 .. n -> 0 .. 9]

\* A PLMN is read back from three octets, its MNC of two digits or three (nas_5g.py:280-315).
LEMMA PlmnReadBack ==
  ASSUME NEW p \in Plmns
  PROVE  DecodePlmn(EncodePlmn(p)) = p /\ EncodePlmn(p) \in Bytes /\ Len(EncodePlmn(p)) = 3
<1> DEFINE mcc == p[1]
           mnc == p[2]
<1>1. p \in DigitsOf(3) \X (DigitsOf(2) \cup DigitsOf(3))
  BY NasAssumption DEF NasAssumption, DigitsOf
<1>2. p = <<mcc, mnc>> /\ mcc \in DigitsOf(3) /\ mnc \in DigitsOf(2) \cup DigitsOf(3)
  BY <1>1
<1> HIDE DEF mcc, mnc
<1>3. /\ mcc[1] \in 0 .. 9 /\ mcc[2] \in 0 .. 9 /\ mcc[3] \in 0 .. 9 /\ mcc = <<mcc[1], mcc[2], mcc[3]>>
      /\ mnc[1] \in 0 .. 9 /\ mnc[2] \in 0 .. 9
  BY <1>2 DEF DigitsOf
<1>4. \A a, b \in 0 .. 15 : (a * 16 + b) % 16 = b /\ (a * 16 + b) \div 16 = a /\ a * 16 + b \in Nat /\ a * 16 + b <= 255
  OBVIOUS
<1>5. 0 .. 9 \subseteq 0 .. 15 /\ 15 \in 0 .. 15
  OBVIOUS
<1>6. CASE mnc \in DigitsOf(2)
  <2>1. Len(mnc) = 2 /\ mnc = <<mnc[1], mnc[2]>>
    BY <1>6 DEF DigitsOf
  <2>2. EncodePlmn(p) = <<mcc[2] * 16 + mcc[1], 15 * 16 + mcc[3], mnc[2] * 16 + mnc[1]>>
    BY <1>2, <2>1 DEF EncodePlmn
  <2>3. EncodePlmn(p) \in Bytes /\ Len(EncodePlmn(p)) = 3
    BY <1>3, <1>4, <1>5, <2>2, OctetMade DEF Bytes
  <2>4. DecodePlmn(EncodePlmn(p)) = << <<mcc[1], mcc[2], mcc[3]>>, <<mnc[1], mnc[2]>> >>
    BY <1>3, <1>4, <1>5, <2>2 DEF DecodePlmn
  <2> QED
    BY <1>2, <1>3, <2>1, <2>3, <2>4
<1>7. CASE mnc \in DigitsOf(3)
  <2>1. Len(mnc) = 3 /\ mnc = <<mnc[1], mnc[2], mnc[3]>> /\ mnc[3] \in 0 .. 9
    BY <1>7 DEF DigitsOf
  <2>2. EncodePlmn(p) = <<mcc[2] * 16 + mcc[1], mnc[3] * 16 + mcc[3], mnc[2] * 16 + mnc[1]>>
    BY <1>2, <2>1 DEF EncodePlmn
  <2>3. EncodePlmn(p) \in Bytes /\ Len(EncodePlmn(p)) = 3
    BY <1>3, <1>4, <1>5, <2>1, <2>2, OctetMade DEF Bytes
  <2>4. DecodePlmn(EncodePlmn(p)) = << <<mcc[1], mcc[2], mcc[3]>>, <<mnc[1], mnc[2], mnc[3]>> >>
    BY <1>3, <1>4, <1>5, <2>1, <2>2 DEF DecodePlmn
  <2> QED
    BY <1>2, <1>3, <2>1, <2>3, <2>4
<1> QED
  BY <1>2, <1>6, <1>7

\* Where an octet can stand.
Places == Nat \ {0}

\* A reading of n octets: what it finds at a place is told by what it finds further on, and
\* past the end by nothing.
IsReading(n, S, step) ==
  /\ S # {} /\ step \in [Places -> [[Places -> S] -> S]]
  /\ \A x \in Places : \A f, g \in [Places -> S] :
       (\A y \in Places : x <= n /\ y > x => f[y] = g[y]) => step[x][f] = step[x][g]

\* A reading that moves on with every step has a solution: the octets left are its measure.
LEMMA ReadingHasSolution ==
  ASSUME NEW n \in Nat, NEW S, NEW step, IsReading(n, S, step)
  PROVE  \E f \in [Places -> S] : IsSolution(f, Places, step)
<1> DEFINE m == [x \in Places |-> IF x > n THEN 0 ELSE n - x + 1]
<1>1. m \in [Places -> Nat] /\ \A x \in Places : m[x] <= n
  BY DEF Places
<1>2. \A x, y \in Places : x <= n /\ y > x => m[y] < m[x]
  BY DEF Places
<1> HIDE DEF m
<1>3. IsRecursion(Places, S, m, step)
  <2>1. \E bound \in Nat : \A x \in Places : m[x] <= bound
    BY <1>1
  <2>2. ASSUME NEW x \in Places, NEW f \in [Places -> S], NEW g \in [Places -> S],
               \A y \in Places : m[y] < m[x] => f[y] = g[y]
        PROVE  step[x][f] = step[x][g]
    <3>1. \A y \in Places : x <= n /\ y > x => f[y] = g[y]
      BY <1>2, <2>2
    <3> QED
      BY <3>1 DEF IsReading
  <2> QED
    BY <1>1, <2>1, <2>2 DEF IsReading, IsRecursion
<1> QED
  BY <1>3, RecursionHasSolution

\* What holds past the end, and at a place whenever it holds after it, holds at every place.
LEMMA FromTheEnd ==
  ASSUME NEW n \in Nat, NEW G,
         \A x \in Places : (\A y \in Places : x <= n /\ y > x => y \in G) => x \in G
  PROVE  \A x \in Places : x \in G
<1> DEFINE Out == {i \in 0 .. n : \A x \in Places : x > n - i => x \in G}
<1>1. 0 \in Out
  <2>1. \A x \in Places : x > n => x \in G
    BY DEF Places
  <2> QED
    BY <2>1
<1>2. ASSUME NEW i \in 0 .. n - 1, i \in Out PROVE i + 1 \in Out
  <2>1. ASSUME NEW x \in Places, x > n - (i + 1) PROVE x \in G
    <3>1. \A y \in Places : y > x => y \in G
      BY <1>2, <2>1 DEF Places
    <3> QED
      BY <3>1
  <2> QED
    BY <2>1
<1>3. n \in Out
  <2> HIDE DEF Out
  <2>1. \A i \in 0 .. n : i \in Out
    BY <1>1, <1>2, UpTo
  <2> QED
    BY <2>1
<1> QED
  BY <1>3 DEF Places

\* DecodeNssai at p.
NssaiFound(d, end, p, read) ==
  IF p >= end THEN [list |-> <<>>, next |-> p]
  ELSE IF p + 1 > Len(d) THEN [list |-> NotDecoded, next |-> p]
  ELSE LET one == DecodeSnssai(From(d, p))  rest == read[p + one.used] IN
       [rest EXCEPT !.list = IF @ = NotDecoded THEN NotDecoded ELSE <<one.value>> \o @]
NssaiReading(d, end, read) == read = [p \in Places |-> NssaiFound(d, end, p, read)]

\* From(d, p) starts at octet p.
LEMMA FromFound ==
  ASSUME NEW d \in Bytes, NEW p \in Places, p <= Len(d)
  PROVE  /\ From(d, p) \in Bytes /\ Len(From(d, p)) = Len(d) - p + 1
         /\ \A k \in 1 .. Len(d) - p + 1 : From(d, p)[k] = d[p + k - 1]
         /\ From(d, p)[1] = d[p] /\ From(d, p)[1] \in Nat
<1>1. d \in Seq(Octet) /\ p \in Nat /\ p >= 1 /\ Len(d) \in Nat
  BY DEF Bytes, Places
<1>2. /\ From(d, p) \in Seq(Octet) /\ Len(From(d, p)) = Len(d) - p + 1
      /\ \A k \in 1 .. Len(d) - p + 1 : From(d, p)[k] = d[p + k - 1]
  <2>1. \A i \in 1 .. Len(d) : d[i] \in Octet
    BY <1>1, ElementOfSeq
  <2> QED
    BY <1>1, <2>1 DEF From
<1>3. From(d, p)[1] = d[p] /\ From(d, p)[1] \in Octet
  <2>1. 1 \in 1 .. Len(d) - p + 1 /\ p + 1 - 1 = p
    BY <1>1
  <2> QED
    BY <1>2, <2>1, ElementOfSeq
<1>4. From(d, p)[1] \in Nat
  <2>1. \A o \in Octet : o \in Nat
    BY DEF Octet
  <2> QED
    BY <1>3, <2>1
<1> QED
  BY <1>2, <1>3, <1>4 DEF Bytes

\* An S-NSSAI has a length octet, so its decoder moves on.
LEMMA SnssaiMovesOn ==
  ASSUME NEW d \in Bytes, NEW p \in Places, p + 1 <= Len(d)
  PROVE  p + DecodeSnssai(From(d, p)).used \in Places /\ p + DecodeSnssai(From(d, p)).used > p
<1>1. p <= Len(d)
  BY DEF Bytes, Places
<1>2. From(d, p)[1] \in Nat
  BY <1>1, FromFound
<1>3. DecodeSnssai(From(d, p)).used = From(d, p)[1] + 1
  BY DEF DecodeSnssai
<1> DEFINE size == From(d, p)[1]
<1> HIDE DEF size
<1> QED
  BY <1>2, <1>3 DEF Places, size

\* A reading never goes back.
LEMMA NssaiGoesOn ==
  ASSUME NEW d \in Bytes, NEW end \in Nat, NEW read, NssaiReading(d, end, read)
  PROVE  \A p \in Places : /\ read[p] = NssaiFound(d, end, p, read)
                           /\ read[p].next \in Places /\ read[p].next >= p
                           /\ read[p] = [list |-> read[p].list, next |-> read[p].next]
<1> DEFINE Goes(p) == /\ read[p].next \in Places /\ read[p].next >= p
                      /\ read[p] = [list |-> read[p].list, next |-> read[p].next]
           G == {p \in Places : Goes(p)}
<1>0. Len(d) \in Nat
  BY DEF Bytes
<1>1. \A p \in Places : read[p] = NssaiFound(d, end, p, read)
  BY DEF NssaiReading
<1>2. ASSUME NEW p \in Places, \A y \in Places : p <= Len(d) /\ y > p => y \in G
      PROVE  p \in G
  <2>1. CASE p >= end
    <3>1. read[p] = [list |-> <<>>, next |-> p]
      BY <1>1, <2>1 DEF NssaiFound
    <3> QED
      BY <3>1 DEF Places
  <2>2. CASE ~(p >= end) /\ p + 1 > Len(d)
    <3>1. read[p] = [list |-> NotDecoded, next |-> p]
      BY <1>1, <2>2 DEF NssaiFound
    <3> QED
      BY <3>1 DEF Places
  <2>3. CASE ~(p >= end) /\ ~(p + 1 > Len(d))
    <3> DEFINE y == p + DecodeSnssai(From(d, p)).used
    <3>1. p + 1 <= Len(d) /\ p <= Len(d)
      BY <1>0, <2>3 DEF Places
    <3>2. y \in Places /\ y > p
      BY <3>1, SnssaiMovesOn
    <3>3. Goes(y)
      BY <1>2, <3>1, <3>2
    <3>4. PICK l : read[p] = [read[y] EXCEPT !.list = l]
      BY <1>1, <2>3 DEF NssaiFound
    <3> HIDE DEF y
    <3>5. PICK a, n : read[y] = [list |-> a, next |-> n] /\ n \in Places /\ n >= y
      BY <3>3
    <3>6. read[p] = [list |-> l, next |-> n]
      BY <3>4, <3>5
    <3> QED
      BY <3>2, <3>5, <3>6 DEF Places
  <2> QED
    BY <2>1, <2>2, <2>3
<1> HIDE DEF G
<1>3. \A p \in Places : p \in G
  BY <1>0, <1>2, FromTheEnd
<1> QED
  BY <1>1, <1>3 DEF G

\* DecodeNssai has a reading that meets its equation at every octet.
LEMMA NssaiEquation ==
  ASSUME NEW d \in Bytes, NEW end \in Nat
  PROVE  \E read : NssaiReading(d, end, read) /\ \A o : DecodeNssai(d, o, end) = read[o]
<1> DEFINE V == {DecodeSnssai(From(d, p)).value : p \in Places}
           S == [list : Seq(V) \cup {NotDecoded}, next : Places]
           step == [p \in Places |-> [f \in [Places -> S] |-> NssaiFound(d, end, p, f)]]
<1>0. Len(d) \in Nat
  BY DEF Bytes
<1>1. ASSUME NEW p \in Places, p < end, p + 1 <= Len(d)
      PROVE  LET one == DecodeSnssai(From(d, p)) IN p + one.used \in Places /\ p + one.used > p /\ one.value \in V
  <2>1. DecodeSnssai(From(d, p)).value \in V
    OBVIOUS
  <2> QED
    BY <1>1, <2>1, SnssaiMovesOn
<1> HIDE DEF V
<1>2. ASSUME NEW p \in Places, NEW f \in [Places -> S]
      PROVE  NssaiFound(d, end, p, f) \in S
  <2>1. CASE p >= end
    <3>1. NssaiFound(d, end, p, f) = [list |-> <<>>, next |-> p]
      BY <2>1 DEF NssaiFound
    <3> QED
      BY <3>1
  <2>2. CASE ~(p >= end) /\ p + 1 > Len(d)
    <3>1. NssaiFound(d, end, p, f) = [list |-> NotDecoded, next |-> p]
      BY <2>2 DEF NssaiFound
    <3> QED
      BY <3>1
  <2>3. CASE ~(p >= end) /\ ~(p + 1 > Len(d))
    <3> DEFINE one == DecodeSnssai(From(d, p))
               rest == f[p + one.used]
    <3>1. p < end /\ p + 1 <= Len(d)
      BY <1>0, <2>3 DEF Places
    <3>2. p + one.used \in Places /\ one.value \in V
      BY <1>1, <3>1
    <3>3. NssaiFound(d, end, p, f) = [rest EXCEPT !.list = IF @ = NotDecoded THEN NotDecoded ELSE <<one.value>> \o @]
      BY <2>3 DEF NssaiFound
    <3> HIDE DEF one
    <3>4. rest \in S
      BY <3>2
    <3> HIDE DEF rest
    <3>5. PICK l : l = IF rest.list = NotDecoded THEN NotDecoded ELSE <<one.value>> \o rest.list
      OBVIOUS
    <3>6. l \in Seq(V) \cup {NotDecoded}
      <4>1. CASE rest.list = NotDecoded
        BY <3>5, <4>1
      <4>2. CASE rest.list # NotDecoded
        <5>1. rest.list \in Seq(V) /\ <<one.value>> \in Seq(V)
          BY <3>2, <3>4, <4>2
        <5> QED
          BY <3>5, <4>2, <5>1, ConcatProperties
      <4> QED
        BY <4>1, <4>2
    <3>7. NssaiFound(d, end, p, f) = [rest EXCEPT !.list = l]
      BY <3>3, <3>5
    <3>8. [rest EXCEPT !.list = l] \in S
      BY <3>4, <3>6
    <3> QED
      BY <3>7, <3>8
  <2> QED
    BY <2>1, <2>2, <2>3
<1>3. ASSUME NEW p \in Places, NEW f \in [Places -> S], NEW g \in [Places -> S],
             \A y \in Places : p <= Len(d) /\ y > p => f[y] = g[y]
      PROVE  NssaiFound(d, end, p, f) = NssaiFound(d, end, p, g)
  <2>1. CASE p >= end
    BY <2>1 DEF NssaiFound
  <2>2. CASE ~(p >= end) /\ p + 1 > Len(d)
    BY <2>2 DEF NssaiFound
  <2>3. CASE ~(p >= end) /\ ~(p + 1 > Len(d))
    <3> DEFINE one == DecodeSnssai(From(d, p))
    <3>1. p < end /\ p + 1 <= Len(d) /\ p <= Len(d)
      BY <1>0, <2>3 DEF Places
    <3>2. f[p + one.used] = g[p + one.used]
      BY <1>1, <1>3, <3>1
    <3> QED
      BY <2>3, <3>2 DEF NssaiFound
  <2> QED
    BY <2>1, <2>2, <2>3
<1>4. IsReading(Len(d), S, step)
  <2>1. S # {}
    <3>1. [list |-> <<>>, next |-> 1] \in S
      BY DEF Places
    <3> QED
      BY <3>1
  <2> HIDE DEF S
  <2>2. step \in [Places -> [[Places -> S] -> S]]
    BY <1>2
  <2>3. \A x \in Places : \A f, g \in [Places -> S] :
          (\A y \in Places : x <= Len(d) /\ y > x => f[y] = g[y]) => step[x][f] = step[x][g]
    BY <1>3
  <2> HIDE DEF step
  <2> QED
    BY <2>1, <2>2, <2>3 DEF IsReading
<1>5. PICK f \in [Places -> S] : IsSolution(f, Places, step)
  <2> HIDE DEF step, S
  <2> QED
    BY <1>0, <1>4, ReadingHasSolution
<1> HIDE DEF S
<1>6. NssaiReading(d, end, f)
  <2>1. \A x \in Places : f[x] = NssaiFound(d, end, x, f)
    BY <1>5 DEF IsSolution
  <2>2. f = [x \in Places |-> f[x]]
    OBVIOUS
  <2> QED
    BY <2>1, <2>2 DEF NssaiReading
<1>8. NssaiReading(d, end, CHOOSE read : NssaiReading(d, end, read))
  <2> HIDE DEF step
  <2> QED
    BY <1>6
<1>9. \A o : DecodeNssai(d, o, end) = (CHOOSE read : NssaiReading(d, end, read))[o]
  BY DEF DecodeNssai, NssaiReading, NssaiFound, Places
<1> QED
  BY <1>8, <1>9

\* DecodeElements at p.
ElementsFoundAt(d, p, read) ==
  IF p > Len(d) THEN [capability |-> Absent, nssai |-> Absent]
  ELSE IF d[p] >= 128 THEN read[p + 1]
  ELSE IF p + 1 > Len(d) THEN NotDecoded
  ELSE IF d[p] = 46 THEN
    LET one == DecodeCapability(From(d, p + 1))  rest == read[p + 1 + one.used] IN
    IF rest = NotDecoded THEN NotDecoded
    ELSE [rest EXCEPT !.capability = IF @ = Absent THEN one.value ELSE @]
  ELSE IF d[p] = 47 THEN
    LET all == DecodeNssai(d, p + 2, p + 2 + d[p + 1])  rest == read[all.next] IN
    IF all.list = NotDecoded \/ rest = NotDecoded THEN NotDecoded
    ELSE [rest EXCEPT !.nssai = IF @ = Absent THEN all.list ELSE @]
  ELSE read[p + 2 + d[p + 1]]
ElementsReading(d, read) == read = [p \in Places |-> ElementsFoundAt(d, p, read)]

\* Every branch of the element loop moves on.
LEMMA ElementsMoveOn ==
  ASSUME NEW d \in Bytes, NEW p \in Places, p + 1 <= Len(d)
  PROVE  LET afterCapability == p + 1 + DecodeCapability(From(d, p + 1)).used
             afterNssai == DecodeNssai(d, p + 2, p + 2 + d[p + 1]).next
             after == p + 2 + d[p + 1] IN
         /\ afterCapability \in Places /\ afterCapability > p
         /\ afterNssai \in Places /\ afterNssai > p
         /\ after \in Places /\ after > p
<1>1. p + 1 \in Places /\ p + 2 \in Places /\ p \in Nat
  BY DEF Places
<1>2. From(d, p + 1)[1] \in Nat /\ d[p + 1] = From(d, p + 1)[1]
  BY <1>1, FromFound
<1> DEFINE size == d[p + 1]
<1>3. DecodeCapability(From(d, p + 1)).used = size + 1
  BY <1>2 DEF DecodeCapability
<1>4. size \in Nat
  BY <1>2
<1> HIDE DEF size
<1>5. p + 1 + (size + 1) \in Places /\ p + 1 + (size + 1) > p /\ p + 2 + size \in Places /\ p + 2 + size > p
      /\ p + 2 + size \in Nat
  BY <1>1, <1>4 DEF Places
<1>6. DecodeNssai(d, p + 2, p + 2 + size).next \in Places /\ DecodeNssai(d, p + 2, p + 2 + size).next >= p + 2
  <2>1. PICK read : /\ NssaiReading(d, p + 2 + size, read)
                    /\ \A o : DecodeNssai(d, o, p + 2 + size) = read[o]
    BY <1>5, NssaiEquation
  <2>2. read[p + 2].next \in Places /\ read[p + 2].next >= p + 2
    BY <1>1, <1>5, <2>1, NssaiGoesOn
  <2> QED
    BY <2>1, <2>2
<1>7. DecodeNssai(d, p + 2, p + 2 + size).next > p
  <2> DEFINE n == DecodeNssai(d, p + 2, p + 2 + size).next
  <2> HIDE DEF n
  <2>1. n \in Places /\ n >= p + 2
    BY <1>6 DEF n
  <2>2. n > p
    BY <1>1, <2>1 DEF Places
  <2> QED
    BY <2>2 DEF n
<1> QED
  BY <1>3, <1>5, <1>6, <1>7 DEF size

\* DecodeElements has a reading that meets its equation at every octet.
LEMMA ElementsEquation ==
  ASSUME NEW d \in Bytes
  PROVE  \E read : ElementsReading(d, read) /\ \A o : DecodeElements(d, o) = read[o]
<1> DEFINE C == {DecodeCapability(From(d, p)).value : p \in Places} \cup {Absent}
           N == {DecodeNssai(d, p, end).list : p \in Places, end \in Places} \cup {Absent}
           S == {NotDecoded} \cup [capability : C, nssai : N]
           step == [p \in Places |-> [f \in [Places -> S] |-> ElementsFoundAt(d, p, f)]]
<1>0. Len(d) \in Nat
  BY DEF Bytes
<1>1. ASSUME NEW p \in Places
      PROVE  /\ p + 1 \in Places /\ p + 1 > p
             /\ DecodeCapability(From(d, p + 1)).value \in C
             /\ p + 1 <= Len(d) => DecodeNssai(d, p + 2, p + 2 + d[p + 1]).list \in N
  <2>1. p + 1 \in Places /\ p + 2 \in Places /\ p + 1 > p
    BY DEF Places
  <2>2. p + 1 <= Len(d) => p + 2 + d[p + 1] \in Places
    BY ElementsMoveOn
  <2> QED
    BY <2>1, <2>2
<1>2. Absent \in C /\ Absent \in N
  OBVIOUS
<1> HIDE DEF C, N
<1>3. ASSUME NEW p \in Places, NEW f \in [Places -> S]
      PROVE  ElementsFoundAt(d, p, f) \in S
  <2>1. CASE p > Len(d)
    BY <1>2, <2>1 DEF ElementsFoundAt
  <2>2. CASE ~(p > Len(d)) /\ d[p] >= 128
    BY <1>1, <2>2 DEF ElementsFoundAt
  <2>3. CASE ~(p > Len(d)) /\ ~(d[p] >= 128) /\ p + 1 > Len(d)
    BY <2>3 DEF ElementsFoundAt
  <2>4. CASE ~(p > Len(d)) /\ ~(d[p] >= 128) /\ ~(p + 1 > Len(d))
    <3>1. p + 1 <= Len(d)
      BY <1>0, <2>4 DEF Places
    <3>2. CASE d[p] = 46
      <4> DEFINE one == DecodeCapability(From(d, p + 1))
                 rest == f[p + 1 + one.used]
      <4>1. rest \in S /\ one.value \in C
        BY <1>1, <3>1, ElementsMoveOn
      <4>2. ElementsFoundAt(d, p, f) = IF rest = NotDecoded THEN NotDecoded
                                       ELSE [rest EXCEPT !.capability = IF @ = Absent THEN one.value ELSE @]
        BY <2>4, <3>2 DEF ElementsFoundAt
      <4> HIDE DEF rest, one
      <4>3. CASE rest # NotDecoded
        <5>1. rest \in [capability : C, nssai : N]
          BY <4>1, <4>3
        <5>2. PICK c : c = IF rest.capability = Absent THEN one.value ELSE rest.capability
          OBVIOUS
        <5>3. c \in C
          BY <4>1, <5>1, <5>2
        <5>4. [rest EXCEPT !.capability = c] \in [capability : C, nssai : N]
          BY <5>1, <5>3
        <5> QED
          BY <4>2, <4>3, <5>2, <5>4
      <4> QED
        BY <4>2, <4>3
    <3>3. CASE d[p] = 47
      <4> DEFINE all == DecodeNssai(d, p + 2, p + 2 + d[p + 1])
                 rest == f[all.next]
      <4>1. rest \in S /\ all.list \in N
        BY <1>1, <3>1, ElementsMoveOn
      <4>2. ElementsFoundAt(d, p, f) = IF all.list = NotDecoded \/ rest = NotDecoded THEN NotDecoded
                                       ELSE [rest EXCEPT !.nssai = IF @ = Absent THEN all.list ELSE @]
        BY <2>4, <3>3 DEF ElementsFoundAt
      <4> HIDE DEF rest, all
      <4>3. CASE ~(all.list = NotDecoded \/ rest = NotDecoded)
        <5>1. rest \in [capability : C, nssai : N]
          BY <4>1, <4>3
        <5>2. PICK l : l = IF rest.nssai = Absent THEN all.list ELSE rest.nssai
          OBVIOUS
        <5>3. l \in N
          BY <4>1, <5>1, <5>2
        <5>4. [rest EXCEPT !.nssai = l] \in [capability : C, nssai : N]
          BY <5>1, <5>3
        <5> QED
          BY <4>2, <4>3, <5>2, <5>4
      <4> QED
        BY <4>2, <4>3
    <3>4. CASE d[p] # 46 /\ d[p] # 47
      <4>1. p + 2 + d[p + 1] \in Places
        BY <3>1, ElementsMoveOn
      <4> QED
        BY <2>4, <3>4, <4>1 DEF ElementsFoundAt
    <3> QED
      BY <3>2, <3>3, <3>4
  <2> QED
    BY <2>1, <2>2, <2>3, <2>4
<1>4. ASSUME NEW p \in Places, NEW f \in [Places -> S], NEW g \in [Places -> S],
             \A y \in Places : p <= Len(d) /\ y > p => f[y] = g[y]
      PROVE  ElementsFoundAt(d, p, f) = ElementsFoundAt(d, p, g)
  <2>1. CASE p > Len(d)
    BY <2>1 DEF ElementsFoundAt
  <2>2. CASE ~(p > Len(d)) /\ d[p] >= 128
    <3>1. p <= Len(d)
      BY <1>0, <2>2 DEF Places
    <3>2. f[p + 1] = g[p + 1]
      BY <1>1, <1>4, <3>1
    <3> QED
      BY <2>2, <3>2 DEF ElementsFoundAt
  <2>3. CASE ~(p > Len(d)) /\ ~(d[p] >= 128) /\ p + 1 > Len(d)
    BY <2>3 DEF ElementsFoundAt
  <2>4. CASE ~(p > Len(d)) /\ ~(d[p] >= 128) /\ ~(p + 1 > Len(d))
    <3>1. p + 1 <= Len(d) /\ p <= Len(d)
      BY <1>0, <2>4 DEF Places
    <3>2. \A y \in Places : y > p => f[y] = g[y]
      BY <1>4, <3>1
    <3>3. /\ f[p + 1 + DecodeCapability(From(d, p + 1)).used] = g[p + 1 + DecodeCapability(From(d, p + 1)).used]
          /\ f[DecodeNssai(d, p + 2, p + 2 + d[p + 1]).next] = g[DecodeNssai(d, p + 2, p + 2 + d[p + 1]).next]
          /\ f[p + 2 + d[p + 1]] = g[p + 2 + d[p + 1]]
      BY <3>1, <3>2, ElementsMoveOn
    <3> QED
      BY <2>4, <3>3 DEF ElementsFoundAt
  <2> QED
    BY <2>1, <2>2, <2>3, <2>4
<1>5. IsReading(Len(d), S, step)
  <2>1. S # {}
    OBVIOUS
  <2> HIDE DEF S
  <2>2. step \in [Places -> [[Places -> S] -> S]]
    BY <1>3
  <2>3. \A x \in Places : \A f, g \in [Places -> S] :
          (\A y \in Places : x <= Len(d) /\ y > x => f[y] = g[y]) => step[x][f] = step[x][g]
    BY <1>4
  <2> HIDE DEF step
  <2> QED
    BY <2>1, <2>2, <2>3 DEF IsReading
<1>6. PICK f \in [Places -> S] : IsSolution(f, Places, step)
  <2> HIDE DEF step, S
  <2> QED
    BY <1>0, <1>5, ReadingHasSolution
<1> HIDE DEF S
<1>7. ElementsReading(d, f)
  <2>1. \A x \in Places : f[x] = ElementsFoundAt(d, x, f)
    BY <1>6 DEF IsSolution
  <2>2. f = [x \in Places |-> f[x]]
    OBVIOUS
  <2> QED
    BY <2>1, <2>2 DEF ElementsReading
<1>8. ElementsReading(d, CHOOSE read : ElementsReading(d, read))
  <2> HIDE DEF step
  <2> QED
    BY <1>7
<1>9. \A o : DecodeElements(d, o) = (CHOOSE read : ElementsReading(d, read))[o]
  BY DEF DecodeElements, ElementsReading, ElementsFoundAt, Places
<1> QED
  BY <1>8, <1>9

\* DecodeRes at p.
ResAt(d, p) == LET past == p + 2 + d[p + 1] IN SubSeq(d, p + 2, IF past > Len(d) THEN Len(d) ELSE past - 1)
ResFound(d, p, read) ==
  IF p > Len(d) THEN Absent
  ELSE IF d[p] = 120 THEN
    IF p + 2 > Len(d) THEN NotDecoded ELSE read[p + 3 + (d[p + 1] * 256 + d[p + 2])]
  ELSE IF d[p] # 45 THEN read[p + 1]
  ELSE IF p + 1 > Len(d) THEN NotDecoded
  ELSE IF read[p + 2 + d[p + 1]] = Absent THEN ResAt(d, p) ELSE read[p + 2 + d[p + 1]]
ResReading(d, read) == read = [p \in Places |-> ResFound(d, p, read)]

\* An element with two octets of length moves the reading on.
LEMMA LongMovesOn ==
  ASSUME NEW d \in Bytes, NEW p \in Places, p + 2 <= Len(d)
  PROVE  p + 3 + (d[p + 1] * 256 + d[p + 2]) \in Places /\ p + 3 + (d[p + 1] * 256 + d[p + 2]) > p
<1>1. p \in Nat /\ p >= 1 /\ Len(d) \in Nat
  BY DEF Bytes, Places
<1>2. p + 1 \in 1 .. Len(d) /\ p + 2 \in 1 .. Len(d)
  BY <1>1
<1>3. d[p + 1] \in Nat /\ d[p + 2] \in Nat
  <2>1. \A i \in 1 .. Len(d) : d[i] \in Octet
    BY DEF Bytes
  <2>2. d[p + 1] \in Octet /\ d[p + 2] \in Octet
    BY <1>2, <2>1
  <2>3. \A o \in Octet : o \in Nat
    BY DEF Octet
  <2> QED
    BY <2>2, <2>3
<1>4. PICK a, b : a = d[p + 1] /\ b = d[p + 2]
  OBVIOUS
<1>5. a \in Nat /\ b \in Nat
  BY <1>3, <1>4
<1> QED
  BY <1>1, <1>4, <1>5 DEF Places

\* DecodeRes has a reading that meets its equation at every octet.
LEMMA ResEquation ==
  ASSUME NEW d \in Bytes
  PROVE  \E read : ResReading(d, read) /\ \A o : DecodeRes(d, o) = read[o]
<1> DEFINE S == {Absent, NotDecoded} \cup {ResAt(d, p) : p \in Places}
           step == [p \in Places |-> [f \in [Places -> S] |-> ResFound(d, p, f)]]
<1>0. Len(d) \in Nat
  BY DEF Bytes
<1>1. ASSUME NEW p \in Places PROVE ResAt(d, p) \in S /\ p + 1 \in Places /\ p + 1 > p
  <2>1. ResAt(d, p) \in S
    OBVIOUS
  <2>2. p + 1 \in Places /\ p + 1 > p
    BY DEF Places
  <2> QED
    BY <2>1, <2>2
<1>2. Absent \in S /\ NotDecoded \in S
  OBVIOUS
<1> HIDE DEF S
<1>3. ASSUME NEW p \in Places, NEW f \in [Places -> S]
      PROVE  ResFound(d, p, f) \in S
  <2>1. CASE p > Len(d)
    BY <1>2, <2>1 DEF ResFound
  <2>5. CASE ~(p > Len(d)) /\ d[p] = 120 /\ p + 2 > Len(d)
    BY <1>2, <2>5 DEF ResFound
  <2>6. CASE ~(p > Len(d)) /\ d[p] = 120 /\ ~(p + 2 > Len(d))
    <3>1. p + 2 <= Len(d)
      BY <1>0, <2>6 DEF Places
    <3>2. f[p + 3 + (d[p + 1] * 256 + d[p + 2])] \in S
      BY <3>1, LongMovesOn
    <3> QED
      BY <2>6, <3>2 DEF ResFound
  <2>2. CASE ~(p > Len(d)) /\ d[p] # 120 /\ d[p] # 45
    BY <1>1, <2>2 DEF ResFound
  <2>3. CASE ~(p > Len(d)) /\ ~(d[p] # 45) /\ p + 1 > Len(d)
    BY <1>2, <2>3 DEF ResFound
  <2>4. CASE ~(p > Len(d)) /\ ~(d[p] # 45) /\ ~(p + 1 > Len(d))
    <3>1. p + 1 <= Len(d)
      BY <1>0, <2>4 DEF Places
    <3>2. f[p + 2 + d[p + 1]] \in S
      BY <3>1, ElementsMoveOn
    <3> QED
      BY <1>1, <2>4, <3>2 DEF ResFound
  <2> QED
    BY <2>1, <2>2, <2>3, <2>4, <2>5, <2>6
<1>4. ASSUME NEW p \in Places, NEW f \in [Places -> S], NEW g \in [Places -> S],
             \A y \in Places : p <= Len(d) /\ y > p => f[y] = g[y]
      PROVE  ResFound(d, p, f) = ResFound(d, p, g)
  <2>1. CASE p > Len(d)
    BY <2>1 DEF ResFound
  <2>5. CASE ~(p > Len(d)) /\ d[p] = 120 /\ p + 2 > Len(d)
    BY <2>5 DEF ResFound
  <2>6. CASE ~(p > Len(d)) /\ d[p] = 120 /\ ~(p + 2 > Len(d))
    <3>1. p + 2 <= Len(d) /\ p <= Len(d)
      BY <1>0, <2>6 DEF Places
    <3>2. f[p + 3 + (d[p + 1] * 256 + d[p + 2])] = g[p + 3 + (d[p + 1] * 256 + d[p + 2])]
      BY <1>4, <3>1, LongMovesOn
    <3> QED
      BY <2>6, <3>2 DEF ResFound
  <2>2. CASE ~(p > Len(d)) /\ d[p] # 120 /\ d[p] # 45
    <3>1. p <= Len(d)
      BY <1>0, <2>2 DEF Places
    <3>2. f[p + 1] = g[p + 1]
      BY <1>1, <1>4, <3>1
    <3> QED
      BY <2>2, <3>2 DEF ResFound
  <2>3. CASE ~(p > Len(d)) /\ ~(d[p] # 45) /\ p + 1 > Len(d)
    BY <2>3 DEF ResFound
  <2>4. CASE ~(p > Len(d)) /\ ~(d[p] # 45) /\ ~(p + 1 > Len(d))
    <3>1. p + 1 <= Len(d) /\ p <= Len(d)
      BY <1>0, <2>4 DEF Places
    <3>2. f[p + 2 + d[p + 1]] = g[p + 2 + d[p + 1]]
      BY <1>4, <3>1, ElementsMoveOn
    <3> QED
      BY <2>4, <3>2 DEF ResFound
  <2> QED
    BY <2>1, <2>2, <2>3, <2>4, <2>5, <2>6
<1>5. IsReading(Len(d), S, step)
  <2>2. step \in [Places -> [[Places -> S] -> S]]
    BY <1>3
  <2>3. \A x \in Places : \A f, g \in [Places -> S] :
          (\A y \in Places : x <= Len(d) /\ y > x => f[y] = g[y]) => step[x][f] = step[x][g]
    BY <1>4
  <2> HIDE DEF step
  <2> QED
    BY <1>2, <2>2, <2>3 DEF IsReading
<1>6. PICK f \in [Places -> S] : IsSolution(f, Places, step)
  <2> HIDE DEF step
  <2> QED
    BY <1>0, <1>5, ReadingHasSolution
<1>7. ResReading(d, f)
  <2>1. \A x \in Places : f[x] = ResFound(d, x, f)
    BY <1>6 DEF IsSolution
  <2>2. f = [x \in Places |-> f[x]]
    OBVIOUS
  <2> QED
    BY <2>1, <2>2 DEF ResReading
<1>8. ResReading(d, CHOOSE read : ResReading(d, read))
  <2> HIDE DEF step
  <2> QED
    BY <1>7
<1>9. \A o : DecodeRes(d, o) = (CHOOSE read : ResReading(d, read))[o]
  BY DEF DecodeRes, ResReading, ResFound, ResAt, Places
<1> QED
  BY <1>8, <1>9

-----------------------------------------------------------------------------
(* NAS: the parts of a message are read back.                               *)

\* The tested octets, and every number up to 255, are octets.
LEMMA OctetsTyped ==
  /\ Octets \subseteq Octet /\ Ksis \subseteq 0 .. 15 /\ SessionIds \subseteq 0 .. 15
  /\ \A n \in Nat : n <= 255 => n \in Octet
  /\ \A n \in Octet : n \in Nat /\ n <= 255
BY NasAssumption, OctetMade DEF NasAssumption, Octet

\* Short sequences of octets.
LEMMA FewOctets ==
  /\ \A a \in Octet : <<a>> \in Bytes /\ Len(<<a>>) = 1
  /\ \A a, b \in Octet : <<a, b>> \in Bytes /\ Len(<<a, b>>) = 2
  /\ \A a, b, c \in Octet : <<a, b, c>> \in Bytes /\ Len(<<a, b, c>>) = 3
  /\ \A a, b, c, e \in Octet : <<a, b, c, e>> \in Bytes /\ Len(<<a, b, c, e>>) = 4
BY DEF Bytes

\* What stands in the whole stands in what is left of it from there on.
LEMMA FromHolds ==
  ASSUME NEW d \in Bytes, NEW o \in Nat, NEW at, at = o + 1, NEW t, Holds(d, o, t), Len(t) > 0
  PROVE  /\ From(d, at) \in Bytes /\ Holds(From(d, at), 0, t)
         /\ \A k \in 1 .. Len(t) : From(d, at)[k] = t[k]
<1>1. /\ at \in Places /\ at <= Len(d) /\ o + Len(t) <= Len(d) /\ Len(t) \in Nat /\ Len(d) \in Nat
      /\ \A k \in 1 .. Len(t) : d[o + k] = t[k]
  BY DEF Holds, Places
<1>2. /\ From(d, at) \in Bytes /\ Len(From(d, at)) = Len(d) - at + 1
      /\ \A k \in 1 .. Len(d) - at + 1 : From(d, at)[k] = d[at + k - 1]
  BY <1>1, FromFound
<1>3. ASSUME NEW k \in 1 .. Len(t) PROVE From(d, at)[k] = t[k]
  <2>1. k \in 1 .. Len(d) - at + 1 /\ at + k - 1 = o + k
    BY <1>1
  <2> QED
    BY <1>1, <1>2, <2>1
<1>4. Holds(From(d, at), 0, t)
  <2>1. 0 + Len(t) <= Len(From(d, at)) /\ Len(From(d, at)) \in Nat
    BY <1>1, <1>2
  <2>2. \A k \in 1 .. Len(t) : From(d, at)[0 + k] = t[k]
    BY <1>3
  <2> QED
    BY <1>1, <2>1, <2>2 DEF Holds
<1> QED
  BY <1>2, <1>3, <1>4

\* What stands in a part of the whole stands in the whole.
LEMMA HeldParts ==
  ASSUME NEW d \in Bytes, NEW o \in Nat, NEW s \in Bytes, NEW t \in Bytes, NEW j, j = s \o t,
         NEW at, at = o + Len(s), Holds(d, o, j)
  PROVE  Holds(d, o, s) /\ Holds(d, at, t) /\ at \in Nat
<1>1. Joins(j, s, t)
  BY JoinedBytes
<1>2. Holds(d, o, j)
  OBVIOUS
<1>3. Len(j) = Len(s) + Len(t) /\ Len(s) \in Nat /\ Len(t) \in Nat
  BY <1>1 DEF Joins
<1>4. \A k \in 1 .. Len(s) : d[o + k] = s[k]
  BY <1>1, <1>2, <1>3 DEF Joins, Holds
<1>5. ASSUME NEW k \in 1 .. Len(t) PROVE d[at + k] = t[k]
  <2>1. Len(s) + k \in 1 .. Len(j) /\ o + (Len(s) + k) = at + k
    BY <1>3
  <2> QED
    BY <1>1, <1>2, <2>1 DEF Joins, Holds
<1>6. o + Len(j) <= Len(d) /\ Len(d) \in Nat
  BY <1>2 DEF Holds
<1> QED
  BY <1>3, <1>4, <1>5, <1>6 DEF Holds

\* An octet, or two, and then the rest.
After(j, a, t) ==
  /\ j \in Bytes /\ Len(j) = Len(t) + 1 /\ Len(t) \in Nat
  /\ \A d \in Bytes : \A o \in Nat : \A at : at = o + 1 /\ Holds(d, o, j) => d[at] = a /\ Holds(d, at, t)
AfterTwo(j, a, b, t) ==
  /\ j \in Bytes /\ Len(j) = Len(t) + 2 /\ Len(t) \in Nat
  /\ \A d \in Bytes : \A o \in Nat : \A first, second :
       first = o + 1 /\ second = o + 2 /\ Holds(d, o, j) => d[first] = a /\ d[second] = b /\ Holds(d, second, t)

\* Wherever a run with one octet in front stands, the octet and the rest stand in turn.
LEMMA OneBefore ==
  ASSUME NEW a \in Octet, NEW t \in Bytes, NEW j, j = <<a>> \o t
  PROVE  After(j, a, t)
<1>1. <<a>> \in Bytes /\ Len(<<a>>) = 1 /\ <<a>>[1] = a
  BY FewOctets
<1> DEFINE s == <<a>>
<1> HIDE DEF s
<1>2. s \in Bytes /\ Len(s) = 1 /\ s[1] = a /\ j = s \o t
  BY <1>1 DEF s
<1>3. Joins(j, s, t)
  BY <1>2, JoinedBytes
<1>4. ASSUME NEW d \in Bytes, NEW o \in Nat, NEW at, at = o + 1, Holds(d, o, j)
      PROVE  d[at] = a /\ Holds(d, at, t)
  <2>1. Holds(d, o, s) /\ Holds(d, at, t)
    <3>1. at = o + Len(s)
      BY <1>2, <1>4
    <3> QED
      BY <1>2, <1>4, <3>1, HeldParts
  <2>2. d[at] = s[1]
    BY <1>2, <1>4, <2>1 DEF Holds
  <2> QED
    BY <1>2, <2>1, <2>2
<1> QED
  <2>1. j \in Bytes /\ Len(j) = Len(t) + 1 /\ Len(t) \in Nat
    BY <1>2, <1>3 DEF Joins
  <2> QED
    BY <1>4, <2>1 DEF After

\* The same of a run with two octets in front.
LEMMA TwoBefore ==
  ASSUME NEW a \in Octet, NEW b \in Octet, NEW t \in Bytes, NEW j, j = <<a, b>> \o t
  PROVE  AfterTwo(j, a, b, t)
<1>1. <<a, b>> \in Bytes /\ Len(<<a, b>>) = 2 /\ <<a, b>>[1] = a /\ <<a, b>>[2] = b
  BY FewOctets
<1> DEFINE s == <<a, b>>
<1> HIDE DEF s
<1>2. s \in Bytes /\ Len(s) = 2 /\ s[1] = a /\ s[2] = b /\ j = s \o t
  BY <1>1 DEF s
<1>3. Joins(j, s, t)
  BY <1>2, JoinedBytes
<1>4. ASSUME NEW d \in Bytes, NEW o \in Nat, NEW first, NEW second,
             first = o + 1, second = o + 2, Holds(d, o, j)
      PROVE  d[first] = a /\ d[second] = b /\ Holds(d, second, t)
  <2>1. Holds(d, o, s) /\ Holds(d, second, t)
    <3>1. second = o + Len(s)
      BY <1>2, <1>4
    <3> QED
      BY <1>2, <1>4, <3>1, HeldParts
  <2>2. d[first] = s[1] /\ d[second] = s[2]
    BY <1>2, <1>4, <2>1 DEF Holds
  <2> QED
    BY <1>2, <2>1, <2>2
<1> QED
  <2>1. j \in Bytes /\ Len(j) = Len(t) + 2 /\ Len(t) \in Nat
    BY <1>2, <1>3 DEF Joins
  <2> QED
    BY <1>4, <2>1 DEF AfterTwo

\* What the tested S-NSSAIs look like.
IsSnssai(s) == /\ s = [sst |-> s.sst, sd |-> s.sd] /\ s.sst \in Octet
               /\ s.sd # Absent => s.sd \in Bytes /\ Len(s.sd) = 3

\* What the tested S-NSSAIs look like.
LEMMA SnssaisAre == \A s \in Snssais : IsSnssai(s)
<1> SUFFICES ASSUME NEW s \in Snssais PROVE IsSnssai(s)
  OBVIOUS
<1>1. s.sst \in Octets /\ s.sd \in {Absent} \cup {<<o, 1, 2>> : o \in Octets} /\ s = [sst |-> s.sst, sd |-> s.sd]
  BY DEF Snssais
<1>2. s.sd # Absent => s.sd \in Bytes /\ Len(s.sd) = 3
  <2>1. 1 \in Octet /\ 2 \in Octet
    BY OctetsTyped
  <2>2. s.sd # Absent => \E o \in Octet : s.sd = <<o, 1, 2>>
    BY <1>1, OctetsTyped
  <2> QED
    BY <2>1, <2>2, FewOctets
<1> QED
  BY <1>1, <1>2, OctetsTyped DEF IsSnssai

\* Octets that are read as x, all of them, wherever they stand.
SnssaiFrom(e, s) ==
  /\ e \in Bytes /\ Len(e) \in {2, 5}
  /\ \A d \in Bytes : \A o \in Nat : \A at : at = o + 1 /\ Holds(d, o, e) =>
       DecodeSnssai(From(d, at)).value = s /\ DecodeSnssai(From(d, at)).used = Len(e)
CapabilityFrom(e, c) ==
  /\ e \in Bytes /\ Len(e) = Len(c) + 1 /\ Len(c) \in {2, 4}
  /\ \A d \in Bytes : \A o \in Nat : \A at : at = o + 1 /\ Holds(d, o, e) =>
       DecodeCapability(From(d, at)).value = c /\ DecodeCapability(From(d, at)).used = Len(e)

\* Wherever an encoded S-NSSAI stands it is decoded, and the reading goes on right behind it.
LEMMA SnssaiReadBack ==
  ASSUME NEW s, IsSnssai(s)
  PROVE  SnssaiFrom(EncodeSnssai(s), s)
<1>0. s.sst \in Octet /\ 1 \in Octet /\ 4 \in Octet /\ <<>> \in Bytes /\ Len(<<>>) = 0
  BY OctetsTyped DEF IsSnssai, Bytes
<1> DEFINE e == EncodeSnssai(s)
<1>1. CASE s.sd = Absent
  <2>1. e = <<1, s.sst>> /\ e \in Bytes /\ Len(e) = 2 /\ e[1] = 1 /\ e[2] = s.sst
    BY <1>0, <1>1, FewOctets DEF EncodeSnssai
  <2> HIDE DEF e
  <2>2. ASSUME NEW d \in Bytes, NEW o \in Nat, NEW at, at = o + 1, Holds(d, o, e)
        PROVE  DecodeSnssai(From(d, at)).value = s /\ DecodeSnssai(From(d, at)).used = Len(e)
    <3> DEFINE r == From(d, at)
    <3>1. \A k \in 1 .. Len(e) : r[k] = e[k]
      <4>1. Len(e) > 0
        BY <2>1
      <4> QED
        BY <2>2, <4>1, FromHolds
    <3> HIDE DEF r
    <3>2. r[1] = 1 /\ r[2] = s.sst
      BY <2>1, <3>1
    <3>3. DecodeSnssai(r) = [value |-> [sst |-> s.sst, sd |-> Absent], used |-> 2]
      BY <3>2 DEF DecodeSnssai
    <3> QED
      BY <1>1, <2>1, <3>3 DEF IsSnssai, r
  <2> QED
    BY <2>1, <2>2 DEF e, SnssaiFrom
<1>2. CASE s.sd # Absent
  <2>1. s.sd \in Bytes /\ Len(s.sd) = 3 /\ e = <<4, s.sst>> \o s.sd
    BY <1>2 DEF EncodeSnssai, IsSnssai
  <2> HIDE DEF e
  <2>2. AfterTwo(e, 4, s.sst, s.sd)
    BY <1>0, <2>1, TwoBefore
  <2>4. e \in Bytes /\ Len(e) = 5
    BY <2>1, <2>2 DEF AfterTwo
  <2>3. ASSUME NEW d \in Bytes, NEW o \in Nat, NEW at, at = o + 1, Holds(d, o, e)
        PROVE  DecodeSnssai(From(d, at)).value = s /\ DecodeSnssai(From(d, at)).used = Len(e)
    <3> DEFINE r == From(d, at)
    <3>1. r \in Bytes /\ Holds(r, 0, e)
      <4>1. Len(e) > 0
        BY <2>4
      <4> QED
        BY <2>3, <4>1, FromHolds
    <3> HIDE DEF r
    <3>2. r[1] = 4 /\ r[2] = s.sst /\ Holds(r, 2, s.sd)
      <4>1. 0 \in Nat /\ 1 = 0 + 1 /\ 2 = 0 + 2
        OBVIOUS
      <4> QED
        BY <2>2, <3>1, <4>1 DEF AfterTwo
    <3>3. SubSeq(r, 3, 5) = s.sd
      <4>1. SubSeq(r, 2 + 1, 2 + Len(s.sd)) = s.sd
        BY <2>1, <3>1, <3>2, HeldTaken
      <4>2. 2 + 1 = 3 /\ 2 + Len(s.sd) = 5
        BY <2>1
      <4> QED
        BY <4>1, <4>2
    <3>4. DecodeSnssai(r) = [value |-> [sst |-> s.sst, sd |-> s.sd], used |-> 5]
      BY <3>2, <3>3 DEF DecodeSnssai
    <3> QED
      BY <2>4, <3>4 DEF IsSnssai, r
  <2> QED
    BY <2>3, <2>4 DEF e, SnssaiFrom
<1> QED
  BY <1>1, <1>2

\* A security capability has two or four octets.
LEMMA CapabilitiesAre == \A c \in Capabilities : c \in Bytes /\ Len(c) \in {2, 4}
<1> SUFFICES ASSUME NEW c \in Capabilities PROVE c \in Bytes /\ Len(c) \in {2, 4}
  OBVIOUS
<1>1. 1 \in Octet
  BY OctetsTyped
<1>2. (\E a \in Octet : c = <<a, 1>>) \/ (\E a \in Octet : c = <<1, a, 1, 1>>)
  BY OctetsTyped DEF Capabilities
<1> QED
  BY <1>1, <1>2, FewOctets

\* Wherever an encoded capability stands it is decoded, and the reading goes on right behind it.
LEMMA CapabilityReadBack ==
  ASSUME NEW c \in Capabilities
  PROVE  CapabilityFrom(EncodeCapability(c), c)
<1>1. c \in Bytes /\ Len(c) \in {2, 4} /\ Len(c) \in Octet
  <2>1. 2 \in Octet /\ 4 \in Octet
    BY OctetsTyped
  <2>2. c \in Bytes /\ Len(c) \in {2, 4}
    BY CapabilitiesAre
  <2> QED
    BY <2>1, <2>2
<1> DEFINE e == EncodeCapability(c)
           n == Len(c)
<1>2. e = <<n>> \o c
  BY DEF EncodeCapability
<1> HIDE DEF e, n
<1>3. After(e, n, c) /\ e \in Bytes /\ Len(e) = n + 1
  <2>1. n \in Octet /\ n = Len(c) /\ c \in Bytes
    BY <1>1 DEF n
  <2>2. After(e, n, c)
    BY <1>2, <2>1, OneBefore
  <2> QED
    BY <2>1, <2>2 DEF After
<1>4. ASSUME NEW d \in Bytes, NEW o \in Nat, NEW at, at = o + 1, Holds(d, o, e)
      PROVE  DecodeCapability(From(d, at)).value = c /\ DecodeCapability(From(d, at)).used = n + 1
  <2> DEFINE r == From(d, at)
  <2>1. r \in Bytes /\ Holds(r, 0, e)
    <3>1. Len(e) > 0
      BY <1>1, <1>3 DEF n
    <3> QED
      BY <1>4, <3>1, FromHolds
  <2> HIDE DEF r
  <2>2. r[1] = n /\ Holds(r, 1, c)
    <3>1. 0 \in Nat /\ 1 = 0 + 1
      OBVIOUS
    <3> QED
      BY <1>3, <2>1, <3>1 DEF After
  <2>3. SubSeq(r, 2, 1 + n) = c
    <3>1. SubSeq(r, 1 + 1, 1 + Len(c)) = c
      BY <1>1, <2>1, <2>2, HeldTaken
    <3> QED
      BY <3>1 DEF n
  <2>4. DecodeCapability(r) = [value |-> c, used |-> n + 1]
    <3>1. n = 2 \/ n = 4
      BY <1>1 DEF n
    <3>2. CASE n = 2
      BY <2>2, <2>3, <3>2 DEF DecodeCapability
    <3>3. CASE n = 4
      BY <2>2, <2>3, <3>3 DEF DecodeCapability
    <3> QED
      BY <3>1, <3>2, <3>3
  <2> QED
    BY <2>4 DEF r
<1> QED
  BY <1>1, <1>3, <1>4 DEF e, n, CapabilityFrom

\* One run and two runs put together.
LEMMA FlattenFew ==
  /\ \A s \in Bytes : FlattenSeq(<<s>>) = s
  /\ \A s, t \in Bytes : FlattenSeq(<<s, t>>) = s \o t
<1>1. ASSUME NEW s \in Bytes PROVE FlattenSeq(<<s>>) = s
  <2>1. <<s>> \in Seq(Bytes) /\ Len(<<s>>) = 1 /\ <<s>>[1] = s
    OBVIOUS
  <2> DEFINE ss == <<s>>
  <2> HIDE DEF ss
  <2>2. ss \in Seq(Bytes) /\ Len(ss) = 1 /\ ss[1] = s
    BY <2>1 DEF ss
  <2>4. Len(ss) > 0
    BY <2>2
  <2>5. PICK Pre \in [1 .. Len(ss) -> Bytes] : Pre[1] = ss[1] /\ FlattenSeq(ss) = Pre[Len(ss)]
    BY <2>2, <2>4, FlattenGrows
  <2>3. FlattenSeq(ss) = s
    BY <2>2, <2>5
  <2> QED
    BY <2>3 DEF ss
<1>2. ASSUME NEW s \in Bytes, NEW t \in Bytes PROVE FlattenSeq(<<s, t>>) = s \o t
  <2>1. <<s, t>> \in Seq(Bytes) /\ Len(<<s, t>>) = 2 /\ <<s, t>>[1] = s /\ <<s, t>>[2] = t
    OBVIOUS
  <2> DEFINE ss == <<s, t>>
  <2> HIDE DEF ss
  <2>2. ss \in Seq(Bytes) /\ Len(ss) = 2 /\ ss[1] = s /\ ss[2] = t
    BY <2>1 DEF ss
  <2>3. PICK Pre \in [1 .. Len(ss) -> Bytes] : /\ Pre[1] = ss[1]
                                             /\ \A i \in 2 .. Len(ss) : Pre[i] = Pre[i - 1] \o ss[i]
                                             /\ FlattenSeq(ss) = Pre[Len(ss)]
    <3>1. Len(ss) > 0
      BY <2>2
    <3> QED
      BY <2>2, <3>1, FlattenGrows
  <2>4. Pre[2] = Pre[1] \o ss[2]
    <3>1. 2 \in 2 .. Len(ss) /\ 2 - 1 = 1
      BY <2>2
    <3> QED
      BY <2>3, <3>1
  <2>5. FlattenSeq(ss) = s \o t
    BY ONLY <2>2, <2>3, <2>4
  <2> QED
    BY ONLY <2>5 DEF ss
<1> QED
  BY <1>1, <1>2

\* A pair is one and one.
LEMMA PairJoined == \A x, y : <<x, y>> = <<x>> \o <<y>>
<1> SUFFICES ASSUME NEW x, NEW y PROVE <<x, y>> = <<x>> \o <<y>>
  OBVIOUS
<1> DEFINE T == {x, y}
           a == <<x>>
           b == <<y>>
           c == <<x, y>>
<1>1. /\ a \in Seq(T) /\ b \in Seq(T) /\ c \in Seq(T) /\ Len(a) = 1 /\ Len(b) = 1 /\ Len(c) = 2
      /\ a[1] = x /\ b[1] = y /\ c[1] = x /\ c[2] = y
  OBVIOUS
<1> HIDE DEF T, a, b, c
<1>2. /\ a \o b \in Seq(T) /\ Len(a \o b) = Len(a) + Len(b)
      /\ \A i \in 1 .. Len(a) + Len(b) : (a \o b)[i] = IF i <= Len(a) THEN a[i] ELSE b[i - Len(a)]
  BY <1>1, ConcatProperties
<1>3. Len(a \o b) = Len(c) /\ \A i \in 1 .. Len(c) : (a \o b)[i] = c[i]
  <2>1. 1 \in 1 .. Len(a) + Len(b) /\ 2 \in 1 .. Len(a) + Len(b)
    BY <1>1
  <2>2. (a \o b)[1] = a[1] /\ (a \o b)[2] = b[1]
    BY <1>1, <1>2, <2>1
  <2>3. \A i \in 1 .. Len(c) : i = 1 \/ i = 2
    BY <1>1
  <2> QED
    BY <1>1, <1>2, <2>2, <2>3
<1>4. a \o b = c
  BY <1>1, <1>2, <1>3, SeqEqual
<1> QED
  BY <1>4 DEF a, b, c

\* Where e stands, an NSSAI of its length is decoded to the list.
NssaiFrom(e, list) ==
  /\ e \in Bytes /\ Len(e) <= 10
  /\ \A d \in Bytes : \A o \in Nat : \A at, end : at = o + 1 /\ end = at + Len(e) /\ Holds(d, o, e) =>
       DecodeNssai(d, at, end) = [list |-> list, next |-> end]

\* From p on a reading finds this list, up to end.
Finds(read, p, list, end) == read[p] = [list |-> list, next |-> end]

\* One S-NSSAI, and a list after it.
LEMMA NssaiStep ==
  ASSUME NEW d \in Bytes, NEW end \in Nat, NEW read, NssaiReading(d, end, read),
         NEW o \in Nat, NEW p, p = o + 1, NEW e, NEW s, SnssaiFrom(e, s), Holds(d, o, e),
         NEW next, next = p + Len(e), next <= end,
         NEW list, Finds(read, next, list, end), NotDecoded # list, NEW all, all = <<s>> \o list
  PROVE  Finds(read, p, all, end)
<1>0. p \in Places
  BY DEF Places
<1>1. read[p] = NssaiFound(d, end, p, read)
  BY <1>0 DEF NssaiReading
<1>2. Len(e) \in {2, 5} /\ DecodeSnssai(From(d, p)).value = s /\ DecodeSnssai(From(d, p)).used = Len(e)
  BY DEF SnssaiFrom
<1>3. ~(p >= end) /\ ~(p + 1 > Len(d))
  <2>1. PICK n : n = Len(e)
    OBVIOUS
  <2>2. n \in Nat /\ n >= 2 /\ p = o + 1 /\ next = p + n /\ o + n <= Len(d) /\ Len(d) \in Nat /\ next <= end
    BY <1>2, <2>1 DEF Holds
  <2> QED
    BY ONLY <2>2, o \in Nat, end \in Nat
<1>4. p + DecodeSnssai(From(d, p)).used = next
  BY <1>2
<1>5. NssaiFound(d, end, p, read) = [read[next] EXCEPT !.list = IF @ = NotDecoded THEN NotDecoded ELSE <<s>> \o @]
  BY <1>2, <1>3, <1>4 DEF NssaiFound
<1>6. PICK was : was = [list |-> list, next |-> end]
  OBVIOUS
<1>7. read[p] = [was EXCEPT !.list = IF @ = NotDecoded THEN NotDecoded ELSE <<s>> \o @]
  BY <1>1, <1>5, <1>6 DEF Finds
<1>8. [was EXCEPT !.list = IF @ = NotDecoded THEN NotDecoded ELSE <<s>> \o @] = [was EXCEPT !.list = all]
  BY <1>6
<1>9. [was EXCEPT !.list = all] = [list |-> all, next |-> end]
  BY ONLY <1>6
<1> QED
  BY <1>7, <1>8, <1>9 DEF Finds

\* At its end the list is empty.
LEMMA NssaiEnd ==
  ASSUME NEW d, NEW end \in Places, NEW read, NssaiReading(d, end, read)
  PROVE  Finds(read, end, <<>>, end)
<1>1. end >= end
  BY DEF Places
<1> QED
  BY <1>1 DEF NssaiReading, NssaiFound, Finds

\* Wherever an encoded NSSAI stands, it is decoded to the list it encodes.
LEMMA NssaiReadBack ==
  ASSUME NEW list \in Lists
  PROVE  NssaiFrom(Nssai(list), list) /\ NotDecoded # list
<1>1. PICK s \in Snssais : list = <<s>> \/ list = <<s, [sst |-> 1, sd |-> Absent]>>
  BY DEF Lists
<1> DEFINE t == [sst |-> 1, sd |-> Absent]
<1>2. IsSnssai(s) /\ IsSnssai(t)
  <2>1. 1 \in Octet
    BY OctetsTyped
  <2> QED
    BY <2>1, SnssaisAre DEF IsSnssai
<1> HIDE DEF t
<1>3. list = <<s>> \/ list = <<s, t>>
  BY <1>1 DEF t
<1> DEFINE e == EncodeSnssai(s)
           f == EncodeSnssai(t)
<1>4. SnssaiFrom(e, s) /\ SnssaiFrom(f, t) /\ e \in Bytes /\ f \in Bytes /\ Len(e) \in {2, 5} /\ Len(f) \in {2, 5}
  BY <1>2, SnssaiReadBack DEF SnssaiFrom
<1>5. NotDecoded # list /\ NotDecoded # <<>> /\ NotDecoded # <<t>>
  BY NotDecodedAssumption DEF NotDecodedAssumption, t
<1>6. ASSUME list = <<s>> PROVE NssaiFrom(Nssai(list), list) /\ NotDecoded # list
  <2>2. Nssai(list) = e
    <3>1. [i \in 1 .. Len(list) |-> EncodeSnssai(list[i])] = <<e>>
      BY <1>6
    <3> HIDE DEF e
    <3> QED
      BY <1>4, <3>1, FlattenFew DEF Nssai
  <2> HIDE DEF e
  <2>3. ASSUME NEW d \in Bytes, NEW o \in Nat, NEW at, NEW end, at = o + 1, end = at + Len(e), Holds(d, o, e)
        PROVE  DecodeNssai(d, at, end) = [list |-> list, next |-> end]
    <3>1. at \in Places /\ end \in Places /\ end \in Nat
      BY <1>4, <2>3 DEF Places
    <3>2. PICK read : NssaiReading(d, end, read) /\ \A p : DecodeNssai(d, p, end) = read[p]
      BY <3>1, NssaiEquation
    <3>3. Finds(read, end, <<>>, end)
      BY <3>1, <3>2, NssaiEnd
    <3>4. <<s>> \o <<>> = list
      BY <1>6
    <3>5. end <= end /\ NotDecoded # <<>> /\ list = <<s>> \o <<>>
      BY <1>5, <3>1, <3>4 DEF Places
    <3>6. Finds(read, at, list, end)
      BY <1>4, <2>3, <3>1, <3>2, <3>3, <3>5, NssaiStep
    <3> QED
      BY <3>2, <3>6 DEF Finds
  <2>4. Len(e) <= 10
    <3>1. PICK n : n = Len(e)
      OBVIOUS
    <3>2. n = 2 \/ n = 5
      BY <1>4, <3>1
    <3>3. n <= 10
      BY ONLY <3>2
    <3> QED
      BY <3>1, <3>3
  <2> QED
    BY <1>4, <1>5, <2>2, <2>3, <2>4 DEF NssaiFrom
<1>7. ASSUME list = <<s, t>> PROVE NssaiFrom(Nssai(list), list) /\ NotDecoded # list
  <2>2. Nssai(list) = e \o f
    <3>1. [i \in 1 .. Len(list) |-> EncodeSnssai(list[i])] = <<e, f>>
      BY <1>7
    <3> HIDE DEF e, f
    <3> QED
      BY <1>4, <3>1, FlattenFew DEF Nssai
  <2> HIDE DEF e, f
  <2> DEFINE j == e \o f
  <2>3. j \in Bytes /\ Len(j) = Len(e) + Len(f)
    BY <1>4, HoldsParts
  <2>4. ASSUME NEW d \in Bytes, NEW o \in Nat, NEW at, NEW end, at = o + 1, end = at + Len(j), Holds(d, o, j)
        PROVE  DecodeNssai(d, at, end) = [list |-> list, next |-> end]
    <3> DEFINE past == at + Len(e)
               q == o + Len(e)
    <3>1. at \in Places /\ end \in Places /\ end \in Nat /\ past \in Places /\ past + Len(f) = end /\ at + Len(e) = past
          /\ q \in Nat /\ past = q + 1 /\ at + Len(e) <= end
      <4> HIDE DEF j
      <4> QED
        BY <1>4, <2>3, <2>4 DEF Places
    <3>2. Holds(d, o, e) /\ Holds(d, q, f)
      BY <1>4, <2>4, HeldParts
    <3> HIDE DEF q, past, j
    <3>3. PICK read : NssaiReading(d, end, read) /\ \A p : DecodeNssai(d, p, end) = read[p]
      BY <3>1, NssaiEquation
    <3>4. Finds(read, end, <<>>, end)
      BY <3>1, <3>3, NssaiEnd
    <3>5. /\ <<t>> = <<t>> \o <<>> /\ list = <<s>> \o <<t>>
          /\ end <= end /\ past <= end /\ end = past + Len(f) /\ past = at + Len(e)
      <4>1. end <= end /\ past <= end /\ end = past + Len(f) /\ past = at + Len(e)
        BY <1>4, <3>1 DEF Places
      <4>2. <<t>> = <<t>> \o <<>>
        OBVIOUS
      <4>3. <<s, t>> = <<s>> \o <<t>>
        <5>1. PICK x, y : x = s /\ y = t
          OBVIOUS
        <5>2. <<x, y>> = <<x>> \o <<y>>
          BY PairJoined
        <5> QED
          BY <5>1, <5>2
      <4> QED
        BY <1>7, <4>1, <4>2, <4>3
    <3>6. Finds(read, past, <<t>>, end)
      BY <1>4, <1>5, <3>1, <3>2, <3>3, <3>4, <3>5, NssaiStep
    <3>7. Finds(read, at, list, end)
      BY <1>4, <1>5, <2>4, <3>1, <3>2, <3>3, <3>5, <3>6, NssaiStep
    <3> QED
      BY <3>3, <3>7 DEF Finds
  <2>5. Len(j) <= 10
    <3> HIDE DEF j
    <3>1. PICK a, b : a = Len(e) /\ b = Len(f)
      OBVIOUS
    <3>2. (a = 2 \/ a = 5) /\ (b = 2 \/ b = 5) /\ Len(j) = a + b
      BY <1>4, <2>3, <3>1
    <3>3. a + b <= 10
      BY ONLY <3>2
    <3> QED
      BY <3>2, <3>3
  <2> QED
    BY <1>5, <2>2, <2>3, <2>4, <2>5 DEF NssaiFrom
<1> QED
  BY <1>3, <1>6, <1>7

-----------------------------------------------------------------------------
(* NAS: the optional elements are read back.                                *)

\* The octets of the optional elements, and what they are decoded to.
CapabilityOctets(c) == IF c = Absent THEN <<>> ELSE <<46>> \o EncodeCapability(c)
NssaiOctets(l) == IF l = Absent THEN <<>> ELSE Tlv(47, Nssai(l))
Elements(c, l) == [capability |-> c, nssai |-> l]

\* What the optional elements are decoded to is not the decoder's exception.
LEMMA ElementsDecoded ==
  \A c \in Capabilities \cup {Absent} : \A l \in Lists \cup {Absent} : Elements(c, l) # NotDecoded
BY NotDecodedAssumption DEF NotDecodedAssumption, Elements

\* Past the end there are no elements.
LEMMA NoElements ==
  ASSUME NEW d \in Bytes, NEW read, ElementsReading(d, read), NEW p, p = Len(d) + 1
  PROVE  read[p] = Elements(Absent, Absent)
<1>1. p \in Places /\ p > Len(d)
  BY DEF Bytes, Places
<1> QED
  BY <1>1 DEF ElementsReading, ElementsFoundAt, Elements

\* An NSSAI in front of what is decoded adds itself.
LEMMA NssaiElement ==
  ASSUME NEW d \in Bytes, NEW read, ElementsReading(d, read), NEW o \in Nat, NEW p, p = o + 1,
         NEW l \in Lists, NEW e, e = Tlv(47, Nssai(l)), Holds(d, o, e), NEW next, next = p + Len(e),
         NEW c, read[next] = Elements(c, Absent), Elements(c, Absent) # NotDecoded
  PROVE  read[p] = Elements(c, l)
<1> DEFINE v == Nssai(l)
           n == Len(v)
<1>1. NssaiFrom(v, l) /\ NotDecoded # l /\ v \in Bytes /\ Len(v) <= 10 /\ Len(v) \in Nat
  <2>1. NssaiFrom(v, l) /\ NotDecoded # l
    BY NssaiReadBack
  <2> QED
    BY <2>1 DEF NssaiFrom, Bytes
<1> HIDE DEF v
<1>2. n \in Octet /\ 47 \in Octet
  BY <1>1, OctetsTyped
<1>3. e = <<47, n>> \o v
  BY DEF Tlv, v
<1>4. AfterTwo(e, 47, n, v)
  BY <1>1, <1>2, <1>3, TwoBefore
<1> DEFINE second == o + 2
           third == p + 2
<1>5. d[p] = 47 /\ d[second] = n /\ Holds(d, second, v) /\ Len(e) = n + 2
  BY <1>4 DEF AfterTwo
<1>6. /\ second \in Nat /\ third = second + 1 /\ next = third + n /\ p + 1 = second /\ p \in Places
      /\ o + Len(e) <= Len(d) /\ Len(d) \in Nat
  BY <1>1, <1>5 DEF Holds, Places
<1> HIDE DEF second, third, n
<1>7. DecodeNssai(d, third, next) = [list |-> l, next |-> next]
  BY <1>1, <1>5, <1>6 DEF NssaiFrom, n
<1>8. ~(p > Len(d)) /\ ~(p + 1 > Len(d)) /\ ~(d[p] >= 128) /\ d[p] # 46 /\ d[p] = 47
  <2>1. n \in Nat
    BY <1>1 DEF n
  <2>2. ~(p > Len(d)) /\ ~(p + 1 > Len(d))
    BY <1>5, <1>6, <2>1
  <2> QED
    BY <1>5, <2>2
<1>9. ElementsFoundAt(d, p, read) =
        LET all == DecodeNssai(d, p + 2, p + 2 + d[p + 1])  rest == read[all.next] IN
        IF all.list = NotDecoded \/ rest = NotDecoded THEN NotDecoded
        ELSE [rest EXCEPT !.nssai = IF @ = Absent THEN all.list ELSE @]
  BY <1>8 DEF ElementsFoundAt
<1>10. DecodeNssai(d, p + 2, p + 2 + d[p + 1]) = [list |-> l, next |-> next]
  BY <1>5, <1>6, <1>7 DEF third
<1>11. ElementsFoundAt(d, p, read) = [Elements(c, Absent) EXCEPT !.nssai = IF @ = Absent THEN l ELSE @]
  BY <1>1, <1>9, <1>10
<1>12. [Elements(c, Absent) EXCEPT !.nssai = IF @ = Absent THEN l ELSE @] = Elements(c, l)
  BY DEF Elements
<1> QED
  BY <1>6, <1>11, <1>12 DEF ElementsReading

\* A capability in front of what is decoded adds itself.
LEMMA CapabilityElement ==
  ASSUME NEW d \in Bytes, NEW read, ElementsReading(d, read), NEW o \in Nat, NEW p, p = o + 1,
         NEW c \in Capabilities, c # Absent, NEW e, e = CapabilityOctets(c), Holds(d, o, e), NEW next, next = p + Len(e),
         NEW l, read[next] = Elements(Absent, l), Elements(Absent, l) # NotDecoded
  PROVE  read[p] = Elements(c, l)
<1> DEFINE v == EncodeCapability(c)
           n == Len(v)
<1>1. CapabilityFrom(v, c) /\ v \in Bytes /\ n \in Nat /\ n > 0
  <2>1. CapabilityFrom(v, c)
    BY CapabilityReadBack
  <2>2. Len(c) = 2 \/ Len(c) = 4
    BY <2>1 DEF CapabilityFrom
  <2> HIDE DEF v
  <2> QED
    BY <2>1, <2>2 DEF CapabilityFrom
<1>2. 46 \in Octet /\ e = <<46>> \o v
  BY OctetsTyped DEF CapabilityOctets
<1> HIDE DEF v
<1>4. After(e, 46, v)
  BY <1>1, <1>2, OneBefore
<1>5. d[p] = 46 /\ Holds(d, p, v) /\ Len(e) = n + 1
  BY <1>4 DEF After
<1> DEFINE at == p + 1
<1>6. /\ p \in Nat /\ p \in Places /\ at + n = next
      /\ o + Len(e) <= Len(d) /\ Len(d) \in Nat
  BY <1>1, <1>5 DEF Holds, Places
<1>7. DecodeCapability(From(d, at)).value = c /\ DecodeCapability(From(d, at)).used = n
  BY <1>1, <1>5, <1>6 DEF CapabilityFrom
<1> HIDE DEF n
<1>8. ~(p > Len(d)) /\ ~(p + 1 > Len(d)) /\ ~(d[p] >= 128) /\ d[p] = 46
  <2>2. ~(p > Len(d)) /\ ~(p + 1 > Len(d))
    BY <1>1, <1>5, <1>6
  <2> QED
    BY <1>5, <2>2
<1>9. ElementsFoundAt(d, p, read) =
        LET one == DecodeCapability(From(d, p + 1))  rest == read[p + 1 + one.used] IN
        IF rest = NotDecoded THEN NotDecoded
        ELSE [rest EXCEPT !.capability = IF @ = Absent THEN one.value ELSE @]
  BY <1>8 DEF ElementsFoundAt
<1>10. p + 1 + DecodeCapability(From(d, p + 1)).used = next /\ DecodeCapability(From(d, p + 1)).value = c
  BY <1>6, <1>7
<1>11. ElementsFoundAt(d, p, read) = [Elements(Absent, l) EXCEPT !.capability = IF @ = Absent THEN c ELSE @]
  BY <1>9, <1>10
<1>12. [Elements(Absent, l) EXCEPT !.capability = IF @ = Absent THEN c ELSE @] = Elements(c, l)
  BY DEF Elements
<1> QED
  BY <1>6, <1>11, <1>12 DEF ElementsReading

\* The optional elements are octets.
LEMMA ElementOctetsAre ==
  /\ \A c \in Capabilities \cup {Absent} : CapabilityOctets(c) \in Bytes /\ Len(CapabilityOctets(c)) \in Nat
  /\ \A l \in Lists \cup {Absent} : NssaiOctets(l) \in Bytes /\ Len(NssaiOctets(l)) \in Nat
<1>1. <<>> \in Bytes /\ Len(<<>>) \in Nat /\ 46 \in Octet /\ 47 \in Octet
  BY OctetsTyped DEF Bytes
<1>2. ASSUME NEW c \in Capabilities, c # Absent PROVE CapabilityOctets(c) \in Bytes
  <2> DEFINE v == EncodeCapability(c)
  <2>1. v \in Bytes
    BY CapabilityReadBack DEF CapabilityFrom
  <2>2. CapabilityOctets(c) = <<46>> \o v
    BY <1>2 DEF CapabilityOctets
  <2> HIDE DEF v
  <2> QED
    BY <1>1, <2>1, <2>2, OneBefore DEF After
<1>3. ASSUME NEW l \in Lists, l # Absent PROVE NssaiOctets(l) \in Bytes
  <2> DEFINE v == Nssai(l)
             n == Len(v)
  <2>1. v \in Bytes /\ n <= 10 /\ n \in Nat
    BY NssaiReadBack DEF NssaiFrom, Bytes
  <2>2. NssaiOctets(l) = <<47, n>> \o v
    BY <1>3 DEF NssaiOctets, Tlv
  <2> HIDE DEF v, n
  <2>3. n \in Octet
    BY <2>1, OctetsTyped
  <2> QED
    <3>1. PICK j : j = NssaiOctets(l)
      OBVIOUS
    <3>2. AfterTwo(j, 47, n, v)
      BY <1>1, <2>1, <2>2, <2>3, <3>1, TwoBefore
    <3> QED
      BY <3>1, <3>2 DEF AfterTwo
<1>4. \A s \in Bytes : Len(s) \in Nat
  BY DEF Bytes
<1>5. CapabilityOctets(Absent) = <<>> /\ NssaiOctets(Absent) = <<>>
  BY DEF CapabilityOctets, NssaiOctets
<1> QED
  BY <1>1, <1>2, <1>3, <1>4, <1>5

\* The optional elements, to the end of the message.
LEMMA ElementsReadBack ==
  ASSUME NEW c \in Capabilities \cup {Absent}, NEW l \in Lists \cup {Absent}, NEW d \in Bytes,
         NEW o \in Nat, Holds(d, o, CapabilityOctets(c)), NEW q, q = o + Len(CapabilityOctets(c)),
         Holds(d, q, NssaiOctets(l)), Len(d) = q + Len(NssaiOctets(l)), NEW p, p = o + 1
  PROVE  DecodeElements(d, p) = Elements(c, l)
<1> DEFINE a == CapabilityOctets(c)
           b == NssaiOctets(l)
<1>1. PICK read : ElementsReading(d, read) /\ \A x : DecodeElements(d, x) = read[x]
  BY ElementsEquation
<1>2. Len(a) \in Nat /\ Len(b) \in Nat /\ Len(<<>>) = 0
  BY ElementOctetsAre
<1> DEFINE past == q + 1
           end == Len(d) + 1
<1>3. q \in Nat /\ end = past + Len(b) /\ past = p + Len(a)
  <2> HIDE DEF a, b
  <2>1. q = o + Len(a) /\ Len(d) = q + Len(b)
    BY DEF a, b
  <2> QED
    BY <1>2, <2>1
<1>4. read[end] = Elements(Absent, Absent)
  BY <1>1, NoElements
<1>5. read[past] = Elements(Absent, l)
  <2>1. CASE l = Absent
    <3>1. Len(b) = 0
      BY <1>2, <2>1 DEF NssaiOctets
    <3> HIDE DEF b
    <3>2. end = past
      BY <1>2, <1>3, <3>1
    <3> QED
      BY <1>4, <2>1, <3>2
  <2>2. CASE l # Absent
    <3>1. b = Tlv(47, Nssai(l)) /\ l \in Lists /\ Holds(d, q, b)
      BY <2>2 DEF NssaiOctets
    <3>2. Elements(Absent, Absent) # NotDecoded
      BY ElementsDecoded
    <3> HIDE DEF b, past, end
    <3>3. past = q + 1
      BY DEF past
    <3> QED
      BY <1>1, <1>3, <1>4, <3>1, <3>2, <3>3, NssaiElement
  <2> QED
    BY <2>1, <2>2
<1>6. read[p] = Elements(c, l)
  <2>1. CASE c = Absent
    <3>1. Len(a) = 0
      BY <1>2, <2>1 DEF CapabilityOctets
    <3> HIDE DEF a
    <3>2. past = p
      BY <1>3, <3>1
    <3> QED
      BY <1>5, <2>1, <3>2
  <2>2. CASE c # Absent
    <3>1. a = CapabilityOctets(c) /\ c \in Capabilities /\ c # Absent /\ Holds(d, o, a)
      BY <2>2
    <3>2. Elements(Absent, l) # NotDecoded
      BY ElementsDecoded
    <3> HIDE DEF a, past
    <3>3. past = p + Len(a) /\ read[past] = Elements(Absent, l) /\ ElementsReading(d, read)
      BY <1>1, <1>3, <1>5
    <3>4. d \in Bytes /\ o \in Nat /\ p = o + 1
      OBVIOUS
    <3> QED
      BY ONLY <3>1, <3>2, <3>3, <3>4, CapabilityElement
  <2> QED
    BY <2>1, <2>2
<1> QED
  BY <1>1, <1>6

-----------------------------------------------------------------------------
(* NAS: a registration.                                                     *)

\* Two digits of four bits are read from their octet.
LEMMA NibblesRead ==
  \A i, k \in 0 .. 15 : (i * 16 + k) % 16 = k /\ (i * 16 + k) \div 16 = i /\ i * 16 + k \in Nat /\ i * 16 + k <= 255
OBVIOUS

\* Wherever j stands, these are its first two octets.
Starts(j, a, b) ==
  \A d \in Bytes : \A o \in Nat : Holds(d, o, j) => d[o + 1] = a /\ d[o + 2] = b

\* What stands in a part stands in the whole.
LEMMA HoldsWithin ==
  ASSUME NEW d, NEW j, NEW o \in Nat, NEW t, Holds(d, 0, j), Holds(j, o, t)
  PROVE  Holds(d, o, t)
<1>1. /\ Len(j) \in Nat /\ Len(d) \in Nat /\ Len(j) <= Len(d) /\ Len(t) \in Nat /\ o + Len(t) <= Len(j)
      /\ \A k \in 1 .. Len(j) : d[0 + k] = j[k]
      /\ \A k \in 1 .. Len(t) : j[o + k] = t[k]
  BY DEF Holds
<1>2. ASSUME NEW k \in 1 .. Len(t) PROVE d[o + k] = t[k]
  <2>1. o + k \in 1 .. Len(j) /\ 0 + (o + k) = o + k
    BY <1>1
  <2> QED
    BY <1>1, <2>1
<1>3. o + Len(t) <= Len(d)
  BY <1>1
<1> QED
  BY <1>1, <1>2, <1>3 DEF Holds

\* Identifier, length and value in turn.
LEMMA TlvMade ==
  ASSUME NEW iei \in Octet, NEW v \in Bytes, Len(v) <= 255
  PROVE  AfterTwo(Tlv(iei, v), iei, Len(v), v) /\ Tlv(iei, v) \in Bytes
<1>1. PICK n, j : n = Len(v) /\ j = Tlv(iei, v)
  OBVIOUS
<1>2. n \in Octet
  <2>1. n \in Nat /\ n <= 255
    BY <1>1 DEF Bytes
  <2> QED
    BY <2>1, OctetsTyped
<1>3. j = <<iei, n>> \o v
  BY <1>1 DEF Tlv
<1>4. AfterTwo(j, iei, n, v)
  BY <1>2, <1>3, TwoBefore
<1> QED
  BY <1>1, <1>4 DEF AfterTwo

\* Four runs joined stand one after the other.
LEMMA FourPieces ==
  ASSUME NEW a \in Bytes, NEW b \in Bytes, NEW c \in Bytes, NEW d \in Bytes
  PROVE  InTurn(a \o b \o c \o d, a, b, c, d, <<>>)
<1>1. PICK j, e : j = a \o b \o c \o d /\ e = <<>>
  OBVIOUS
<1>2. e \in Bytes
  BY <1>1 DEF Bytes
<1>3. InTurn(a \o b \o c \o d \o e, a, b, c, d, e)
  BY <1>2, FivePieces
<1>4. j \in Bytes
  <2>1. PICK k, l : k = a \o b /\ l = k \o c
    OBVIOUS
  <2>2. k \in Bytes
    BY <2>1, Joined
  <2>3. l \in Bytes
    BY <2>1, <2>2, Joined
  <2>4. j = l \o d
    BY <1>1, <2>1
  <2> QED
    BY <2>3, <2>4, Joined
<1>5. j \o e = j
  BY <1>1, <1>4, Joined
<1> QED
  BY <1>1, <1>3, <1>5

\* A SUCI is ten octets, of which the first says so and the second says what it is.
LEMMA SuciEncoded ==
  ASSUME NEW s \in Sucis
  PROVE  EncodeSuci(s) \in Bytes /\ Len(EncodeSuci(s)) = 10 /\ Starts(EncodeSuci(s), 9, 16)
<1>1. s.plmn \in Plmns /\ \E o \in Octets : s.output = <<o>>
  BY DEF Sucis
<1> DEFINE a == <<16>>  b == EncodePlmn(s.plmn)  c == <<0, 0, 0, 0>>  e == s.output
           content == a \o b \o c \o e
           n == Len(content)
<1>2. /\ a \in Bytes /\ Len(a) = 1 /\ a[1] = 16 /\ b \in Bytes /\ Len(b) = 3 /\ c \in Bytes /\ Len(c) = 4
      /\ e \in Bytes /\ Len(e) = 1
  <2>1. 0 \in Octet /\ 16 \in Octet
    BY OctetsTyped
  <2>2. c \in Bytes /\ Len(c) = 4
    BY <2>1, FewOctets
  <2>3. b \in Bytes /\ Len(b) = 3
    BY <1>1, PlmnReadBack
  <2>4. e \in Bytes /\ Len(e) = 1
    BY <1>1, OctetsTyped, FewOctets
  <2>5. a \in Bytes /\ Len(a) = 1 /\ a[1] = 16
    BY <2>1, FewOctets
  <2> QED
    BY <2>2, <2>3, <2>4, <2>5
<1> HIDE DEF a, b, c, e
<1>3. InTurn(content, a, b, c, e, <<>>)
  BY <1>2, FourPieces
<1> HIDE DEF content
<1>4. content \in Bytes /\ n = 9 /\ Holds(content, 0, a) /\ Len(<<>>) = 0
  BY <1>2, <1>3 DEF InTurn
<1>5. content[1] = 16
  BY <1>2, <1>4 DEF Holds
<1>6. EncodeSuci(s) = <<n>> \o content
  BY DEF EncodeSuci, content, a, b, c, e
<1> HIDE DEF n
<1>7. PICK j : j = EncodeSuci(s)
  OBVIOUS
<1>8. After(j, 9, content)
  <2>1. 9 \in Octet /\ j = <<9>> \o content
    BY <1>4, <1>6, <1>7, OctetsTyped
  <2> QED
    BY <1>4, <2>1, OneBefore
<1>9. j \in Bytes /\ Len(j) = 10
  BY <1>4, <1>8 DEF After, n
<1>10. ASSUME NEW d \in Bytes, NEW o \in Nat, NEW at, NEW next, at = o + 1, next = o + 2, Holds(d, o, j)
       PROVE  d[at] = 9 /\ d[next] = 16
  <2>1. d[at] = 9 /\ Holds(d, at, content)
    BY <1>8, <1>10 DEF After
  <2>2. Len(content) = 9 /\ next = at + 1
    BY <1>4, <1>10 DEF n
  <2>3. d[next] = content[1]
    BY <2>1, <2>2 DEF Holds
  <2> QED
    BY <1>5, <2>1, <2>3
<1>11. Starts(j, 9, 16)
  BY <1>10, Zenon DEF Starts
<1> QED
  BY <1>7, <1>9, <1>11

\* A registration by SUCI, octet by octet.
SuciRegistration(ksi, regType, s, c, l) ==
  Header(Mobility, PlainNas, RegistrationRequest) \o <<ksi * 16 + regType>> \o EncodeSuci(s)
  \o CapabilityOctets(c) \o NssaiOctets(l)
RegistrationFound(d, ksi, regType, s, c, l) ==
  /\ d \in Bytes /\ Len(d) >= 14 /\ Holds(d, 0, Header(Mobility, PlainNas, RegistrationRequest))
  /\ d[4] \div 16 = ksi /\ d[4] % 16 = regType /\ d[5] = 9 /\ d[6] = 16 /\ SubSeq(d, 5, 14) = EncodeSuci(s)
  /\ DecodeElements(d, 15) = Elements(c, l)

\* Where the parts of a registration by SUCI stand.
LEMMA RegistrationOctets ==
  ASSUME NEW ksi \in 0 .. 15, NEW regType \in {1, 4}, NEW s \in Sucis,
         NEW c \in Capabilities \cup {Absent}, NEW l \in Lists \cup {Absent}, NEW d,
         d = SuciRegistration(ksi, regType, s, c, l)
  PROVE  RegistrationFound(d, ksi, regType, s, c, l)
<1> DEFINE h == Header(Mobility, PlainNas, RegistrationRequest)
           x == ksi * 16 + regType
           id == EncodeSuci(s)
           a == CapabilityOctets(c)
           b == NssaiOctets(l)
           first == <<x>>
<1>1. x \in Nat /\ x <= 255 /\ x \div 16 = ksi /\ x % 16 = regType
  <2>1. \A i, k \in 0 .. 15 : (i * 16 + k) % 16 = k /\ (i * 16 + k) \div 16 = i /\ i * 16 + k \in Nat /\ i * 16 + k <= 255
    BY NibblesRead
  <2>2. ksi \in 0 .. 15 /\ regType \in 0 .. 15
    OBVIOUS
  <2> QED
    BY ONLY <2>1, <2>2 DEF x
<1>2. h \in Bytes /\ Len(h) = 3
  <2>1. 126 \in Octet /\ 0 \in Octet /\ 65 \in Octet
    BY OctetsTyped
  <2> QED
    BY <2>1, FewOctets DEF Header, Mobility, PlainNas, RegistrationRequest
<1> HIDE DEF x
<1>3. first \in Bytes /\ Len(first) = 1 /\ first[1] = x
  BY <1>1, OctetsTyped, FewOctets
<1>4. /\ id \in Bytes /\ Len(id) = 10 /\ a \in Bytes /\ b \in Bytes /\ Len(a) \in Nat /\ Len(b) \in Nat
      /\ Starts(id, 9, 16)
  BY SuciEncoded, ElementOctetsAre
<1> HIDE DEF first, h, id, a, b
<1>5. InTurn(d, h, first, id, a, b)
  <2>1. InTurn(h \o first \o id \o a \o b, h, first, id, a, b)
    BY <1>2, <1>3, <1>4, FivePieces
  <2>2. d = h \o first \o id \o a \o b
    BY DEF h, first, id, a, b, x, SuciRegistration
  <2> QED
    BY <2>1, <2>2
<1>6. PICK m, n : m = Len(a) /\ n = Len(b)
  OBVIOUS
<1>7. /\ d \in Bytes /\ Len(d) = 14 + m + n /\ Holds(d, 0, h) /\ Holds(d, 3, first) /\ Holds(d, 4, id)
      /\ Holds(d, 14, a) /\ Holds(d, 14 + m, b) /\ m \in Nat /\ n \in Nat
  BY <1>2, <1>3, <1>4, <1>5, <1>6 DEF InTurn
<1>8. d[4] = x
  BY <1>3, <1>7 DEF Holds
<1>9. d[5] = 9 /\ d[6] = 16
  <2>1. PICK o, at, next : o = 4 /\ at = 5 /\ next = 6
    OBVIOUS
  <2>2. o \in Nat /\ at = o + 1 /\ next = o + 2 /\ Holds(d, o, id) /\ d \in Bytes
    BY <1>7, <2>1
  <2>3. d[at] = 9 /\ d[next] = 16
    <3>1. d[o + 1] = 9 /\ d[o + 2] = 16
      BY <1>4, <2>2 DEF Starts
    <3> QED
      BY <2>2, <3>1
  <2> QED
    BY <2>1, <2>3
<1>10. SubSeq(d, 5, 14) = id
  <2>1. SubSeq(d, 4 + 1, 4 + Len(id)) = id
    BY <1>4, <1>7, HeldTaken
  <2>2. 4 + 1 = 5 /\ 4 + Len(id) = 14
    BY <1>4
  <2> QED
    BY <2>1, <2>2
<1>11. DecodeElements(d, 15) = Elements(c, l)
  <2>1. PICK o, p, q : o = 14 /\ p = 15 /\ q = 14 + m
    OBVIOUS
  <2>2. o \in Nat /\ p = o + 1 /\ q = o + Len(a) /\ Len(d) = q + Len(b) /\ Holds(d, o, a) /\ Holds(d, q, b)
    BY <1>6, <1>7, <2>1
  <2>3. DecodeElements(d, p) = Elements(c, l)
    <3>1. /\ Holds(d, o, CapabilityOctets(c)) /\ q = o + Len(CapabilityOctets(c))
          /\ Holds(d, q, NssaiOctets(l)) /\ Len(d) = q + Len(NssaiOctets(l)) /\ d \in Bytes
      BY <1>7, <2>2 DEF a, b
    <3>2. c \in Capabilities \cup {Absent} /\ l \in Lists \cup {Absent}
      OBVIOUS
    <3> QED
      BY ONLY <2>2, <3>1, <3>2, ElementsReadBack
  <2> QED
    BY <2>1, <2>3
<1>12. Len(d) >= 14
  BY <1>7
<1> QED
  BY <1>1, <1>7, <1>8, <1>9, <1>10, <1>11, <1>12 DEF h, id, RegistrationFound

\* The octets of a 5G-GUTI.
GutiOf(plmn, amf, tmsi) ==
  [kind |-> "guti", plmn |-> plmn, region |-> amf \div 65536, set |-> (amf \div 64) % 1024, pointer |-> amf % 64,
   tmsi |-> tmsi]

\* A 5G-GUTI is read back from where it starts.
LEMMA GutiReadBack ==
  ASSUME NEW g \in Gutis
  PROVE  /\ EncodeGuti(g) \in Bytes /\ Len(EncodeGuti(g)) = 13
         /\ \A d \in Bytes : Holds(d, 0, EncodeGuti(g)) => DecodeGuti(d) = g
<1>1. /\ g = [kind |-> "guti", plmn |-> g.plmn, region |-> g.region, set |-> g.set, pointer |-> g.pointer,
              tmsi |-> g.tmsi]
      /\ g.plmn \in Plmns /\ g.region \in Octets /\ g.set \in {0, 1023} /\ g.pointer \in {0, 63}
      /\ \E o \in Octets : g.tmsi = <<o, 0, 0, 1>>
  BY DEF Gutis
<1> DEFINE amf == g.region * 65536 + g.set * 64 + g.pointer
           x == amf \div 65536
           y == (amf \div 256) % 256
           z == amf % 256
           a == <<119, 11, 47>>   b == EncodePlmn(g.plmn)   c == <<x, y, z>>   e == g.tmsi
           j == EncodeGuti(g)
<1>2. PICK r \in Octet : r = g.region
  BY <1>1, OctetsTyped
<1>3. r \in Nat /\ r <= 255
  BY OctetsTyped
<1>4. x \in Octet /\ y \in Octet /\ z \in Octet /\ x * 65536 + y * 256 + z = amf
  <2>1. /\ x \in Nat /\ x <= 255 /\ y \in Nat /\ y <= 255 /\ z \in Nat /\ z <= 255
        /\ x * 65536 + y * 256 + z = amf
    BY <1>1, <1>2, <1>3, SMT
  <2> HIDE DEF x, y, z, amf
  <2> QED
    BY <2>1, OctetsTyped
<1>5. amf \div 65536 = g.region /\ (amf \div 64) % 1024 = g.set /\ amf % 64 = g.pointer
  BY <1>1, <1>2, <1>3, SMT
<1> HIDE DEF amf, x, y, z
<1>6. /\ a \in Bytes /\ Len(a) = 3 /\ b \in Bytes /\ Len(b) = 3 /\ c \in Bytes /\ Len(c) = 3 /\ e \in Bytes /\ Len(e) = 4
      /\ c[1] = x /\ c[2] = y /\ c[3] = z
  <2>1. 119 \in Octet /\ 11 \in Octet /\ 47 \in Octet /\ 0 \in Octet /\ 1 \in Octet
    BY OctetsTyped
  <2>2. a \in Bytes /\ Len(a) = 3
    BY <2>1, FewOctets
  <2>3. b \in Bytes /\ Len(b) = 3
    BY <1>1, PlmnReadBack
  <2>4. c \in Bytes /\ Len(c) = 3 /\ c[1] = x /\ c[2] = y /\ c[3] = z
    BY <1>4, FewOctets
  <2>5. e \in Bytes /\ Len(e) = 4
    BY <1>1, <2>1, OctetsTyped, FewOctets
  <2> QED
    BY <2>2, <2>3, <2>4, <2>5
<1>7. j = a \o b \o c \o e
  BY DEF EncodeGuti, amf, x, y, z
<1> HIDE DEF a, b, c, e, j
<1>8. InTurn(j, a, b, c, e, <<>>)
  BY <1>6, <1>7, FourPieces
<1>9. j \in Bytes /\ Len(j) = 13 /\ Holds(j, 3, b) /\ Holds(j, 6, c) /\ Holds(j, 9, e) /\ Len(<<>>) = 0
  BY <1>6, <1>8 DEF InTurn
<1>10. ASSUME NEW d \in Bytes, Holds(d, 0, j) PROVE DecodeGuti(d) = g
  <2>4. Holds(d, 3, b) /\ Holds(d, 6, c) /\ Holds(d, 9, e)
    BY <1>9, <1>10, HoldsWithin
  <2>5. SubSeq(d, 4, 6) = b /\ SubSeq(d, 10, 13) = e
    <3>1. SubSeq(d, 3 + 1, 3 + Len(b)) = b /\ SubSeq(d, 9 + 1, 9 + Len(e)) = e
      BY <1>6, <2>4, HeldTaken
    <3>2. 3 + 1 = 4 /\ 3 + Len(b) = 6 /\ 9 + 1 = 10 /\ 9 + Len(e) = 13
      BY <1>6
    <3> QED
      BY <3>1, <3>2
  <2>6. d[7] = x /\ d[8] = y /\ d[9] = z
    BY <1>6, <2>4 DEF Holds
  <2>7. d[7] * 65536 + d[8] * 256 + d[9] = amf
    BY <1>4, <2>6
  <2>8. DecodePlmn(b) = g.plmn
    BY <1>1, PlmnReadBack DEF b
  <2>10. PICK w : w = d[7] * 65536 + d[8] * 256 + d[9]
    OBVIOUS
  <2>11. DecodeGuti(d) = GutiOf(DecodePlmn(SubSeq(d, 4, 6)), w, SubSeq(d, 10, 13))
    BY <2>10 DEF DecodeGuti, GutiOf
  <2>9. DecodeGuti(d) = GutiOf(g.plmn, amf, e)
    <3>1. w = amf
      BY <2>7, <2>10
    <3> QED
      BY <2>5, <2>8, <2>11, <3>1
  <2> QED
    BY <1>1, <1>5, <2>9 DEF e, GutiOf
<1> QED
  BY <1>9, <1>10 DEF j

-----------------------------------------------------------------------------
(* NAS: the other messages, and the codec.                                  *)

\* A message that starts with this header.
Headed(d, epd, second, type) == d \in Bytes /\ Holds(d, 0, Header(epd, second, type))

\* A message without security header is dispatched on its third octet.
LEMMA HeadedRead ==
  ASSUME NEW d, NEW epd, NEW type, Headed(d, epd, PlainNas, type)
  PROVE  /\ d[1] = epd /\ d[2] % 16 = PlainNas /\ d[3] = type /\ Len(d) >= 3 /\ Len(d) \in Nat
         /\ DecodeMessage(d) =
              IF epd = Mobility /\ type \notin MobilityTypes THEN NotDecoded
              ELSE IF epd = Session /\ type \notin SessionTypes THEN NotDecoded
              ELSE IF epd = Mobility /\ type = RegistrationRequest THEN RegistrationReport(d)
              ELSE IF epd = Mobility /\ type = AuthenticationResponse THEN ResponseReport(d)
              ELSE [type |-> type]
<1> DEFINE h == Header(epd, PlainNas, type)
<1>1. Len(h) = 3 /\ h[1] = epd /\ h[2] = PlainNas /\ h[3] = type
  BY DEF Header
<1>2. Holds(d, 0, h)
  BY DEF Headed
<1> HIDE DEF h
<1>3. d[1] = epd /\ d[2] = PlainNas /\ d[3] = type /\ Len(d) >= 3 /\ Len(d) \in Nat
  BY <1>1, <1>2 DEF Holds
<1>4. d[2] % 16 = PlainNas
  BY <1>3 DEF PlainNas
<1>5. ~(Len(d) < 3)
  BY <1>3
<1> QED
  BY <1>3, <1>4, <1>5 DEF DecodeMessage

\* What follows the header leaves it alone.
LEMMA HeadedStill ==
  ASSUME NEW d, NEW epd, NEW second, NEW type, Headed(d, epd, second, type), NEW u \in Bytes
  PROVE  Headed(d \o u, epd, second, type)
BY HoldsParts, HoldsStill DEF Headed

\* The header heads itself.
LEMMA HeaderHeaded ==
  ASSUME NEW epd \in Octet, NEW second \in Octet, NEW type \in Octet
  PROVE  /\ Headed(Header(epd, second, type), epd, second, type) /\ Header(epd, second, type) \in Bytes
         /\ Len(Header(epd, second, type)) = 3
<1>1. PICK h : h = Header(epd, second, type)
  OBVIOUS
<1>2. h \in Bytes /\ Len(h) = 3
  BY <1>1, FewOctets DEF Header
<1>3. Holds(h, 0, h)
  BY <1>2 DEF Holds
<1> QED
  BY <1>1, <1>2, <1>3 DEF Headed

\* An optional element is octets.
LEMMA OptionalMade ==
  ASSUME NEW iei \in Octet, NEW v, v # Absent => v \in Bytes /\ Len(v) <= 255
  PROVE  Optional(iei, v) \in Bytes
<1>1. <<>> \in Bytes
  BY DEF Bytes
<1> QED
  BY <1>1, TlvMade DEF Optional

\* The messages, by type.
IsRequest(m) ==
  /\ m.type = RegistrationRequest /\ m.ksi \in Ksis /\ m.regType \in {1, 4}
  /\ m.identity \in Sucis \cup {g \in Gutis : g.set = 0}
  /\ m.capability \in Capabilities \cup {Absent} /\ m.nssai \in Lists \cup {Absent}
IsAccept(m) ==
  /\ m.type = RegistrationAccept /\ m.result = 1 /\ m.guti \in Gutis \cup {Absent}
  /\ m.nssai \in Lists \cup {Absent}
IsResponse(m) ==
  /\ m.type = AuthenticationResponse /\ m = [type |-> AuthenticationResponse, res |-> m.res]
  /\ \E o, p \in Octets : m.res = <<o, p>>
IsSecurity(m) ==
  \/ m.type = AuthenticationRequest /\ m.ksi \in Ksis /\ m.abba = <<0, 0>> /\ m.rand = <<1>> /\ m.autn = <<2>>
  \/ m.type = SecurityModeCommand /\ m.algorithms \in Octets /\ m.ksi \in Ksis /\ m.capability \in Capabilities
     /\ m.abba \in {Absent, <<0, 0>>}
  \/ m.type = SecurityModeComplete /\ m.imeisv \in {Absent, <<1>>}
IsSessionStart(m) ==
  \/ m.type = EstablishmentRequest /\ m.session \in SessionIds /\ m.pti \in Octets
  \/ m.type = EstablishmentAccept /\ m.session \in SessionIds /\ m.pti \in Octets /\ m.rules = <<1>>
     /\ m.address \in {Absent, <<1, 10, 0, 0, 1>>}

\* Every NAS message is of one of five kinds.
LEMMA MessagesAre ==
  \A m \in Messages : IsRequest(m) \/ IsAccept(m) \/ IsResponse(m) \/ IsSecurity(m) \/ IsSessionStart(m)
<1> SUFFICES ASSUME NEW m \in Messages
             PROVE  IsRequest(m) \/ IsAccept(m) \/ IsResponse(m) \/ IsSecurity(m) \/ IsSessionStart(m)
  OBVIOUS
<1>1. CASE m \in [type : {RegistrationRequest}, ksi : Ksis, regType : {1, 4},
                  identity : Sucis \cup {g \in Gutis : g.set = 0},
                  capability : Capabilities \cup {Absent}, nssai : {Absent} \cup Lists]
  BY <1>1 DEF IsRequest
<1>2. CASE m \in [type : {RegistrationAccept}, result : {1}, guti : Gutis \cup {Absent}, nssai : {Absent} \cup Lists]
  BY <1>2 DEF IsAccept
<1>3. CASE m \in [type : {AuthenticationRequest}, ksi : Ksis, abba : {<<0, 0>>}, rand : {<<1>>}, autn : {<<2>>}]
  BY <1>3 DEF IsSecurity
<1>4. CASE m \in [type : {AuthenticationResponse}, res : {<<o, p>> : o \in Octets, p \in Octets}]
  <2>1. m = [type |-> m.type, res |-> m.res] /\ m.type = AuthenticationResponse /\ \E o, p \in Octets : m.res = <<o, p>>
    BY <1>4
  <2> QED
    BY <2>1 DEF IsResponse
<1>5. CASE m \in [type : {SecurityModeCommand}, algorithms : Octets, ksi : Ksis, capability : Capabilities,
                  abba : {Absent, <<0, 0>>}]
  BY <1>5 DEF IsSecurity
<1>6. CASE m \in [type : {SecurityModeComplete}, imeisv : {Absent, <<1>>}]
  BY <1>6 DEF IsSecurity
<1>7. CASE m \in [type : {EstablishmentRequest}, session : SessionIds, pti : Octets]
  BY <1>7 DEF IsSessionStart
<1>8. CASE m \in [type : {EstablishmentAccept}, session : SessionIds, pti : Octets, rules : {<<1>>},
                  address : {Absent, <<1, 10, 0, 0, 1>>}]
  BY <1>8 DEF IsSessionStart
<1> QED
  BY <1>1, <1>2, <1>3, <1>4, <1>5, <1>6, <1>7, <1>8 DEF Messages

\* What each type is encoded to, and what is asked of the other side.
LEMMA EncodedAs ==
  ASSUME NEW m
  PROVE  /\ m.type = RegistrationRequest => Encode(m) = EncodeRegistrationRequest(m)
         /\ m.type = RegistrationAccept => Encode(m) = EncodeRegistrationAccept(m)
         /\ m.type = AuthenticationRequest => Encode(m) = EncodeAuthenticationRequest(m)
         /\ m.type = AuthenticationResponse => Encode(m) = EncodeAuthenticationResponse(m)
         /\ m.type = SecurityModeCommand => Encode(m) = EncodeSecurityModeCommand(m)
         /\ m.type = SecurityModeComplete => Encode(m) = EncodeSecurityModeComplete(m)
         /\ m.type = EstablishmentRequest => Encode(m) = EncodeEstablishmentRequest(m)
         /\ m.type = EstablishmentAccept => Encode(m) = EncodeEstablishmentAccept(m)
BY DEF Encode, RegistrationRequest, RegistrationAccept, AuthenticationRequest, AuthenticationResponse,
       SecurityModeCommand, SecurityModeComplete, EstablishmentRequest, EstablishmentAccept

\* The protocols and types are octets, and those decoded further are no others.
LEMMA TypesDiffer ==
  /\ RegistrationRequest \in Octet /\ RegistrationAccept \in Octet /\ AuthenticationRequest \in Octet
  /\ AuthenticationResponse \in Octet /\ SecurityModeCommand \in Octet /\ SecurityModeComplete \in Octet
  /\ EstablishmentRequest \in Octet /\ EstablishmentAccept \in Octet
  /\ Mobility \in Octet /\ Session \in Octet /\ PlainNas \in Octet /\ Mobility # Session
  /\ \A t \in {RegistrationAccept, AuthenticationRequest, SecurityModeCommand, SecurityModeComplete,
               EstablishmentRequest, EstablishmentAccept} :
       t # RegistrationRequest /\ t # AuthenticationResponse
  /\ RegistrationRequest # AuthenticationResponse
  /\ EstablishmentRequest # RegistrationAccept /\ EstablishmentAccept # RegistrationAccept
BY OctetsTyped DEF RegistrationRequest, RegistrationAccept, AuthenticationRequest, AuthenticationResponse,
       SecurityModeCommand, SecurityModeComplete, EstablishmentRequest, EstablishmentAccept, Mobility, Session, PlainNas

\* The codec knows the types of the messages it encodes.
LEMMA TypesKnown ==
  /\ \A t \in {RegistrationRequest, RegistrationAccept, AuthenticationRequest, AuthenticationResponse,
               SecurityModeCommand, SecurityModeComplete} : t \in MobilityTypes
  /\ \A t \in {EstablishmentRequest, EstablishmentAccept} : t \in SessionTypes
BY DEF RegistrationRequest, RegistrationAccept, AuthenticationRequest, AuthenticationResponse,
       SecurityModeCommand, SecurityModeComplete, EstablishmentRequest, EstablishmentAccept, MobilityTypes, SessionTypes

\* A message of which only the type is taken.
LEMMA TypeIsRead ==
  ASSUME NEW m \in Messages, m.type # RegistrationRequest, m.type # AuthenticationResponse, NEW epd,
         (epd = Mobility /\ m.type \in MobilityTypes) \/ (epd = Session /\ m.type \in SessionTypes),
         NEW d, Headed(d, epd, PlainNas, m.type)
  PROVE  Understood(m, DecodeMessage(d))
<1>1. DecodeMessage(d) = [type |-> m.type]
  BY HeadedRead, TypesDiffer
<1> QED
  BY <1>1 DEF Understood

\* So with one of mobility.
LEMMA TypeOfMobility ==
  ASSUME NEW m \in Messages, m.type # RegistrationRequest, m.type # AuthenticationResponse, m.type \in MobilityTypes,
         NEW d, Headed(d, Mobility, PlainNas, m.type)
  PROVE  Understood(m, DecodeMessage(d))
<1>1. PICK epd : epd = Mobility
  OBVIOUS
<1>2. (epd = Mobility /\ m.type \in MobilityTypes) \/ (epd = Session /\ m.type \in SessionTypes)
  BY <1>1
<1>3. Headed(d, epd, PlainNas, m.type)
  BY <1>1
<1> QED
  BY <1>2, <1>3, TypeIsRead

\* A registration by SUCI is decoded to what was encoded.
LEMMA RegistrationUnderstood ==
  ASSUME NEW m, IsRequest(m), m.identity.kind # "guti"
  PROVE  Understood(m, DecodeMessage(Encode(m))) /\ Recovered(m, DecodeRegistrationRequest(Encode(m)))
<1>1. m.identity \in Sucis /\ m.ksi \in 0 .. 15 /\ m.regType \in {1, 4} /\ m.type = RegistrationRequest
  <2>1. /\ m.type = RegistrationRequest /\ m.regType \in {1, 4} /\ m.ksi \in Ksis
        /\ m.identity \in Sucis \/ m.identity \in Gutis
    BY DEF IsRequest
  <2>2. m.identity \in Gutis => m.identity.kind = "guti"
    BY DEF Gutis
  <2>3. m.ksi \in 0 .. 15
    BY <2>1, OctetsTyped
  <2> QED
    BY <2>1, <2>2, <2>3
<1>2. PICK s, c, l, ksi, regType : s = m.identity /\ c = m.capability /\ l = m.nssai /\ ksi = m.ksi /\ regType = m.regType
  OBVIOUS
<1>3. c \in Capabilities \cup {Absent} /\ l \in Lists \cup {Absent}
  BY <1>2 DEF IsRequest
<1>4. EncodeIdentity(m.identity) = EncodeSuci(s)
  BY <1>2 DEF EncodeIdentity
<1>5. PICK d : d = Encode(m)
  OBVIOUS
<1>6. d = SuciRegistration(ksi, regType, s, c, l)
  <2>1. d = EncodeRegistrationRequest(m)
    BY <1>1, <1>5, EncodedAs
  <2> QED
    BY <1>2, <1>4, <2>1 DEF EncodeRegistrationRequest, CapabilityOctets, NssaiOctets, SuciRegistration
<1>7. /\ d \in Bytes /\ Len(d) >= 14 /\ Holds(d, 0, Header(Mobility, PlainNas, RegistrationRequest))
      /\ d[4] \div 16 = ksi /\ d[4] % 16 = regType /\ d[5] = 9 /\ d[6] = 16 /\ SubSeq(d, 5, 14) = EncodeSuci(s)
      /\ DecodeElements(d, 15) = Elements(c, l)
  <2>1. ksi \in 0 .. 15 /\ regType \in {1, 4} /\ s \in Sucis
    BY <1>1, <1>2
  <2>2. RegistrationFound(d, ksi, regType, s, c, l)
    BY <1>3, <1>6, <2>1, RegistrationOctets
  <2> QED
    BY <2>2 DEF RegistrationFound
<1>8. DecodeMessage(d) = RegistrationReport(d)
  BY <1>7, HeadedRead, TypesKnown, TypesDiffer DEF Headed
<1> DEFINE R == [type |-> RegistrationRequest, ksi |-> ksi, regType |-> regType, identity |-> EncodeSuci(s),
                 capability |-> c, nssai |-> l]
<1>9. DecodeRegistrationRequest(d) = R
  <2>1. SubSeq(d, 5, IF 5 + d[5] > Len(d) THEN Len(d) ELSE 5 + d[5]) = EncodeSuci(s)
    <3>1. (IF 5 + d[5] > Len(d) THEN Len(d) ELSE 5 + d[5]) = 14
      BY <1>7 DEF Bytes
    <3> QED
      BY <1>7, <3>1
  <2>2. DecodeElements(d, IF 6 + d[5] > Len(d) THEN Len(d) + 1 ELSE 6 + d[5]) = Elements(c, l)
    <3>1. (IF 6 + d[5] > Len(d) THEN Len(d) + 1 ELSE 6 + d[5]) = 15
      BY <1>7 DEF Bytes
    <3> QED
      BY <1>7, <3>1
  <2>3. (d[6] \div 16) % 8 # 2
    BY <1>7
  <2>4. Elements(c, l) # NotDecoded /\ Elements(c, l).capability = c /\ Elements(c, l).nssai = l
    BY <1>3, ElementsDecoded DEF Elements
  <2> QED
    BY <1>7, <2>1, <2>2, <2>3, <2>4 DEF DecodeRegistrationRequest
<1>10. R # NotDecoded
  <2>1. ksi \in Ksis /\ regType \in {1, 4} /\ EncodeSuci(s) \in {EncodeSuci(x) : x \in Sucis}
    BY <1>1, <1>2 DEF IsRequest
  <2> QED
    BY <1>3, <2>1, NotDecodedAssumption DEF NotDecodedAssumption
<1>14. DecodeMessage(d) = [type |-> RegistrationRequest, ksi |-> ksi, regType |-> regType]
  <2>1. regType \in RegistrationTypes
    BY <1>1, <1>2 DEF RegistrationTypes
  <2> QED
    BY <1>8, <1>9, <1>10, <2>1 DEF RegistrationReport
<1>15. Understood(m, DecodeMessage(Encode(m)))
  <2>1. DecodeMessage(Encode(m)) = [type |-> m.type, ksi |-> m.ksi, regType |-> m.regType]
    BY <1>1, <1>2, <1>5, <1>14
  <2>2. m.type = RegistrationRequest /\ m.type # AuthenticationResponse
    BY <1>1, TypesDiffer
  <2> QED
    BY <2>1, <2>2, Zenon DEF Understood
<1>11. PICK r : r = DecodeRegistrationRequest(Encode(m))
  OBVIOUS
<1>12. /\ r # NotDecoded /\ r.type = m.type /\ r.ksi = m.ksi /\ r.regType = m.regType /\ r.capability = m.capability
       /\ r.nssai = m.nssai /\ r.identity = EncodeSuci(m.identity)
  BY <1>1, <1>2, <1>5, <1>9, <1>10, <1>11
<1>13. Recovered(m, r)
  <2>1. <<r.ksi, r.regType, r.capability, r.nssai>> = <<m.ksi, m.regType, m.capability, m.nssai>>
    BY <1>12
  <2> QED
    BY <1>12, <2>1, Zenon DEF Recovered
<1> QED
  BY <1>11, <1>13, <1>15

\* A value given or missing is octets, if it is when given.
LEMMA OneOrNone ==
  ASSUME NEW v, NEW w, v \in {Absent, w}, w \in Bytes, NEW n \in Nat, Len(w) = n, n <= 255
  PROVE  v # Absent => v \in Bytes /\ Len(v) <= 255
<1>1. v # Absent => v = w
  OBVIOUS
<1>2. Len(w) <= 255
  OBVIOUS
<1> QED
  BY <1>1, <1>2, w \in Bytes

\* The one element of an authentication response is found.
LEMMA ResReadBack ==
  ASSUME NEW d \in Bytes, NEW v \in Bytes, Len(v) = 2, Holds(d, 3, Tlv(45, v)), Len(d) = 7
  PROVE  DecodeRes(d, 4) = v
<1>1. 45 \in Octet /\ Len(v) <= 255
  BY OctetsTyped
<1>2. PICK e, n, at, past, o : e = Tlv(45, v) /\ n = Len(v) /\ at = 4 /\ past = 5 /\ o = 3
  OBVIOUS
<1>3. AfterTwo(e, 45, n, v)
  BY <1>1, <1>2, TlvMade
<1>4. d[at] = 45 /\ d[past] = n /\ Holds(d, past, v)
  <2>1. at = o + 1 /\ past = o + 2 /\ o \in Nat /\ Holds(d, o, e)
    BY <1>2
  <2> QED
    BY <1>3, <2>1 DEF AfterTwo
<1>5. d[4] = 45 /\ d[5] = 2 /\ Holds(d, 5, v)
  BY <1>2, <1>4
<1>6. SubSeq(d, 6, 7) = v
  <2>1. SubSeq(d, 5 + 1, 5 + Len(v)) = v
    BY <1>5, HeldTaken
  <2>2. 5 + 1 = 6 /\ 5 + Len(v) = 7
    OBVIOUS
  <2> QED
    BY <2>1, <2>2
<1>7. PICK read : ResReading(d, read) /\ \A o1 : DecodeRes(d, o1) = read[o1]
  BY ResEquation
<1>8. read[8] = Absent
  <2>1. 8 \in Places /\ 8 > Len(d)
    BY DEF Places
  <2> QED
    BY <1>7, <2>1 DEF ResReading, ResFound
<1>9. ResAt(d, 4) = v
  <2>1. PICK p, next : p = 4 /\ next = p + 2 + d[p + 1]
    OBVIOUS
  <2>2. next = 8 /\ p + 2 = 6
    BY <1>5, <2>1
  <2>3. (IF next > Len(d) THEN Len(d) ELSE next - 1) = 7
    BY <2>2
  <2>4. ResAt(d, p) = SubSeq(d, p + 2, IF next > Len(d) THEN Len(d) ELSE next - 1)
    BY <2>1 DEF ResAt
  <2>5. ResAt(d, p) = SubSeq(d, 6, 7)
    BY ONLY <2>2, <2>3, <2>4
  <2> QED
    BY <1>6, <2>1, <2>5
<1>10. read[4] = v
  <2>1. 4 \in Places /\ ~(4 > Len(d)) /\ ~(4 + 1 > Len(d)) /\ 4 + 2 + d[4 + 1] = 8 /\ d[4] # 120
    BY <1>5 DEF Places
  <2>2. read[4] = ResFound(d, 4, read)
    BY <1>7, <2>1 DEF ResReading
  <2> QED
    BY <1>5, <1>8, <1>9, <2>1, <2>2 DEF ResFound
<1> QED
  BY <1>7, <1>10

\* An authentication response is decoded to what was encoded.
LEMMA ResponseUnderstood ==
  ASSUME NEW m, IsResponse(m)
  PROVE  Understood(m, DecodeMessage(Encode(m)))
<1>1. m.type = AuthenticationResponse /\ m = [type |-> AuthenticationResponse, res |-> m.res]
  BY DEF IsResponse
<1>2. m.res \in Bytes /\ Len(m.res) = 2
  BY OctetsTyped, FewOctets DEF IsResponse
<1> DEFINE h == Header(Mobility, PlainNas, AuthenticationResponse)
           e == Tlv(45, m.res)
<1>3. Encode(m) = h \o e
  BY <1>1, EncodedAs DEF EncodeAuthenticationResponse
<1>4. Headed(h, Mobility, PlainNas, AuthenticationResponse) /\ h \in Bytes /\ Len(h) = 3
  BY TypesDiffer, HeaderHeaded
<1>5. e \in Bytes /\ Len(e) = 4
  <2>1. 45 \in Octet /\ Len(m.res) <= 255
    BY <1>2, OctetsTyped
  <2> QED
    <3>1. AfterTwo(e, 45, Len(m.res), m.res) /\ e \in Bytes
      BY <1>2, <2>1, TlvMade
    <3>2. Len(e) = Len(m.res) + 2
      BY <3>1 DEF AfterTwo
    <3>3. Len(e) = 4
      BY ONLY <1>2, <3>2
    <3> QED
      BY <3>1, <3>3
<1> HIDE DEF h, e
<1>6. PICK d : d = h \o e
  OBVIOUS
<1>7. /\ d \in Bytes /\ Len(d) = 7 /\ Holds(d, 3, e)
      /\ Headed(d, Mobility, PlainNas, AuthenticationResponse)
  <2>1. d \in Bytes /\ Len(d) = Len(h) + Len(e) /\ Holds(d, Len(h), e)
    BY <1>4, <1>5, <1>6, HoldsParts
  <2> QED
    BY <1>4, <1>5, <1>6, <2>1, HeadedStill
<1>8. DecodeMessage(d) = ResponseReport(d)
  BY <1>7, HeadedRead, TypesDiffer, TypesKnown
<1>9. DecodeRes(d, 4) = m.res
  BY <1>2, <1>7, ResReadBack DEF e
<1>11. m.res # NotDecoded /\ m # NotDecoded /\ m.res # <<>>
  <2>1. m \in Messages /\ m.res \in {<<o, p>> : o \in Octets, p \in Octets}
    BY DEF IsResponse, Messages
  <2>2. m.res # <<>>
    BY <1>2
  <2> QED
    BY <1>1, <2>1, <2>2, NotDecodedAssumption DEF NotDecodedAssumption
<1>12. DecodeAuthenticationResponse(d) = m
  BY <1>1, <1>9, <1>11 DEF DecodeAuthenticationResponse
<1>10. DecodeMessage(d) = m
  BY <1>1, <1>8, <1>11, <1>12 DEF ResponseReport
<1> QED
  BY <1>1, <1>3, <1>6, <1>10, TypesDiffer, Zenon DEF Understood

\* What a registration is answered with, and where the 5G-GUTI stands in it.
LEMMA AcceptOctets ==
  ASSUME NEW m, IsAccept(m)
  PROVE  /\ Headed(Encode(m), Mobility, PlainNas, RegistrationAccept)
         /\ m.guti # Absent => DecodeGuti(From(Encode(m), 5)) = m.guti
<1>1. m.type = RegistrationAccept /\ m.result = 1 /\ m.guti \in Gutis \cup {Absent} /\ m.nssai \in Lists \cup {Absent}
  BY DEF IsAccept
<1> DEFINE h == Header(Mobility, PlainNas, RegistrationAccept)
           x == <<m.result % 8>>
           g == IF m.guti = Absent THEN <<>> ELSE EncodeGuti(m.guti)
           l == IF m.nssai = Absent THEN <<>> ELSE Tlv(21, Nssai(m.nssai))
<1>2. Encode(m) = h \o x \o g \o l
  BY <1>1, EncodedAs DEF EncodeRegistrationAccept
<1>3. Headed(h, Mobility, PlainNas, RegistrationAccept) /\ h \in Bytes /\ Len(h) = 3
  BY TypesDiffer, HeaderHeaded
<1>4. x \in Bytes /\ Len(x) = 1
  <2>1. m.result % 8 = 1 /\ 1 \in Octet
    BY <1>1, OctetsTyped
  <2> QED
    BY <2>1, FewOctets
<1>5. g \in Bytes /\ (m.guti # Absent => g = EncodeGuti(m.guti) /\ m.guti \in Gutis /\ Len(g) = 13)
  <2>1. <<>> \in Bytes
    BY DEF Bytes
  <2> QED
    BY <1>1, <2>1, GutiReadBack
<1>6. l \in Bytes
  <2>1. <<>> \in Bytes /\ 21 \in Octet
    BY OctetsTyped DEF Bytes
  <2>2. ASSUME m.nssai # Absent PROVE Tlv(21, Nssai(m.nssai)) \in Bytes
    <3>1. PICK v : v = Nssai(m.nssai)
      OBVIOUS
    <3>2. v \in Bytes /\ Len(v) <= 10
      BY <1>1, <2>2, <3>1, NssaiReadBack DEF NssaiFrom
    <3>3. Len(v) <= 255
      BY <3>2 DEF Bytes
    <3> QED
      BY <2>1, <3>1, <3>2, <3>3, TlvMade
  <2> QED
    BY <2>1, <2>2
<1> HIDE DEF h, x, g, l
<1>7. PICK j, k, d : j = h \o x /\ k = j \o g /\ d = k \o l
  OBVIOUS
<1>8. /\ Headed(j, Mobility, PlainNas, RegistrationAccept) /\ Len(j) = 4 /\ j \in Bytes
      /\ Headed(k, Mobility, PlainNas, RegistrationAccept) /\ k \in Bytes /\ Holds(k, 4, g)
      /\ Headed(d, Mobility, PlainNas, RegistrationAccept) /\ d \in Bytes
  <2>1. Headed(j, Mobility, PlainNas, RegistrationAccept) /\ Len(j) = 4 /\ j \in Bytes
    <3>1. Headed(h \o x, Mobility, PlainNas, RegistrationAccept)
      BY <1>3, <1>4, HeadedStill
    <3>2. h \o x \in Bytes /\ Len(h \o x) = Len(h) + Len(x)
      BY <1>3, <1>4, HoldsParts
    <3> QED
      BY <1>3, <1>4, <1>7, <3>1, <3>2
  <2>2. Headed(k, Mobility, PlainNas, RegistrationAccept) /\ k \in Bytes /\ Holds(k, 4, g)
    <3>1. k \in Bytes /\ Holds(k, Len(j), g)
      BY <1>5, <1>7, <2>1, HoldsParts
    <3> QED
      BY <1>5, <1>7, <2>1, <3>1, HeadedStill
  <2> QED
    BY <1>6, <1>7, <2>1, <2>2, HeadedStill, HoldsParts
<1>9. d = Encode(m)
  BY <1>2, <1>7
<1>10. ASSUME m.guti # Absent PROVE DecodeGuti(From(d, 5)) = m.guti
  <2>1. Holds(d, 4, g) /\ Len(g) > 0 /\ g = EncodeGuti(m.guti) /\ m.guti \in Gutis
    <3>1. Holds(k \o l, 4, g)
      BY <1>6, <1>8, HoldsStill
    <3>2. g = EncodeGuti(m.guti) /\ m.guti \in Gutis /\ Len(g) = 13
      BY <1>5, <1>10
    <3>3. Holds(d, 4, g)
      BY <1>7, <3>1
    <3>4. Len(g) > 0
      BY <3>2
    <3> QED
      BY <3>2, <3>3, <3>4
  <2>2. PICK o, at : o = 4 /\ at = 5
    OBVIOUS
  <2>3. From(d, at) \in Bytes /\ Holds(From(d, at), 0, g)
    <3>1. o \in Nat /\ at = o + 1 /\ Holds(d, o, g)
      BY <2>1, <2>2
    <3> QED
      BY <1>8, <2>1, <3>1, FromHolds
  <2>4. DecodeGuti(From(d, at)) = m.guti
    BY <2>1, <2>3, GutiReadBack
  <2> QED
    BY <2>2, <2>4
<1> QED
  BY <1>8, <1>9, <1>10

\* Of the other messages only the header is read.
LEMMA SecurityHeaded ==
  ASSUME NEW m, IsSecurity(m)
  PROVE  Headed(Encode(m), Mobility, PlainNas, m.type)
<1>0. /\ 0 \in Octet /\ 1 \in Octet /\ 2 \in Octet /\ 32 \in Octet /\ 33 \in Octet /\ 56 \in Octet /\ 119 \in Octet
      /\ \A k \in Ksis : k \in Octet
  <2>1. \A k \in 0 .. 15 : k \in Nat /\ k <= 255
    OBVIOUS
  <2> QED
    BY <2>1, OctetsTyped
<1> DEFINE h == Header(Mobility, PlainNas, m.type)
<1>1. m.type \in Octet
  BY TypesDiffer DEF IsSecurity
<1>2. Headed(h, Mobility, PlainNas, m.type)
  BY <1>1, TypesDiffer, HeaderHeaded
<1>3. CASE m.type = AuthenticationRequest
  <2>1. m.ksi \in Ksis /\ m.abba = <<0, 0>> /\ m.rand = <<1>> /\ m.autn = <<2>>
    BY <1>3 DEF IsSecurity, AuthenticationRequest, SecurityModeCommand, SecurityModeComplete
  <2>2. m.abba \in Bytes /\ Len(m.abba) = 2 /\ m.rand \in Bytes /\ m.autn \in Bytes /\ Len(m.autn) = 1
    BY <1>0, <2>1, FewOctets
  <2> DEFINE a == <<m.ksi, Len(m.abba)>>   b == <<33>>   c == Tlv(32, m.autn)
  <2>3. a \in Bytes /\ b \in Bytes
    BY <1>0, <2>1, <2>2, FewOctets
  <2>4. c \in Bytes
    <3>1. Len(m.autn) <= 255
      BY <2>2
    <3> QED
      BY <1>0, <2>2, <3>1, TlvMade
  <2>5. Encode(m) = h \o a \o m.abba \o b \o m.rand \o c
    BY <1>3, EncodedAs DEF EncodeAuthenticationRequest
  <2> HIDE DEF h, a, b, c
  <2> QED
    BY <1>2, <2>2, <2>3, <2>4, <2>5, HeadedStill
<1>4. CASE m.type = SecurityModeCommand
  <2>1. m.algorithms \in Octets /\ m.ksi \in Ksis /\ m.capability \in Capabilities /\ m.abba \in {Absent, <<0, 0>>}
    BY <1>4 DEF IsSecurity, AuthenticationRequest, SecurityModeCommand, SecurityModeComplete
  <2> DEFINE a == <<m.algorithms, m.ksi>>   b == EncodeCapability(m.capability)   c == Optional(56, m.abba)
  <2>2. a \in Bytes
    BY <1>0, <2>1, OctetsTyped, FewOctets
  <2>3. b \in Bytes
    BY <2>1, CapabilityReadBack DEF CapabilityFrom
  <2>4. c \in Bytes
    <3>1. <<0, 0>> \in Bytes /\ Len(<<0, 0>>) = 2
      BY <1>0, FewOctets
    <3>2. m.abba # Absent => m.abba \in Bytes /\ Len(m.abba) <= 255
      <4>1. PICK w, n : w = <<0, 0>> /\ n = 2
        OBVIOUS
      <4>2. n \in Nat /\ n <= 255
        BY <4>1
      <4>3. w \in Bytes /\ Len(w) = n /\ m.abba \in {Absent, w}
        BY <2>1, <3>1, <4>1
      <4> QED
        BY <4>2, <4>3, OneOrNone
    <3> QED
      BY <1>0, <3>2, OptionalMade
  <2>5. Encode(m) = h \o a \o b \o c
    BY <1>4, EncodedAs DEF EncodeSecurityModeCommand
  <2> HIDE DEF h, a, b, c
  <2> QED
    BY <1>2, <2>2, <2>3, <2>4, <2>5, HeadedStill
<1>5. CASE m.type = SecurityModeComplete
  <2>1. m.imeisv \in {Absent, <<1>>}
    BY <1>5 DEF IsSecurity, AuthenticationRequest, SecurityModeCommand, SecurityModeComplete
  <2> DEFINE c == Optional(119, m.imeisv)
  <2>2. c \in Bytes
    <3>1. <<1>> \in Bytes /\ Len(<<1>>) = 1
      BY <1>0, FewOctets
    <3>2. m.imeisv # Absent => m.imeisv \in Bytes /\ Len(m.imeisv) <= 255
      <4>1. PICK w, n : w = <<1>> /\ n = 1
        OBVIOUS
      <4>2. n \in Nat /\ n <= 255
        BY <4>1
      <4>3. w \in Bytes /\ Len(w) = n /\ m.imeisv \in {Absent, w}
        BY <2>1, <3>1, <4>1
      <4> QED
        BY <4>2, <4>3, OneOrNone
    <3> QED
      BY <1>0, <3>2, OptionalMade
  <2>3. Encode(m) = h \o c
    BY <1>5, EncodedAs DEF EncodeSecurityModeComplete
  <2> HIDE DEF h, c
  <2> QED
    BY <1>2, <2>2, <2>3, HeadedStill
<1> QED
  BY <1>3, <1>4, <1>5 DEF IsSecurity

\* Without a session id a 5GSM message has its header where it is looked for.
LEMMA EstablishmentHeaded ==
  ASSUME NEW m, IsSessionStart(m), m.session = 0
  PROVE  Headed(Encode(m), Session, PlainNas, m.type)
<1>0. /\ 0 \in Octet /\ 1 \in Octet /\ 6 \in Octet /\ 10 \in Octet /\ 17 \in Octet /\ 41 \in Octet
      /\ 255 \in Octet /\ 145 \in Octet /\ 161 \in Octet /\ m.pti \in Octet
  BY OctetsTyped DEF IsSessionStart
<1> DEFINE h == Header(Session, m.session, m.type)
<1>1. m.type \in Octet /\ m.session = PlainNas
  BY TypesDiffer DEF IsSessionStart, PlainNas
<1>2. Headed(h, Session, PlainNas, m.type)
  BY <1>1, TypesDiffer, HeaderHeaded
<1>3. CASE m.type = EstablishmentRequest
  <2> DEFINE a == <<m.pti, 255, 255, 145, 161>>
  <2>1. a \in Bytes
    BY <1>0 DEF Bytes
  <2>2. Encode(m) = h \o a
    <3>1. Encode(m) = EncodeEstablishmentRequest(m)
      BY <1>3, EncodedAs
    <3>2. h = Header(Session, m.session, EstablishmentRequest)
      BY <1>3
    <3> QED
      BY <3>1, <3>2, SMTT(30) DEF EncodeEstablishmentRequest
  <2> HIDE DEF h, a
  <2> QED
    BY <1>2, <2>1, <2>2, HeadedStill
<1>4. CASE m.type = EstablishmentAccept
  <2>1. m.rules = <<1>> /\ m.address \in {Absent, <<1, 10, 0, 0, 1>>}
    BY <1>4 DEF IsSessionStart, EstablishmentRequest, EstablishmentAccept
  <2> DEFINE a == <<m.pti, 17, 0, Len(m.rules)>>   b == <<6, 0, 0, 0, 0, 0, 0>>   c == Optional(41, m.address)
  <2>2. m.rules \in Bytes /\ Len(m.rules) = 1
    BY <1>0, <2>1, FewOctets
  <2>3. a \in Bytes
    BY <1>0, <2>2, FewOctets
  <2>4. b \in Bytes
    BY <1>0 DEF Bytes
  <2>5. c \in Bytes
    <3>1. <<1, 10, 0, 0, 1>> \in Bytes /\ Len(<<1, 10, 0, 0, 1>>) = 5
      BY <1>0 DEF Bytes
    <3>2. m.address # Absent => m.address \in Bytes /\ Len(m.address) <= 255
      <4>1. PICK w, n : w = <<1, 10, 0, 0, 1>> /\ n = 5
        OBVIOUS
      <4>2. n \in Nat /\ n <= 255
        BY <4>1
      <4>3. w \in Bytes /\ Len(w) = n /\ m.address \in {Absent, w}
        BY <2>1, <3>1, <4>1
      <4> QED
        BY <4>2, <4>3, OneOrNone
    <3> QED
      BY <1>0, <3>2, OptionalMade
  <2>6. Encode(m) = h \o a \o m.rules \o b \o c
    BY <1>4, EncodedAs DEF EncodeEstablishmentAccept
  <2> HIDE DEF h, a, b, c
  <2> QED
    BY <1>2, <2>2, <2>3, <2>4, <2>5, <2>6, HeadedStill
<1> QED
  BY <1>3, <1>4 DEF IsSessionStart

\* What is on the wire was encoded from the message, and what was received was decoded from there.
NasIInv ==
  /\ message # Absent => message \in Messages /\ nasWire = Encode(message)
  /\ nasReceived # Absent => message # Absent /\ nasReceived = DecodeMessage(nasWire)

\* Nothing is sent at first.
LEMMA NasInitInv == NasInit => NasIInv
BY DEF NasInit, NasIInv

\* What is received is always the decoding of what was sent.
LEMMA NasNextInv == NasIInv /\ [NasNext]_nasVars => NasIInv'
<1> SUFFICES ASSUME NasIInv, [NasNext]_nasVars PROVE NasIInv'
  OBVIOUS
<1>1. ASSUME NEW m \in Messages, Send(m) PROVE NasIInv'
  <2>1. message' = m /\ nasWire' = Encode(m) /\ nasReceived' = Absent
    BY <1>1 DEF Send
  <2> QED
    BY ONLY <2>1, m \in Messages DEF NasIInv
<1>2. CASE Receive
  BY <1>2 DEF Receive, NasIInv
<1>3. CASE UNCHANGED nasVars
  BY <1>3 DEF nasVars, NasIInv
<1> QED
  BY <1>1, <1>2, <1>3 DEF NasNext

\* So DecodeInvertsEncode holds of every message, kind by kind.
LEMMA NasImplies == NasIInv => DecodeInvertsEncode
<1> SUFFICES ASSUME NasIInv PROVE DecodeInvertsEncode
  OBVIOUS
<1>1. PICK m : m = message
  OBVIOUS
<1>2. m # Absent => m \in Messages /\ nasWire = Encode(m)
  BY <1>1 DEF NasIInv
<1>3. ASSUME nasReceived # Absent, ~Addressed(m), ~OfSession(m) PROVE Understood(m, nasReceived)
  <2>1. m \in Messages /\ nasReceived = DecodeMessage(Encode(m))
    BY <1>1, <1>2, <1>3 DEF NasIInv
  <2>2. CASE IsRequest(m)
    <3>1. m.identity.kind # "guti"
      BY <1>3, <2>2 DEF Addressed, IsRequest
    <3> QED
      BY <2>1, <2>2, <3>1, RegistrationUnderstood
  <2>3. CASE IsResponse(m)
    BY <2>1, <2>3, ResponseUnderstood
  <2>4. CASE IsAccept(m)
    <3>1. m.type # RegistrationRequest /\ m.type # AuthenticationResponse /\ m.type = RegistrationAccept
      BY <2>4, TypesDiffer DEF IsAccept
    <3>2. Headed(Encode(m), Mobility, PlainNas, m.type)
      BY <2>4, <3>1, AcceptOctets
    <3> QED
      BY <2>1, <3>1, <3>2, TypeOfMobility, TypesKnown
  <2>5. CASE IsSecurity(m)
    <3>1. m.type # RegistrationRequest /\ m.type # AuthenticationResponse
      BY <2>5, TypesDiffer DEF IsSecurity
    <3>2. Headed(Encode(m), Mobility, PlainNas, m.type)
      BY <2>5, SecurityHeaded
    <3>3. m.type \in MobilityTypes
      BY <2>5, TypesKnown DEF IsSecurity
    <3> QED
      BY <2>1, <3>1, <3>2, <3>3, TypeOfMobility
  <2>6. CASE IsSessionStart(m)
    <3>1. m.type # RegistrationRequest /\ m.type # AuthenticationResponse
      BY <2>6, TypesDiffer DEF IsSessionStart
    <3>2. m.session = 0
      BY <1>3, <2>6 DEF OfSession, IsSessionStart
    <3>3. Headed(Encode(m), Session, PlainNas, m.type)
      BY <2>6, <3>2, EstablishmentHeaded
    <3>4. m.type \in SessionTypes
      BY <2>6, TypesKnown DEF IsSessionStart
    <3> QED
      BY <2>1, <3>1, <3>3, <3>4, TypeIsRead
  <2> QED
    BY <2>1, <2>2, <2>3, <2>4, <2>5, <2>6, MessagesAre
<1>4. ASSUME m # Absent, m.type = RegistrationAccept, m.guti # Absent PROVE DecodeGuti(From(nasWire, 5)) = m.guti
  <2>1. m \in Messages /\ nasWire = Encode(m)
    BY <1>2, <1>4
  <2>2. IsAccept(m)
    <3>1. ~IsRequest(m) /\ ~IsResponse(m) /\ ~IsSecurity(m) /\ ~IsSessionStart(m)
      BY <1>4 DEF IsRequest, IsResponse, IsSecurity, IsSessionStart, RegistrationRequest, RegistrationAccept,
        AuthenticationRequest, AuthenticationResponse, SecurityModeCommand, SecurityModeComplete, EstablishmentRequest,
        EstablishmentAccept
    <3> QED
      BY <2>1, <3>1, MessagesAre
  <2> QED
    BY <1>4, <2>1, <2>2, AcceptOctets
<1>5. ASSUME m # Absent, m.type = RegistrationRequest, ~Addressed(m)
      PROVE  Recovered(m, DecodeRegistrationRequest(nasWire))
  <2>1. m \in Messages /\ nasWire = Encode(m)
    BY <1>2, <1>5
  <2>2. IsRequest(m)
    <3>1. ~IsAccept(m) /\ ~IsResponse(m) /\ ~IsSecurity(m) /\ ~IsSessionStart(m)
      BY <1>5 DEF IsAccept, IsResponse, IsSecurity, IsSessionStart, RegistrationRequest, RegistrationAccept,
        AuthenticationRequest, AuthenticationResponse, SecurityModeCommand, SecurityModeComplete, EstablishmentRequest,
        EstablishmentAccept
    <3> QED
      BY <2>1, <3>1, MessagesAre
  <2>3. m.identity.kind # "guti"
    BY <1>5 DEF Addressed
  <2> QED
    BY <2>1, <2>2, <2>3, RegistrationUnderstood
<1> QED
  BY <1>1, <1>3, <1>4, <1>5 DEF DecodeInvertsEncode
=============================================================================
