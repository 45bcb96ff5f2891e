---------------------------------- MODULE Aka ----------------------------------
(***************************************************************************)
(* 5G authentication and key agreement (protocols/crypto/aka_5g.py): the    *)
(* home network's vectors, the UE's answer to a challenge, the comparison   *)
(* and the keys both ends derive.  AES and HMAC are symbolic: a result is  *)
(* the term of what it was computed from, so that two results are equal     *)
(* exactly when their inputs are.  An exclusive or of octet strings is the *)
(* set of the terms that occur an odd number of times.  Challenges and     *)
(* answers may be delivered late, twice or to another UE.                   *)
(***************************************************************************)
EXTENDS Integers, FiniteSets

CONSTANTS
  Subscribers,   \* each with its own K and OPc
  Networks,      \* serving network names
  MaxRand        \* bound: vectors made; os.urandom never repeats a RAND

ASSUME AkaAssumption == MaxRand \in Nat

Xor(x, y) == (x \ y) \cup (y \ x)
Sqn(s) == {<<"SQN", s>>}      \* SubscriberData.sqn; no vector changes it

\* Milenage: f1 over RAND, SQN and AMF; f2 to f5 over RAND.
F1(s, rand, sqn) == <<"f1", s, rand, sqn>>
F(n, s, rand) == <<"f", n, s, rand>>
Ak(s, rand) == {F(5, s, rand)}

Kdf(fc, key, params) == <<"kdf", fc, key, params>>
ResStar(ck, ik, net, rand, res) == Kdf("6B", <<ck, ik>>, <<net, rand, res>>)
HresStar(rand, resStar) == <<"sha256", rand, resStar>>
CkIkPrime(ck, ik, net, sqn, ak) == Kdf("20", <<ck, ik>>, <<net, Xor(sqn, ak)>>)

Kausf(ckIk, net, sqn, ak) == Kdf("6A", ckIk, <<net, Xor(sqn, ak)>>)
Kseaf(kausf, net) == Kdf("6C", kausf, net)
Kamf(kseaf, supi, abba) == Kdf("6D", kseaf, <<supi, abba>>)
NasKey(kamf, type, id) == Kdf("69", kamf, <<type, id>>)

VARIABLES
  vectors,     \* AuthVector5G by RAND: [supi, net, autn, hxresStar, kseaf]
  answers,     \* [ue, net, rand, resStar, ck, ik, sqn, ak] on their way to the network
  accepted     \* [ue, rand, keys] verify_auth_response agreed to

akaVars == <<vectors, answers, accepted>>
Rands == 1..Cardinality(DOMAIN vectors)
AkaInit == vectors = <<>> /\ answers = {} /\ accepted = {}

GenerateAuthVector(s, net) ==
  LET rand == Cardinality(DOMAIN vectors) + 1
      ck == F(3, s, rand)  ik == F(4, s, rand)  ak == Ak(s, rand)
      kausf == Kausf(CkIkPrime(ck, ik, net, Sqn(s), ak), net, Sqn(s), ak) IN
  /\ rand <= MaxRand
  /\ vectors' = [r \in 1..rand |-> IF r < rand THEN vectors[r] ELSE
       [supi |-> s, net |-> net,
        autn |-> [sqnXorAk |-> Xor(Sqn(s), ak), mac |-> F1(s, rand, Sqn(s))],
        hxresStar |-> HresStar(rand, ResStar(ck, ik, net, rand, F(2, s, rand))),
        kseaf |-> Kseaf(kausf, net)]]
  /\ UNCHANGED <<answers, accepted>>

\* The UE recovers SQN with its own AK, and answers only when the MAC is its own.
UeComputeResponse(u, rand, net) ==
  LET autn == vectors[rand].autn  ck == F(3, u, rand)  ik == F(4, u, rand)
      sqn == Xor(autn.sqnXorAk, Ak(u, rand)) IN
  /\ autn.mac = F1(u, rand, sqn)
  /\ answers' = answers \cup
       {[ue |-> u, net |-> net, rand |-> rand, ck |-> ck, ik |-> ik, sqn |-> sqn, ak |-> Ak(u, rand),
         resStar |-> ResStar(ck, ik, net, rand, F(2, u, rand))]}
  /\ UNCHANGED <<vectors, accepted>>

\* derive_ue_keys, with what the UE recovered
NasKeys(kamf) == [enc |-> NasKey(kamf, "enc", "NEA1"), int |-> NasKey(kamf, "int", "NIA2")]
DeriveUeKeys(a) ==
  LET kausf == Kausf(CkIkPrime(a.ck, a.ik, a.net, a.sqn, a.ak), a.net, a.sqn, a.ak) IN
  NasKeys(Kamf(Kseaf(kausf, a.net), a.ue, 0))

\* The answer is compared with the vector of the RAND it answers.
VerifyAuthResponse(a) ==
  /\ HresStar(a.rand, a.resStar) = vectors[a.rand].hxresStar
  /\ accepted' = accepted \cup {[ue |-> a.ue, rand |-> a.rand, keys |-> DeriveUeKeys(a)]}
  /\ UNCHANGED <<vectors, answers>>

AkaNext ==
  \/ \E s \in Subscribers, net \in Networks : GenerateAuthVector(s, net)
  \/ \E u \in Subscribers, net \in Networks, rand \in Rands : UeComputeResponse(u, rand, net)
  \/ \E a \in answers : VerifyAuthResponse(a)

-----------------------------------------------------------------------------
\* An accepted answer is the subscriber's own, given for the vector's serving network, and
\* the NAS keys it leads to are those of the vector's KSEAF (aka_5g.py:591-764).
KeysAgree ==
  \A e \in accepted :
    LET v == vectors[e.rand] IN e.ue = v.supi /\ e.keys = NasKeys(Kamf(v.kseaf, v.supi, 0))
=============================================================================
