---------------------------- MODULE Core_proofs ----------------------------
(***************************************************************************)
(* What MCCore checks on one small instance holds for all values of its    *)
(* constants: for each function of the 5G core, the EPC and the IMS an     *)
(* inductive invariant, the proof that the function's initial states have  *)
(* it and its steps keep it, and at the end the theorems about the whole   *)
(* specification.  The functions share no state, so that each invariant    *)
(* is one of the function's own variables: a step of another is a stutter. *)
(***************************************************************************)
EXTENDS MCCore, FiniteSetTheorems, TLAPS

\* A strict partial order has a least element in every finite set.
LEMMA FiniteSetHasMinimum ==
  ASSUME NEW S, IsFiniteSet(S), S # {}, NEW R,
         \A x \in S : <<x, x>> \notin R,
         \A x, y, z \in S : <<x, y>> \in R /\ <<y, z>> \in R => <<x, z>> \in R
  PROVE  \E x \in S : \A y \in S : <<y, x>> \notin R
<1> DEFINE Below(x) == {y \in S : <<y, x>> \in R}
           T == {Below(x) : x \in S}
<1>1. T # {} /\ T \subseteq FiniteSubsetsOf(S)
  <2>1. PICK x \in S : TRUE
    OBVIOUS
  <2>2. Below(x) \in T
    BY <2>1
  <2>3. \A V \in T : \A y \in V : y \in S
    BY ZenonT(30)
  <2>4. T \subseteq SUBSET S
    BY <2>3
  <2> QED
    BY <2>2, <2>4, FS_FiniteSubsetsOfFinite
<1>2. PICK U \in T : \A V \in T : <<V, U>> \notin StrictSubsetOrdering(S)
  <2> HIDE DEF T
  <2> QED
    BY <1>1, WFMin, FS_StrictSubsetOrderingWellFounded
<1>3. PICK x \in S : U = Below(x)
  BY <1>2
<1>4. ASSUME NEW y \in S, <<y, x>> \in R
      PROVE  FALSE
  <2>1. Below(y) \subseteq Below(x) /\ y \in Below(x) /\ y \notin Below(y)
    BY <1>4
  <2>2. <<Below(y), U>> \in StrictSubsetOrdering(S)
    BY <2>1, <1>3 DEF StrictSubsetOrdering
  <2> QED
    BY <2>2, <1>2
<1> QED
  BY <1>4

-----------------------------------------------------------------------------
(* PDU sessions: AMF, SMF and UPF.                                          *)

\* The three functions with whoever sends them requests.
PduSpec == PduInit /\ [][PduNext]_pduVars

\* A request moves from the AMF to the SMF to the UPF and never comes before itself.
InOrder(r) ==
  /\ r.amf = "unused" => r.smf = "unused"
  /\ r.smf \in {"unused", "queued"} => r.upf = "unused"
  /\ r.upf = "queued" => r.smf \in {"n4", "failed"}
  /\ r.smf = "created" => r.upf \in {"done", "released", "forgotten"}

\* No request of a call comes before itself.
CallsInOrder == \A c \in Calls : InOrder(call[c])

\* What the UPF has, some request installed since it was last deleted.
InstalledByCall == \A id \in pfcpSessions : \E c \in Calls : call[c].pid = id /\ call[c].upf = "done"

\* The inductive invariant of the three functions: SessionsAgree is not inductive, as a
\* restart of the SMF turns listed sessions into orphans, which a request has to explain.
PduIInv ==
  /\ PduTypeOK /\ CallsInOrder /\ InstalledByCall
  /\ ListedSessionsWereInstalled /\ SuccessIsBacked /\ RuleHasSession
-----------------------------------------------------------------------------
\* The id a context gets counts the contexts there are.
LEMMA IdsInRange ==
  /\ 0 \in PduSessionIds
  /\ PduTypeOK => Cardinality(ueContexts) + 1 \in PduSessionIds
<1>1. Cardinality(UEs) \in Nat
  BY PduAssumption, FS_CardinalityType
<1>2. ASSUME PduTypeOK
      PROVE  Cardinality(ueContexts) \in Nat /\ Cardinality(ueContexts) <= Cardinality(UEs)
  <2>1. IsFiniteSet(UEs) /\ ueContexts \subseteq UEs
    BY <1>2, PduAssumption DEF PduTypeOK
  <2> QED
    BY <2>1, FS_CardinalityType, FS_Subset
<1> QED
  BY <1>1, <1>2 DEF PduSessionIds

\* No request has been made at first.
LEMMA PduInitInv == PduInit => PduIInv
<1> SUFFICES ASSUME PduInit PROVE PduIInv
  OBVIOUS
<1>1. \A c \in Calls : /\ call[c] \in CallRecords /\ call[c].amf = "unused"
                       /\ call[c].smf = "unused" /\ call[c].upf = "unused"
  BY IdsInRange DEF PduInit, CallRecords
<1>2. call \in [Calls -> CallRecords]
  BY <1>1 DEF PduInit
<1>3. restarts \in 0..MaxRestarts
  BY PduAssumption DEF PduInit
<1>4. PduTypeOK
  BY <1>2, <1>3, IdsInRange DEF PduInit, PduTypeOK
<1>5. CallsInOrder /\ SuccessIsBacked
  BY <1>1 DEF CallsInOrder, InOrder, SuccessIsBacked
<1>6. InstalledByCall /\ ListedSessionsWereInstalled /\ RuleHasSession
  BY DEF PduInit, InstalledByCall, ListedSessionsWereInstalled, RuleHasSession
<1> QED
  BY <1>4, <1>5, <1>6 DEF PduIInv

-----------------------------------------------------------------------------
\* A start leaves the bound on restarts in place.
LEMMA StartedTyped ==
  ASSUME PduTypeOK, NEW nf \in NFs, Started(nf)
  PROVE  running' \subseteq NFs /\ restarts' \in 0..MaxRestarts
BY PduAssumption DEF PduTypeOK, Started

\* The request sets out; nobody else has heard of it.
LEMMA CreatePduSessionInv == ASSUME PduIInv, NEW c \in Calls, CreatePduSession(c) PROVE PduIInv'
<1>0. /\ Cardinality(ueContexts) + 1 \in PduSessionIds
      /\ \A u \in UEs : pduSessionId[u] \in PduSessionIds
  BY IdsInRange DEF PduIInv, PduTypeOK
<1>1. call \in [Calls -> CallRecords] /\ call[c] \in CallRecords
  BY DEF PduIInv, PduTypeOK
<1>2. /\ call[c].amf = "unused" /\ call[c].smf = "unused" /\ call[c].upf = "unused"
  BY <1>1 DEF CreatePduSession, CallRecords, PduIInv, CallsInOrder, InOrder, SuccessIsBacked
<1>3. /\ call'[c].amf \in {"waiting", "failed"} /\ call'[c].smf \in {"unused", "queued"}
      /\ call'[c].upf = "unused" /\ call'[c].ue = call[c].ue
  BY <1>1, <1>2, <1>0 DEF CreatePduSession, CallRecords
<1>4. \A d \in Calls : d # c => call'[d] = call[d]
  BY <1>1 DEF CreatePduSession
<1>5. call' \in [Calls -> CallRecords]
  BY <1>1, <1>0 DEF CreatePduSession, CallRecords
<1>7. PduTypeOK'
  BY <1>0, <1>1, <1>2, <1>3, <1>4, <1>5 DEF CreatePduSession, nfVars, amfVars, smfVars, upfVars, PduIInv, PduTypeOK, CallRecords
<1>8. CallsInOrder'
  BY <1>0, <1>1, <1>2, <1>3, <1>4, <1>5 DEF CreatePduSession, nfVars, amfVars, smfVars, upfVars, PduIInv, CallsInOrder, InOrder
<1>9. InstalledByCall'
  BY <1>0, <1>1, <1>2, <1>3, <1>4, <1>5 DEF CreatePduSession, nfVars, amfVars, smfVars, upfVars, PduIInv, InstalledByCall
<1>10. ListedSessionsWereInstalled'
  BY <1>0, <1>1, <1>2, <1>3, <1>4, <1>5 DEF CreatePduSession, nfVars, amfVars, smfVars, upfVars, PduIInv, ListedSessionsWereInstalled
<1>11. SuccessIsBacked'
  BY <1>0, <1>1, <1>2, <1>3, <1>4, <1>5 DEF CreatePduSession, nfVars, amfVars, smfVars, upfVars, PduIInv, SuccessIsBacked
<1>12. RuleHasSession'
  BY <1>0, <1>1, <1>2, <1>3, <1>4, <1>5 DEF CreatePduSession, nfVars, amfVars, smfVars, upfVars, PduIInv, RuleHasSession
<1> QED
  BY <1>7, <1>8, <1>9, <1>10, <1>11, <1>12 DEF PduIInv

\* The SMF takes the request up, or has no UPF.
LEMMA CreateSmContextInv == ASSUME PduIInv, NEW c \in Calls, CreateSmContext(c) PROVE PduIInv'
<1>1. call \in [Calls -> CallRecords] /\ call[c] \in CallRecords
  BY DEF PduIInv, PduTypeOK
<1>2. /\ call[c].smf = "queued" /\ call[c].upf = "unused" /\ call[c].amf \notin {"unused", "success"}
  BY <1>1 DEF CreateSmContext, CallRecords, PduIInv, CallsInOrder, InOrder, SuccessIsBacked
<1>3. /\ \/ call'[c].smf = "n4" /\ call'[c].upf = "queued"
         \/ call'[c].smf = "failed" /\ call'[c].upf = "unused"
      /\ call'[c].ue = call[c].ue /\ call'[c].pid = call[c].pid /\ call'[c].amf = call[c].amf
  BY <1>1, <1>2 DEF CreateSmContext, CallRecords
<1>4. \A d \in Calls : d # c => call'[d] = call[d]
  BY <1>1 DEF CreateSmContext
<1>5. call' \in [Calls -> CallRecords]
  BY <1>1 DEF CreateSmContext, CallRecords
<1>6. PduTypeOK'
  BY <1>1, <1>2, <1>3, <1>4, <1>5 DEF CreateSmContext, nfVars, amfVars, smfVars, upfVars, PduIInv, PduTypeOK, CallRecords
<1>7. CallsInOrder'
  BY <1>1, <1>2, <1>3, <1>4, <1>5 DEF CreateSmContext, nfVars, amfVars, smfVars, upfVars, PduIInv, CallsInOrder, InOrder
<1>8. InstalledByCall'
  BY <1>1, <1>2, <1>3, <1>4, <1>5 DEF CreateSmContext, nfVars, amfVars, smfVars, upfVars, PduIInv, InstalledByCall
<1>9. ListedSessionsWereInstalled'
  BY <1>1, <1>2, <1>3, <1>4, <1>5 DEF CreateSmContext, nfVars, amfVars, smfVars, upfVars, PduIInv, ListedSessionsWereInstalled
<1>10. SuccessIsBacked'
  BY <1>1, <1>2, <1>3, <1>4, <1>5 DEF CreateSmContext, nfVars, amfVars, smfVars, upfVars, PduIInv, SuccessIsBacked
<1>11. RuleHasSession'
  BY <1>1, <1>2, <1>3, <1>4, <1>5 DEF CreateSmContext, nfVars, amfVars, smfVars, upfVars, PduIInv, RuleHasSession
<1> QED
  BY <1>6, <1>7, <1>8, <1>9, <1>10, <1>11 DEF PduIInv

\* The UPF installs the session, perhaps for a client that has given up.
LEMMA EstablishN4Inv == ASSUME PduIInv, NEW c \in Calls, EstablishN4(c) PROVE PduIInv'
<1>1. call \in [Calls -> CallRecords] /\ call[c] \in CallRecords
  BY DEF PduIInv, PduTypeOK
<1>2. /\ call[c].upf = "queued" /\ call[c].smf \in {"n4", "failed"}
  BY <1>1 DEF EstablishN4, CallRecords, PduIInv, CallsInOrder, InOrder, SuccessIsBacked
<1>3. /\ call'[c].upf = "done" /\ call'[c].ue = call[c].ue /\ call'[c].pid = call[c].pid /\ call'[c].amf = call[c].amf /\ call'[c].smf = call[c].smf
  BY <1>1, <1>2 DEF EstablishN4, CallRecords
<1>4. \A d \in Calls : d # c => call'[d] = call[d]
  BY <1>1 DEF EstablishN4
<1>5. call' \in [Calls -> CallRecords]
  BY <1>1 DEF EstablishN4, CallRecords
<1>6. PduTypeOK'
  BY <1>1, <1>2, <1>3, <1>4, <1>5 DEF EstablishN4, nfVars, amfVars, smfVars, upfVars, PduIInv, PduTypeOK, CallRecords
<1>7. CallsInOrder'
  BY <1>1, <1>2, <1>3, <1>4, <1>5 DEF EstablishN4, nfVars, amfVars, smfVars, upfVars, PduIInv, CallsInOrder, InOrder
<1>8. InstalledByCall'
  BY <1>1, <1>2, <1>3, <1>4, <1>5 DEF EstablishN4, nfVars, amfVars, smfVars, upfVars, PduIInv, InstalledByCall
<1>9. ListedSessionsWereInstalled'
  BY <1>1, <1>2, <1>3, <1>4, <1>5 DEF EstablishN4, nfVars, amfVars, smfVars, upfVars, PduIInv, ListedSessionsWereInstalled
<1>10. SuccessIsBacked'
  BY <1>1, <1>2, <1>3, <1>4, <1>5 DEF EstablishN4, nfVars, amfVars, smfVars, upfVars, PduIInv, SuccessIsBacked
<1>11. RuleHasSession'
  BY <1>1, <1>2, <1>3, <1>4, <1>5 DEF EstablishN4, nfVars, amfVars, smfVars, upfVars, PduIInv, RuleHasSession
<1> QED
  BY <1>6, <1>7, <1>8, <1>9, <1>10, <1>11 DEF PduIInv

\* The SMF lists the session.
LEMMA N4AnsweredInv == ASSUME PduIInv, NEW c \in Calls, N4Answered(c) PROVE PduIInv'
<1>1. call \in [Calls -> CallRecords] /\ call[c] \in CallRecords
  BY DEF PduIInv, PduTypeOK
<1>2. /\ call[c].smf = "n4" /\ call[c].upf \in {"done", "released", "forgotten"}
  BY <1>1 DEF N4Answered, CallRecords, PduIInv, CallsInOrder, InOrder, SuccessIsBacked
<1>3. /\ call'[c].smf = "created" /\ call'[c].ue = call[c].ue /\ call'[c].pid = call[c].pid /\ call'[c].amf = call[c].amf /\ call'[c].upf = call[c].upf
  BY <1>1, <1>2 DEF N4Answered, CallRecords
<1>4. \A d \in Calls : d # c => call'[d] = call[d]
  BY <1>1 DEF N4Answered
<1>5. call' \in [Calls -> CallRecords]
  BY <1>1 DEF N4Answered, CallRecords
<1>6. PduTypeOK'
  BY <1>1, <1>2, <1>3, <1>4, <1>5 DEF N4Answered, nfVars, amfVars, smfVars, upfVars, PduIInv, PduTypeOK, CallRecords
<1>7. CallsInOrder'
  BY <1>1, <1>2, <1>3, <1>4, <1>5 DEF N4Answered, nfVars, amfVars, smfVars, upfVars, PduIInv, CallsInOrder, InOrder
<1>8. InstalledByCall'
  BY <1>1, <1>2, <1>3, <1>4, <1>5 DEF N4Answered, nfVars, amfVars, smfVars, upfVars, PduIInv, InstalledByCall
<1>9. ListedSessionsWereInstalled'
  BY <1>1, <1>2, <1>3, <1>4, <1>5 DEF N4Answered, nfVars, amfVars, smfVars, upfVars, PduIInv, ListedSessionsWereInstalled
<1>10. SuccessIsBacked'
  BY <1>1, <1>2, <1>3, <1>4, <1>5 DEF N4Answered, nfVars, amfVars, smfVars, upfVars, PduIInv, SuccessIsBacked
<1>11. RuleHasSession'
  BY <1>1, <1>2, <1>3, <1>4, <1>5 DEF N4Answered, nfVars, amfVars, smfVars, upfVars, PduIInv, RuleHasSession
<1> QED
  BY <1>6, <1>7, <1>8, <1>9, <1>10, <1>11 DEF PduIInv

\* The SMF gives up; the UPF may go on.
LEMMA N4TimedOutInv == ASSUME PduIInv, NEW c \in Calls, N4TimedOut(c) PROVE PduIInv'
<1>1. call \in [Calls -> CallRecords] /\ call[c] \in CallRecords
  BY DEF PduIInv, PduTypeOK
<1>2. /\ call[c].smf = "n4"
  BY <1>1 DEF N4TimedOut, CallRecords, PduIInv, CallsInOrder, InOrder, SuccessIsBacked
<1>3. /\ call'[c].smf = "failed"
      /\ call'[c].ue = call[c].ue /\ call'[c].pid = call[c].pid /\ call'[c].amf = call[c].amf /\ call'[c].upf = call[c].upf
  BY <1>1, <1>2 DEF N4TimedOut, CallRecords
<1>4. \A d \in Calls : d # c => call'[d] = call[d]
  BY <1>1 DEF N4TimedOut
<1>5. call' \in [Calls -> CallRecords]
  BY <1>1 DEF N4TimedOut, CallRecords
<1>6. PduTypeOK'
  BY <1>1, <1>2, <1>3, <1>4, <1>5 DEF N4TimedOut, nfVars, amfVars, smfVars, upfVars, PduIInv, PduTypeOK, CallRecords
<1>7. CallsInOrder'
  BY <1>1, <1>2, <1>3, <1>4, <1>5 DEF N4TimedOut, nfVars, amfVars, smfVars, upfVars, PduIInv, CallsInOrder, InOrder
<1>8. InstalledByCall'
  BY <1>1, <1>2, <1>3, <1>4, <1>5 DEF N4TimedOut, nfVars, amfVars, smfVars, upfVars, PduIInv, InstalledByCall
<1>9. ListedSessionsWereInstalled'
  BY <1>1, <1>2, <1>3, <1>4, <1>5 DEF N4TimedOut, nfVars, amfVars, smfVars, upfVars, PduIInv, ListedSessionsWereInstalled
<1>10. SuccessIsBacked'
  BY <1>1, <1>2, <1>3, <1>4, <1>5 DEF N4TimedOut, nfVars, amfVars, smfVars, upfVars, PduIInv, SuccessIsBacked
<1>11. RuleHasSession'
  BY <1>1, <1>2, <1>3, <1>4, <1>5 DEF N4TimedOut, nfVars, amfVars, smfVars, upfVars, PduIInv, RuleHasSession
<1> QED
  BY <1>6, <1>7, <1>8, <1>9, <1>10, <1>11 DEF PduIInv

\* The AMF has the answer.
LEMMA SmfAnsweredInv == ASSUME PduIInv, NEW c \in Calls, SmfAnswered(c) PROVE PduIInv'
<1>1. call \in [Calls -> CallRecords] /\ call[c] \in CallRecords
  BY DEF PduIInv, PduTypeOK
<1>2. /\ call[c].smf \in {"created", "forgotten", "failed"} /\ call[c].amf = "waiting"
  BY <1>1 DEF SmfAnswered, CallRecords, PduIInv, CallsInOrder, InOrder, SuccessIsBacked
<1>3. /\ call'[c].amf \in {"success", "failed"}
      /\ call'[c].amf = "success" => call[c].smf # "failed"
      /\ call'[c].ue = call[c].ue /\ call'[c].pid = call[c].pid /\ call'[c].smf = call[c].smf /\ call'[c].upf = call[c].upf
  BY <1>1, <1>2 DEF SmfAnswered, CallRecords
<1>4. \A d \in Calls : d # c => call'[d] = call[d]
  BY <1>1 DEF SmfAnswered
<1>5. call' \in [Calls -> CallRecords]
  BY <1>1 DEF SmfAnswered, CallRecords
<1>6. PduTypeOK'
  BY <1>1, <1>2, <1>3, <1>4, <1>5 DEF SmfAnswered, nfVars, amfVars, smfVars, upfVars, PduIInv, PduTypeOK, CallRecords
<1>7. CallsInOrder'
  BY <1>1, <1>2, <1>3, <1>4, <1>5 DEF SmfAnswered, nfVars, amfVars, smfVars, upfVars, PduIInv, CallsInOrder, InOrder
<1>8. InstalledByCall'
  BY <1>1, <1>2, <1>3, <1>4, <1>5 DEF SmfAnswered, nfVars, amfVars, smfVars, upfVars, PduIInv, InstalledByCall
<1>9. ListedSessionsWereInstalled'
  BY <1>1, <1>2, <1>3, <1>4, <1>5 DEF SmfAnswered, nfVars, amfVars, smfVars, upfVars, PduIInv, ListedSessionsWereInstalled
<1>10. SuccessIsBacked'
  BY <1>1, <1>2, <1>3, <1>4, <1>5 DEF SmfAnswered, nfVars, amfVars, smfVars, upfVars, PduIInv, SuccessIsBacked
<1>11. RuleHasSession'
  BY <1>1, <1>2, <1>3, <1>4, <1>5 DEF SmfAnswered, nfVars, amfVars, smfVars, upfVars, PduIInv, RuleHasSession
<1> QED
  BY <1>6, <1>7, <1>8, <1>9, <1>10, <1>11 DEF PduIInv

\* The AMF gives up; the SMF goes on.
LEMMA SmfTimedOutInv == ASSUME PduIInv, NEW c \in Calls, SmfTimedOut(c) PROVE PduIInv'
<1>1. call \in [Calls -> CallRecords] /\ call[c] \in CallRecords
  BY DEF PduIInv, PduTypeOK
<1>2. /\ call[c].amf = "waiting"
  BY <1>1 DEF SmfTimedOut, CallRecords, PduIInv, CallsInOrder, InOrder, SuccessIsBacked
<1>3. /\ call'[c].amf = "failed"
      /\ call'[c].ue = call[c].ue /\ call'[c].pid = call[c].pid /\ call'[c].smf = call[c].smf /\ call'[c].upf = call[c].upf
  BY <1>1, <1>2 DEF SmfTimedOut, CallRecords
<1>4. \A d \in Calls : d # c => call'[d] = call[d]
  BY <1>1 DEF SmfTimedOut
<1>5. call' \in [Calls -> CallRecords]
  BY <1>1 DEF SmfTimedOut, CallRecords
<1>6. PduTypeOK'
  BY <1>1, <1>2, <1>3, <1>4, <1>5 DEF SmfTimedOut, nfVars, amfVars, smfVars, upfVars, PduIInv, PduTypeOK, CallRecords
<1>7. CallsInOrder'
  BY <1>1, <1>2, <1>3, <1>4, <1>5 DEF SmfTimedOut, nfVars, amfVars, smfVars, upfVars, PduIInv, CallsInOrder, InOrder
<1>8. InstalledByCall'
  BY <1>1, <1>2, <1>3, <1>4, <1>5 DEF SmfTimedOut, nfVars, amfVars, smfVars, upfVars, PduIInv, InstalledByCall
<1>9. ListedSessionsWereInstalled'
  BY <1>1, <1>2, <1>3, <1>4, <1>5 DEF SmfTimedOut, nfVars, amfVars, smfVars, upfVars, PduIInv, ListedSessionsWereInstalled
<1>10. SuccessIsBacked'
  BY <1>1, <1>2, <1>3, <1>4, <1>5 DEF SmfTimedOut, nfVars, amfVars, smfVars, upfVars, PduIInv, SuccessIsBacked
<1>11. RuleHasSession'
  BY <1>1, <1>2, <1>3, <1>4, <1>5 DEF SmfTimedOut, nfVars, amfVars, smfVars, upfVars, PduIInv, RuleHasSession
<1> QED
  BY <1>6, <1>7, <1>8, <1>9, <1>10, <1>11 DEF PduIInv

\* The AMF starts again: requests that waited have failed.
LEMMA StartAmfInv == ASSUME PduIInv, StartAmf PROVE PduIInv'
<1>1. call \in [Calls -> CallRecords] /\ \A c \in Calls : call[c] \in CallRecords
  BY DEF PduIInv, PduTypeOK
<1>2. \A c \in Calls :
        /\ call'[c].ue = call[c].ue /\ call'[c].pid = call[c].pid /\ call'[c].smf = call[c].smf /\ call'[c].upf = call[c].upf
        /\ \/ call'[c].amf = call[c].amf
           \/ call[c].amf = "waiting" /\ call'[c].amf = "failed"
  BY <1>1 DEF StartAmf, CallRecords, nfVars, amfVars, smfVars, upfVars, PduIInv
<1>3. call' \in [Calls -> CallRecords]
  <2>1. ASSUME NEW c \in Calls PROVE call'[c] \in CallRecords
    BY <1>1 DEF StartAmf, CallRecords
  <2> QED
    BY <2>1 DEF StartAmf
<1>4. running' \subseteq NFs /\ restarts' \in 0..MaxRestarts
  BY StartedTyped DEF StartAmf, PduIInv, NFs
<1>5. PduTypeOK'
  BY <1>1, <1>2, <1>3, <1>4, IdsInRange DEF StartAmf, nfVars, amfVars, smfVars, upfVars, PduIInv, PduTypeOK, CallRecords
<1>6. CallsInOrder'
  <2> SUFFICES ASSUME NEW c \in Calls
               PROVE InOrder(call'[c])
    BY DEF CallsInOrder
  <2>1. InOrder(call[c])
    BY DEF PduIInv, CallsInOrder
  <2> QED
    BY <1>1, <1>2, <2>1 DEF StartAmf, nfVars, amfVars, smfVars, upfVars, InOrder, CallRecords
<1>7. InstalledByCall'
  BY <1>1, <1>2, <1>3, <1>4 DEF StartAmf, nfVars, amfVars, smfVars, upfVars, PduIInv, InstalledByCall
<1>8. ListedSessionsWereInstalled'
  BY <1>1, <1>2, <1>3, <1>4 DEF StartAmf, nfVars, amfVars, smfVars, upfVars, PduIInv, ListedSessionsWereInstalled
<1>9. SuccessIsBacked'
  <2> SUFFICES ASSUME NEW c \in Calls
               PROVE
                       /\ call'[c].amf = "success" => call'[c].smf \in {"created", "forgotten"}
                       /\ call'[c].smf = "created" => <<call'[c].ue, call'[c].pid>> \in smfSessions'
                       /\ call'[c].upf = "done" => call'[c].pid \in pfcpSessions'
    BY DEF SuccessIsBacked
  <2>1.
          /\ call[c].amf = "success" => call[c].smf \in {"created", "forgotten"}
          /\ call[c].smf = "created" => <<call[c].ue, call[c].pid>> \in smfSessions
          /\ call[c].upf = "done" => call[c].pid \in pfcpSessions
    BY DEF PduIInv, SuccessIsBacked
  <2> QED
    BY <1>1, <1>2, <2>1 DEF StartAmf, nfVars, amfVars, smfVars, upfVars, InOrder, CallRecords
<1>10. RuleHasSession'
  BY <1>1, <1>2, <1>3, <1>4 DEF StartAmf, nfVars, amfVars, smfVars, upfVars, PduIInv, RuleHasSession
<1> QED
  BY <1>5, <1>6, <1>7, <1>8, <1>9, <1>10 DEF PduIInv

\* The SMF starts again: what it listed is forgotten, and orphaned at the UPF.
LEMMA StartSmfInv == ASSUME PduIInv, StartSmf PROVE PduIInv'
<1>1. call \in [Calls -> CallRecords] /\ \A c \in Calls : call[c] \in CallRecords
  BY DEF PduIInv, PduTypeOK
<1>2. \A c \in Calls :
        /\ call'[c].ue = call[c].ue /\ call'[c].pid = call[c].pid /\ call'[c].amf = call[c].amf /\ call'[c].upf = call[c].upf
        /\ \/ call[c].smf \in {"queued", "n4"} /\ call'[c].smf = "failed"
           \/ call[c].smf = "created" /\ call'[c].smf = "forgotten"
           \/ call[c].smf \notin {"queued", "n4", "created"} /\ call'[c].smf = call[c].smf
  BY <1>1 DEF StartSmf, CallRecords, nfVars, amfVars, smfVars, upfVars, PduIInv
<1>3. call' \in [Calls -> CallRecords]
  <2>1. ASSUME NEW c \in Calls PROVE call'[c] \in CallRecords
    BY <1>1 DEF StartSmf, CallRecords
  <2> QED
    BY <2>1 DEF StartSmf
<1>4. running' \subseteq NFs /\ restarts' \in 0..MaxRestarts
  BY StartedTyped DEF StartSmf, PduIInv, NFs
<1>5. PduTypeOK'
  BY <1>1, <1>2, <1>3, <1>4, IdsInRange, SMTT(30) DEF StartSmf, nfVars, amfVars, smfVars, upfVars, PduIInv, PduTypeOK, CallRecords
<1>6. CallsInOrder'
  <2> SUFFICES ASSUME NEW c \in Calls
               PROVE InOrder(call'[c])
    BY DEF CallsInOrder
  <2>1. InOrder(call[c])
    BY DEF PduIInv, CallsInOrder
  <2> QED
    BY <1>1, <1>2, <2>1 DEF StartSmf, nfVars, amfVars, smfVars, upfVars, InOrder, CallRecords
<1>7. InstalledByCall'
  BY <1>1, <1>2, <1>3, <1>4 DEF StartSmf, nfVars, amfVars, smfVars, upfVars, PduIInv, InstalledByCall
<1>8. ListedSessionsWereInstalled'
  BY <1>1, <1>2, <1>3, <1>4 DEF StartSmf, nfVars, amfVars, smfVars, upfVars, PduIInv, ListedSessionsWereInstalled
<1>9. SuccessIsBacked'
  <2> SUFFICES ASSUME NEW c \in Calls
               PROVE
                       /\ call'[c].amf = "success" => call'[c].smf \in {"created", "forgotten"}
                       /\ call'[c].smf = "created" => <<call'[c].ue, call'[c].pid>> \in smfSessions'
                       /\ call'[c].upf = "done" => call'[c].pid \in pfcpSessions'
    BY DEF SuccessIsBacked
  <2>1.
          /\ call[c].amf = "success" => call[c].smf \in {"created", "forgotten"}
          /\ call[c].smf = "created" => <<call[c].ue, call[c].pid>> \in smfSessions
          /\ call[c].upf = "done" => call[c].pid \in pfcpSessions
    BY DEF PduIInv, SuccessIsBacked
  <2> QED
    BY <1>1, <1>2, <2>1 DEF StartSmf, nfVars, amfVars, smfVars, upfVars, InOrder, CallRecords
<1>10. RuleHasSession'
  BY <1>1, <1>2, <1>3, <1>4 DEF StartSmf, nfVars, amfVars, smfVars, upfVars, PduIInv, RuleHasSession
<1> QED
  BY <1>5, <1>6, <1>7, <1>8, <1>9, <1>10 DEF PduIInv

\* The UPF starts again: its sessions are gone, requests it had queued fail.
LEMMA StartUpfInv == ASSUME PduIInv, StartUpf PROVE PduIInv'
<1>1. call \in [Calls -> CallRecords] /\ \A c \in Calls : call[c] \in CallRecords
  BY DEF PduIInv, PduTypeOK
<1>2. \A c \in Calls :
        /\ call'[c].ue = call[c].ue /\ call'[c].pid = call[c].pid /\ call'[c].amf = call[c].amf
        /\ \/ /\ call[c].upf = "queued" /\ call'[c].upf = "forgotten"
              /\ \/ call[c].smf = "n4" /\ call'[c].smf = "failed"
                 \/ call'[c].smf = call[c].smf
           \/ call[c].upf = "done" /\ call'[c].upf = "forgotten" /\ call'[c].smf = call[c].smf
           \/ /\ call[c].upf \notin {"queued", "done"}
              /\ call'[c].upf = call[c].upf /\ call'[c].smf = call[c].smf
  BY <1>1 DEF StartUpf, CallRecords, nfVars, amfVars, smfVars, upfVars, PduIInv
<1>3. call' \in [Calls -> CallRecords]
  <2>1. ASSUME NEW c \in Calls PROVE call'[c] \in CallRecords
    BY <1>1 DEF StartUpf, CallRecords
  <2> QED
    BY <2>1 DEF StartUpf
<1>4. running' \subseteq NFs /\ restarts' \in 0..MaxRestarts
  BY StartedTyped DEF StartUpf, PduIInv, NFs
<1>5. PduTypeOK'
  BY <1>1, <1>2, <1>3, <1>4, IdsInRange DEF StartUpf, nfVars, amfVars, smfVars, upfVars, PduIInv, PduTypeOK, CallRecords
<1>6. CallsInOrder'
  <2> SUFFICES ASSUME NEW c \in Calls
               PROVE InOrder(call'[c])
    BY DEF CallsInOrder
  <2>1. InOrder(call[c])
    BY DEF PduIInv, CallsInOrder
  <2> QED
    BY <1>1, <1>2, <2>1 DEF StartUpf, nfVars, amfVars, smfVars, upfVars, InOrder, CallRecords
<1>7. InstalledByCall'
  BY <1>1, <1>2, <1>3, <1>4 DEF StartUpf, nfVars, amfVars, smfVars, upfVars, PduIInv, InstalledByCall
<1>8. ListedSessionsWereInstalled'
  <2> SUFFICES ASSUME NEW s \in smfSessions
               PROVE  \E c \in Calls :
                        /\ <<call'[c].ue, call'[c].pid>> = s /\ call'[c].smf = "created"
                        /\ call'[c].upf \in {"done", "released", "forgotten"}
    BY DEF ListedSessionsWereInstalled, StartUpf, smfVars
  <2>1. PICK c \in Calls :
          /\ <<call[c].ue, call[c].pid>> = s /\ call[c].smf = "created"
          /\ call[c].upf \in {"done", "released", "forgotten"}
    BY DEF PduIInv, ListedSessionsWereInstalled
  <2>2. call'[c].smf = "created" /\ call'[c].upf \in {"done", "released", "forgotten"}
    BY <1>2, <2>1
  <2> QED
    BY <1>2, <2>1, <2>2
<1>9. SuccessIsBacked'
  <2> SUFFICES ASSUME NEW c \in Calls
               PROVE
                       /\ call'[c].amf = "success" => call'[c].smf \in {"created", "forgotten"}
                       /\ call'[c].smf = "created" => <<call'[c].ue, call'[c].pid>> \in smfSessions'
                       /\ call'[c].upf = "done" => call'[c].pid \in pfcpSessions'
    BY DEF SuccessIsBacked
  <2>1.
          /\ call[c].amf = "success" => call[c].smf \in {"created", "forgotten"}
          /\ call[c].smf = "created" => <<call[c].ue, call[c].pid>> \in smfSessions
          /\ call[c].upf = "done" => call[c].pid \in pfcpSessions
    BY DEF PduIInv, SuccessIsBacked
  <2>2. /\ call'[c].upf # "done" /\ call'[c].smf \in {call[c].smf, "failed"}
        /\ call[c].smf # "n4" => call'[c].smf = call[c].smf
    BY <1>2
  <2>3. call'[c].amf = "success" => call'[c].smf \in {"created", "forgotten"}
    BY <1>2, <2>1, <2>2
  <2>4. call'[c].smf = "created" => call[c].smf = "created"
    BY <2>2
  <2>5. smfSessions' = smfSessions /\ call'[c].ue = call[c].ue /\ call'[c].pid = call[c].pid
    BY <1>2 DEF StartUpf, smfVars
  <2> QED
    BY <2>1, <2>2, <2>3, <2>4, <2>5
<1>10. RuleHasSession'
  BY <1>1, <1>2, <1>3, <1>4 DEF StartUpf, nfVars, amfVars, smfVars, upfVars, PduIInv, RuleHasSession
<1> QED
  BY <1>5, <1>6, <1>7, <1>8, <1>9, <1>10 DEF PduIInv

\* A session is deleted over N4 under the SMF's feet.
LEMMA DeleteN4Inv == ASSUME PduIInv, NEW id \in PduSessionIds, DeleteN4(id) PROVE PduIInv'
<1>1. call \in [Calls -> CallRecords] /\ \A c \in Calls : call[c] \in CallRecords
  BY DEF PduIInv, PduTypeOK
<1>2. \A c \in Calls :
        /\ call'[c].ue = call[c].ue /\ call'[c].pid = call[c].pid /\ call'[c].amf = call[c].amf /\ call'[c].smf = call[c].smf
        /\ \/ call[c].pid = id /\ call[c].upf = "done" /\ call'[c].upf = "released"
           \/ ~(call[c].pid = id /\ call[c].upf = "done") /\ call'[c].upf = call[c].upf
  BY <1>1 DEF DeleteN4, CallRecords, nfVars, amfVars, smfVars, upfVars, PduIInv
<1>3. call' \in [Calls -> CallRecords]
  <2>1. ASSUME NEW c \in Calls PROVE call'[c] \in CallRecords
    BY <1>1 DEF DeleteN4, CallRecords
  <2> QED
    BY <2>1 DEF DeleteN4
<1>4. PduTypeOK'
  BY <1>1, <1>2, <1>3, IdsInRange DEF DeleteN4, nfVars, amfVars, smfVars, upfVars, PduIInv, PduTypeOK, CallRecords
<1>5. CallsInOrder'
  <2> SUFFICES ASSUME NEW c \in Calls
               PROVE InOrder(call'[c])
    BY DEF CallsInOrder
  <2>1. InOrder(call[c])
    BY DEF PduIInv, CallsInOrder
  <2> QED
    BY <1>1, <1>2, <2>1 DEF DeleteN4, nfVars, amfVars, smfVars, upfVars, InOrder, CallRecords
<1>6. InstalledByCall'
  BY <1>1, <1>2, <1>3 DEF DeleteN4, nfVars, amfVars, smfVars, upfVars, PduIInv, InstalledByCall
<1>7. ListedSessionsWereInstalled'
  BY <1>1, <1>2, <1>3 DEF DeleteN4, nfVars, amfVars, smfVars, upfVars, PduIInv, ListedSessionsWereInstalled
<1>8. SuccessIsBacked'
  <2> SUFFICES ASSUME NEW c \in Calls
               PROVE
                       /\ call'[c].amf = "success" => call'[c].smf \in {"created", "forgotten"}
                       /\ call'[c].smf = "created" => <<call'[c].ue, call'[c].pid>> \in smfSessions'
                       /\ call'[c].upf = "done" => call'[c].pid \in pfcpSessions'
    BY DEF SuccessIsBacked
  <2>1.
          /\ call[c].amf = "success" => call[c].smf \in {"created", "forgotten"}
          /\ call[c].smf = "created" => <<call[c].ue, call[c].pid>> \in smfSessions
          /\ call[c].upf = "done" => call[c].pid \in pfcpSessions
    BY DEF PduIInv, SuccessIsBacked
  <2> QED
    BY <1>1, <1>2, <2>1 DEF DeleteN4, nfVars, amfVars, smfVars, upfVars, InOrder, CallRecords
<1>9. RuleHasSession'
  BY <1>1, <1>2, <1>3 DEF DeleteN4, nfVars, amfVars, smfVars, upfVars, PduIInv, RuleHasSession
<1> QED
  BY <1>4, <1>5, <1>6, <1>7, <1>8, <1>9 DEF PduIInv

\* Contexts come and go at the AMF alone.
LEMMA RequestsInv == ASSUME PduIInv, PduRequests PROVE PduIInv'
<1>1. /\ ueContexts' \subseteq UEs /\ pduSessionId' \in [UEs -> PduSessionIds]
      /\ UNCHANGED <<nfVars, smfUrl, call, smfVars, upfVars>>
  BY IdsInRange DEF PduRequests, NewContext, RemoveContext, PduIInv, PduTypeOK
<1> QED
  BY <1>1 DEF PduIInv, PduTypeOK, CallsInOrder, InstalledByCall, ListedSessionsWereInstalled,
              SuccessIsBacked, RuleHasSession, nfVars, smfVars, upfVars

\* Every step of the three functions keeps the invariant.
LEMMA PduNextInv == PduIInv /\ [PduNext]_pduVars => PduIInv'
<1> SUFFICES ASSUME PduIInv, [PduNext]_pduVars PROVE PduIInv'
  OBVIOUS
<1>1. CASE StartAmf \/ StartSmf \/ StartUpf
  BY <1>1, StartAmfInv, StartSmfInv, StartUpfInv
<1>2. CASE PduRequests
  BY <1>2, RequestsInv
<1>3. ASSUME NEW c \in Calls, CreatePduSession(c) \/ PduProgress(c) PROVE PduIInv'
  BY <1>3, CreatePduSessionInv, CreateSmContextInv, EstablishN4Inv, N4AnsweredInv, N4TimedOutInv,
     SmfAnsweredInv, SmfTimedOutInv DEF PduProgress
<1>4. ASSUME NEW id \in PduSessionIds, DeleteN4(id) PROVE PduIInv'
  BY <1>4, DeleteN4Inv
<1>5. CASE UNCHANGED pduVars
  BY <1>5 DEF pduVars, nfVars, amfVars, smfVars, upfVars, PduIInv, PduTypeOK, CallsInOrder, InstalledByCall,
              ListedSessionsWereInstalled, SuccessIsBacked, RuleHasSession
<1> QED
  BY <1>1, <1>2, <1>3, <1>4, <1>5 DEF PduNext

\* What the invariant explains: a session the SMF does not list was installed by a request
\* whose SMF gave up, was restarted or is still waiting.
LEMMA OrphansHaveACause == PduIInv => OrphansExplained
<1> SUFFICES ASSUME PduIInv, NEW id \in pfcpSessions,
                    ~\E u \in UEs : <<u, id>> \in smfSessions
             PROVE  \E c \in Calls : /\ call[c].pid = id /\ call[c].upf = "done"
                                     /\ call[c].smf \in {"n4", "failed", "forgotten"}
  BY DEF OrphansExplained
<1>1. PICK c \in Calls : call[c].pid = id /\ call[c].upf = "done"
  BY DEF PduIInv, InstalledByCall
<1>2. call[c] \in CallRecords
  BY DEF PduIInv, PduTypeOK
<1>3. call[c].smf # "created"
  BY <1>1, <1>2 DEF PduIInv, SuccessIsBacked, CallRecords
<1>4. call[c].smf \notin {"unused", "queued"}
  BY <1>1 DEF PduIInv, CallsInOrder, InOrder
<1> QED
  BY <1>1, <1>2, <1>3, <1>4 DEF CallRecords

-----------------------------------------------------------------------------
\* The invariant holds of every behaviour of the three functions.
THEOREM PduInvariance == PduSpec => []PduIInv
BY PduInitInv, PduNextInv, PTL DEF PduSpec

\* The variables of the three functions keep their types (amf.py, smf.py, upf.py).
THEOREM PduTypesHold == PduSpec => []PduTypeOK
<1>1. PduIInv => PduTypeOK
  BY DEF PduIInv
<1> QED
  BY <1>1, PduInvariance, PTL

\* The three views of PDU sessions agree but for what a missing answer, a restart or a
\* deletion explains, for any number of UEs, requests and restarts (amf.py:346-450,
THEOREM ViewsOfSessionsAgree == PduSpec => []SessionsAgree
<1>1. PduIInv => SessionsAgree
  BY OrphansHaveACause DEF PduIInv, SessionsAgree
<1> QED
  BY <1>1, PduInvariance, PTL

-----------------------------------------------------------------------------
(* NRF.                                                                     *)

\* The dictionary lists what is registered one after the other.
OrderIsStrict ==
  /\ \A i, j \in NfIds : <<i, j>> \in nfOrder => i \in Listed /\ j \in Listed /\ <<j, i>> \notin nfOrder
  /\ \A i, j, k \in NfIds : <<i, j>> \in nfOrder /\ <<j, k>> \in nfOrder => <<i, k>> \in nfOrder
  /\ \A i, j \in Listed : i = j \/ <<i, j>> \in nfOrder \/ <<j, i>> \in nfOrder

\* The empty registry is in order.
LEMMA NrfInitInv == NrfInit => NrfTypeOK /\ OrderIsStrict
BY DEF NrfInit, NrfTypeOK, OrderIsStrict, Listed

\* What is appended to the dictionary comes after all that is there.
LEMMA AppendedStrict ==
  ASSUME NrfTypeOK, OrderIsStrict, NEW i \in NfIds,
         nfOrder' = Appended(i), Listed' = Listed \cup {i}
  PROVE  nfOrder' \subseteq NfIds \X NfIds /\ OrderIsStrict'
<1>1. Listed \subseteq NfIds
  BY DEF Listed
<1>2. CASE i \in Listed
  BY <1>1, <1>2 DEF NrfTypeOK, OrderIsStrict, Appended
<1>3. CASE i \notin Listed
  BY <1>1, <1>3 DEF NrfTypeOK, OrderIsStrict, Appended
<1> QED
  BY <1>2, <1>3

\* Registrations, patches and deregistrations keep the registry in order.
LEMMA NrfNextInv == NrfTypeOK /\ OrderIsStrict /\ [NrfNext]_nrfVars => NrfTypeOK' /\ OrderIsStrict'
<1> SUFFICES ASSUME NrfTypeOK, OrderIsStrict, [NrfNext]_nrfVars
             PROVE  NrfTypeOK' /\ OrderIsStrict'
  OBVIOUS
<1>1. CASE GetAccessToken \/ TokenExpires \/ UNCHANGED nrfVars
  BY <1>1 DEF GetAccessToken, TokenExpires, nrfVars, NrfTypeOK, OrderIsStrict, Listed
<1>2. ASSUME NEW i \in NfIds, NEW profile \in NfProfiles, RegisterNf(i, profile)
      PROVE  NrfTypeOK' /\ OrderIsStrict'
  <2>1. Listed' = Listed \cup {i}
    BY <1>2, NfRegistryAssumption DEF RegisterNf, NrfTypeOK, Listed
  <2>2. nfOrder' \subseteq NfIds \X NfIds /\ OrderIsStrict'
    BY <1>2, <2>1, AppendedStrict DEF RegisterNf
  <2> QED
    BY <1>2, <2>2 DEF RegisterNf, NrfTypeOK
<1>3. ASSUME NEW i \in NfIds, NEW status \in NfStatuses, PatchNfStatus(i, status)
      PROVE  NrfTypeOK' /\ OrderIsStrict'
  <2>1. nfProfile[i] \in NfProfiles
    BY <1>3 DEF PatchNfStatus, NrfTypeOK
  <2>2. [nfProfile[i] EXCEPT !.nfStatus = status] \in NfProfiles
    BY <2>1 DEF NfProfiles
  <2>3. NrfTypeOK' /\ Listed' = Listed
    BY <1>3, <2>1, <2>2, NfRegistryAssumption DEF PatchNfStatus, NrfTypeOK, Listed
  <2> QED
    BY <1>3, <2>3 DEF PatchNfStatus, OrderIsStrict
<1>4. ASSUME NEW i \in NfIds, DeregisterNf(i)
      PROVE  NrfTypeOK' /\ OrderIsStrict'
  <2>1. NrfTypeOK' /\ Listed' = Listed \ {i}
    BY <1>4 DEF DeregisterNf, NrfTypeOK, Listed
  <2>2. \A j, k \in NfIds : <<j, k>> \in nfOrder' <=> <<j, k>> \in nfOrder /\ j # i /\ k # i
    BY <1>4 DEF DeregisterNf
  <2> QED
    BY <2>1, <2>2 DEF OrderIsStrict, Listed
<1>5. ASSUME NEW i \in NfIds, NEW type \in NfTypes, LegacyRegisterNf(i, type)
      PROVE  NrfTypeOK' /\ OrderIsStrict'
  <2> DEFINE profile == [nfType |-> type, nfStatus |-> "REGISTERED",
                         allowed |-> {}, endpoint |-> TRUE, priority |-> 0, capacity |-> 0]
  <2>1. profile \in NfProfiles
    BY DEF NfProfiles, NfStatuses, Ranks
  <2>2. Listed' = Listed \cup {i}
    BY <1>5, <2>1, NfRegistryAssumption DEF LegacyRegisterNf, NrfTypeOK, Listed
  <2>3. nfOrder' \subseteq NfIds \X NfIds /\ OrderIsStrict'
    BY <1>5, <2>2, AppendedStrict DEF LegacyRegisterNf
  <2> QED
    BY <1>5, <2>1, <2>3 DEF LegacyRegisterNf, NrfTypeOK
<1> QED
  BY <1>1, <1>2, <1>3, <1>4, <1>5 DEF NrfNext

\* The sort the search uses is a strict total order of what it found.
LEMMA RanksBeforeIsStrict ==
  ASSUME NrfTypeOK, OrderIsStrict
  PROVE  /\ \A i \in Listed : ~ RanksBefore(i, i)
         /\ \A i, j, k \in Listed : RanksBefore(i, j) /\ RanksBefore(j, k) => RanksBefore(i, k)
         /\ \A i, j \in Listed : i = j \/ RanksBefore(i, j) \/ RanksBefore(j, i)
<1>1. /\ Listed \subseteq NfIds
      /\ \A i \in Listed : nfProfile[i].priority \in Int /\ nfProfile[i].capacity \in Int
  BY DEF Listed, NrfTypeOK, NfProfiles, Ranks
<1> QED
  BY <1>1 DEF RanksBefore, OrderIsStrict

\* The legacy endpoint finds an instance whenever one of the type has an endpoint.
LEMMA LegacyDiscoveryFinds ==
  ASSUME NrfTypeOK, OrderIsStrict, NEW type, type # "gNodeB",
         \E i \in Listed : nfProfile[i].nfType = type /\ nfProfile[i].endpoint
  PROVE  \E i \in Listed : /\ LegacyDiscover(type) = {i}
                          /\ nfProfile[i].nfType = type /\ nfProfile[i].endpoint
<1> DEFINE ofType == {i \in Listed : nfProfile[i].nfType = type /\ nfProfile[i].endpoint}
<1>1. ofType \subseteq NfIds /\ IsFiniteSet(ofType) /\ ofType # {}
  BY NfRegistryAssumption, FS_Subset DEF Listed
<1>2. PICK i \in ofType : \A j \in ofType : <<j, i>> \notin nfOrder
  <2>1. /\ \A x \in ofType : <<x, x>> \notin nfOrder
        /\ \A x, y, z \in ofType :
             <<x, y>> \in nfOrder /\ <<y, z>> \in nfOrder => <<x, z>> \in nfOrder
    BY <1>1 DEF OrderIsStrict
  <2> HIDE DEF ofType
  <2> QED
    BY <1>1, <2>1, FiniteSetHasMinimum
<1>3. \A j \in ofType : (\A k \in ofType : <<k, j>> \notin nfOrder) => j = i
  BY <1>2 DEF OrderIsStrict
<1>4. LegacyDiscover(type) = {i}
  BY <1>2, <1>3 DEF LegacyDiscover, UpperCase
<1> QED
  BY <1>4

\* No type has the name under which it would look for gNodeBs.
LEMMA GnodebsUnfound ==
  ASSUME NrfTypeOK
  PROVE  LegacyDiscover("gNodeB") = {}
<1>1. \A i \in Listed : nfProfile[i].nfType \in {"AUSF", "gNodeB"}
  BY DEF Listed, NrfTypeOK, NfProfiles, NfTypes
<1> QED
  BY <1>1 DEF LegacyDiscover, UpperCase

\* With a limit of one the search answers the single first of what it found.
LEMMA FirstIsAlone ==
  ASSUME NrfTypeOK, OrderIsStrict, NEW found, found \subseteq Listed, found # {}
  PROVE  \E i \in found :
           /\ {k \in found : Cardinality({j \in found : RanksBefore(j, k)}) < 1} = {i}
           /\ \A j \in found : j = i \/ RanksBefore(i, j)
<1> DEFINE R == {p \in found \X found : RanksBefore(p[1], p[2])}
           Before(k) == {j \in found : RanksBefore(j, k)}
<1>1. IsFiniteSet(found)
  BY NfRegistryAssumption, FS_Subset DEF Listed
<1>2. PICK i \in found : \A j \in found : <<j, i>> \notin R
  <2>1. /\ \A x \in found : <<x, x>> \notin R
        /\ \A x, y, z \in found : <<x, y>> \in R /\ <<y, z>> \in R => <<x, z>> \in R
    BY RanksBeforeIsStrict
  <2> HIDE DEF R
  <2> QED
    BY <1>1, <2>1, FiniteSetHasMinimum
<1>3. \A j \in found : j = i \/ RanksBefore(i, j)
  BY <1>2, RanksBeforeIsStrict
<1>4. \A k \in found : Cardinality(Before(k)) < 1 <=> Before(k) = {}
  <2> TAKE k \in found
  <2>1. IsFiniteSet(Before(k)) /\ Cardinality(Before(k)) \in Nat
    BY <1>1, FS_Subset, FS_CardinalityType
  <2> QED
    BY <2>1, FS_EmptySet
<1>5. \A k \in found : Before(k) = {} <=> k = i
  BY <1>2, <1>3
<1>6. {k \in found : Cardinality(Before(k)) < 1} = {i}
  BY <1>4, <1>5
<1> QED
  BY <1>3, <1>6

\* From the types and the order alone: what a search answers is sound.
LEMMA SearchIsSound == NrfTypeOK /\ OrderIsStrict => DiscoveryIsSound
<1> SUFFICES ASSUME NrfTypeOK, OrderIsStrict PROVE DiscoveryIsSound
  OBVIOUS
<1>1. ASSUME NEW target \in NfTypes, NEW requester \in {"AMF", "NEF"}, NEW limit \in 0..1
      PROVE  LET answer == FindNfInstances(target, requester, limit)
                 Qualifies(i) == i \in Listed /\ MatchesQuery(nfProfile[i], target, requester)
             IN /\ \A i \in answer : Qualifies(i)
                /\ \A i \in NfIds : Qualifies(i) =>
                     \/ i \in answer
                     \/ /\ limit > 0 /\ Cardinality(answer) = limit
                        /\ \A j \in answer :
                             \/ nfProfile[j].priority < nfProfile[i].priority
                             \/ /\ nfProfile[j].priority = nfProfile[i].priority
                                /\ nfProfile[j].capacity >= nfProfile[i].capacity
  <2> DEFINE found  == {i \in Listed : MatchesQuery(nfProfile[i], target, requester)}
             answer == FindNfInstances(target, requester, limit)
  <2>1. CASE limit = 0
    BY <2>1 DEF FindNfInstances
  <2>2. CASE limit = 1 /\ found = {}
    BY <2>2 DEF FindNfInstances
  <2>3. CASE limit = 1 /\ found # {}
    <3>1. answer = {k \in found : Cardinality({j \in found : RanksBefore(j, k)}) < 1}
      BY <2>3 DEF FindNfInstances
    <3>2. PICK i \in found : answer = {i} /\ \A j \in found : j = i \/ RanksBefore(i, j)
      <4> HIDE DEF found, answer
      <4>1. found \subseteq Listed
        BY DEF found
      <4> QED
        BY <2>3, <3>1, <4>1, FirstIsAlone
    <3>3. Cardinality(answer) = 1
      BY <3>2, FS_Singleton
    <3>4. \A j \in Listed : nfProfile[j].priority \in Int /\ nfProfile[j].capacity \in Int
      BY DEF Listed, NrfTypeOK, NfProfiles, Ranks
    <3>5. \A j \in found : j \notin answer =>
            \/ nfProfile[i].priority < nfProfile[j].priority
            \/ /\ nfProfile[i].priority = nfProfile[j].priority
               /\ nfProfile[i].capacity >= nfProfile[j].capacity
      <4>1. found \subseteq Listed
        OBVIOUS
      <4> HIDE DEF found, answer
      <4>2. SUFFICES ASSUME NEW j \in found, j \notin answer
                     PROVE  \/ nfProfile[i].priority < nfProfile[j].priority
                            \/ /\ nfProfile[i].priority = nfProfile[j].priority
                               /\ nfProfile[i].capacity >= nfProfile[j].capacity
        OBVIOUS
      <4>3. RanksBefore(i, j)
        BY <3>2, <4>2
      <4> QED
        BY <3>4, <4>1, <4>3 DEF RanksBefore
    <3> QED
      BY <2>3, <3>2, <3>3, <3>5
  <2> QED
    BY <2>1, <2>2, <2>3
<1> QED
  BY <1>1, LegacyDiscoveryFinds, GnodebsUnfound DEF DiscoveryIsSound

-----------------------------------------------------------------------------
(* Registration: AMF, AUSF and UDM.                                         *)

\* A subscriber nobody has authenticated yet has the same views everywhere.
LEMMA RegInitInv == RegInit => RegTypeOK /\ UdmViewsAgree
BY RegistrationAssumption DEF RegInit, RegTypeOK, UdmViewsAgree

\* What a request to the AUSF does to its contexts and to the UDM's events.
LEMMA AuthOutcomeTyped ==
  ASSUME RegTypeOK, NEW a \in AuthIds, NEW s \in Supis, NEW reached \in BOOLEAN,
         AuthOutcome(a, s, reached)
  PROVE  /\ authContext' \in [AuthIds -> AuthContexts \cup {NoContext}]
         /\ authEvents' \in [Supis -> 0..MaxEvents]
<1>1. CASE reached /\ s \in Provisioned
  BY <1>1, RegistrationAssumption DEF RegTypeOK, AuthOutcome
<1>2. CASE ~ (reached /\ s \in Provisioned)
  <2>1. [supi |-> s, status |-> "ONGOING"] \in AuthContexts
    BY DEF AuthContexts
  <2> QED
    BY <1>2, <2>1 DEF RegTypeOK, AuthOutcome
<1> QED
  BY <1>1, <1>2

\* What the confirmation of a challenge leaves at AUSF and UDM is of their types.
LEMMA ConfirmedTyped ==
  ASSUME RegTypeOK, NEW a \in AuthIds, NEW valid \in BOOLEAN, Confirmed(a, valid)
  PROVE  authContext' \in [AuthIds -> AuthContexts \cup {NoContext}]
<1>1. authContext[a] \in AuthContexts
  BY DEF RegTypeOK, Confirmed
<1>2. [authContext[a] EXCEPT !.status = IF valid THEN "SUCCESS" ELSE "FAILURE"] \in AuthContexts
  BY <1>1 DEF AuthContexts
<1> QED
  BY <1>2 DEF RegTypeOK, Confirmed

\* Every request of the AMF, the AUSF or an operator keeps the UDM's views together.
LEMMA RegNextInv ==
  RegTypeOK /\ UdmViewsAgree /\ [RegNext]_regVars => RegTypeOK' /\ UdmViewsAgree'
<1> SUFFICES ASSUME RegTypeOK, UdmViewsAgree, [RegNext]_regVars
             PROVE  RegTypeOK' /\ UdmViewsAgree'
  OBVIOUS
<1> USE DEF RegTypeOK, UdmViewsAgree, nasVars, udmVars
<1>1. ASSUME NEW s \in Supis, AmfRegistration(s)
      PROVE  RegTypeOK' /\ UdmViewsAgree'
  BY <1>1 DEF AmfRegistration
<1>2. ASSUME NEW s \in Supis, AmfDeregistration(s)
      PROVE  RegTypeOK' /\ UdmViewsAgree'
  BY <1>2 DEF AmfDeregistration
<1>3. ASSUME NEW a \in AuthIds, NEW s \in Supis, NEW reached \in BOOLEAN,
             UeAuthenticationRequest(a, s, reached)
      PROVE  RegTypeOK' /\ UdmViewsAgree'
  BY <1>3, AuthOutcomeTyped DEF UeAuthenticationRequest
<1>4. ASSUME NEW a \in AuthIds, NEW s \in Supis, NEW reached \in BOOLEAN,
             RegistrationChallenged(s, a, reached)
      PROVE  RegTypeOK' /\ UdmViewsAgree'
  BY <1>4, AuthOutcomeTyped DEF RegistrationChallenged
<1>5. ASSUME NEW a \in AuthIds, NEW s \in Supis, NEW valid \in BOOLEAN,
             AuthenticationResponse(s, a, valid)
      PROVE  RegTypeOK' /\ UdmViewsAgree'
  BY <1>5, ConfirmedTyped DEF AuthenticationResponse
<1>6. ASSUME NEW a \in AuthIds, NEW valid \in BOOLEAN, AuthenticationConfirmation(a, valid)
      PROVE  RegTypeOK' /\ UdmViewsAgree'
  BY <1>6, ConfirmedTyped DEF AuthenticationConfirmation
<1>7. ASSUME NEW a \in AuthIds, DeleteAuthenticationContext(a)
      PROVE  RegTypeOK' /\ UdmViewsAgree'
  BY <1>7 DEF DeleteAuthenticationContext
<1>8. ASSUME NEW s \in Supis, RegistrationAccepted(s)
      PROVE  RegTypeOK' /\ UdmViewsAgree'
  BY <1>8, RegistrationAssumption DEF RegistrationAccepted
<1>9. ASSUME NEW s \in Supis, SecurityModeComplete(s)
      PROVE  RegTypeOK' /\ UdmViewsAgree'
  BY <1>9 DEF SecurityModeComplete
<1>10. ASSUME NEW p \in NasSessions, NEW reached \in BOOLEAN, NasPduSession(p, reached)
       PROVE  RegTypeOK' /\ UdmViewsAgree'
  BY <1>10 DEF NasPduSession
<1>11. CASE UNCHANGED regVars
  BY <1>11 DEF regVars
<1> QED
  BY <1>1, <1>2, <1>3, <1>4, <1>5, <1>6, <1>7, <1>8, <1>9, <1>10, <1>11 DEF RegNext

-----------------------------------------------------------------------------
(* PCF, BSF and CHF.                                                        *)

\* What an update makes of a decision has a QoS decision for each of its rules.
LEMMA DecisionsTyped ==
  ASSUME NEW d \in Decisions, d.qos \ {"voice"} = d.rules
  PROVE  \A e \in {QosRequested(d), AppStarted(d), AppStopped(d)} :
           e \in Decisions /\ e.qos \ {"voice"} = e.rules
<1>1. QosRequested(d) \in Decisions
  <2>1. d.qos \cup {"voice"} \in SUBSET (Services \cup {"voice"})
    BY DEF Decisions
  <2> QED
    BY <2>1 DEF Decisions, QosRequested
<1>2. QosRequested(d).qos \ {"voice"} = QosRequested(d).rules
  BY DEF Decisions, QosRequested
<1>3. AppStarted(d) \in Decisions /\ AppStarted(d).qos \ {"voice"} = AppStarted(d).rules
  BY DEF Decisions, AppStarted, Services
<1>4. AppStopped(d) \in Decisions /\ AppStopped(d).qos \ {"voice"} = AppStopped(d).rules
  BY DEF Decisions, AppStopped, Services
<1> QED
  BY <1>1, <1>2, <1>3, <1>4

\* There are no decisions at first.
LEMMA PcfInitInv == PolInit => PcfTypeOK /\ RulesHaveTheirQos
BY DEF PolInit, PcfTypeOK, RulesHaveTheirQos

\* Every request to the PCF keeps rules and QoS decisions together: RulesHaveTheirQos is
\* inductive with the types.
LEMMA PcfNextInv ==
  PcfTypeOK /\ RulesHaveTheirQos /\ [PcfNext]_pcfVars => PcfTypeOK' /\ RulesHaveTheirQos'
<1> SUFFICES ASSUME PcfTypeOK, RulesHaveTheirQos, [PcfNext]_pcfVars
             PROVE  PcfTypeOK' /\ RulesHaveTheirQos'
  OBVIOUS
<1> USE PolicyChargingAssumption
<1>1. ASSUME NEW a \in Associations, NEW dnn \in Services, CreateSmPolicy(a, dnn)
      PROVE  PcfTypeOK' /\ RulesHaveTheirQos'
  <2> DEFINE d == SmPolicyDecision(dnn)
  <2>1. d \in Decisions /\ d.qos \ {"voice"} = d.rules
    BY DEF SmPolicyDecision, Decisions, Services
  <2> HIDE DEF d
  <2>2. PcfTypeOK'
    BY <1>1, <2>1 DEF CreateSmPolicy, PcfTypeOK, d
  <2>3. RulesHaveTheirQos'
    BY <1>1, <2>1 DEF CreateSmPolicy, PcfTypeOK, RulesHaveTheirQos, d
  <2> QED
    BY <2>2, <2>3
<1>2. ASSUME NEW a \in Associations, UpdateSmPolicy(a)
      PROVE  PcfTypeOK' /\ RulesHaveTheirQos'
  <2>1. smPolicy[a] \in Decisions /\ smPolicy[a].qos \ {"voice"} = smPolicy[a].rules
    BY <1>2 DEF UpdateSmPolicy, PcfTypeOK, RulesHaveTheirQos
  <2>2. ASSUME NEW d \in Decisions, d.qos \ {"voice"} = d.rules,
               smPolicy' = [smPolicy EXCEPT ![a] = d], UNCHANGED <<policyOf, throttled>>
        PROVE  PcfTypeOK' /\ RulesHaveTheirQos'
    BY <1>2, <2>2 DEF UpdateSmPolicy, PcfTypeOK, RulesHaveTheirQos
  <2>3. CASE throttled' = TRUE /\ UNCHANGED <<smPolicy, policyOf>>
    BY <2>3 DEF PcfTypeOK, RulesHaveTheirQos
  <2>4. \/ /\ UNCHANGED <<policyOf, throttled>>
           /\ \E d \in {QosRequested(smPolicy[a]), AppStarted(smPolicy[a]), AppStopped(smPolicy[a])} :
                smPolicy' = [smPolicy EXCEPT ![a] = d]
        \/ throttled' = TRUE /\ UNCHANGED <<smPolicy, policyOf>>
    BY <1>2 DEF UpdateSmPolicy
  <2> QED
    BY <2>1, <2>2, <2>3, <2>4, DecisionsTyped
<1>3. ASSUME NEW a \in Associations, DeleteSmPolicy(a)
      PROVE  PcfTypeOK' /\ RulesHaveTheirQos'
  BY <1>3 DEF DeleteSmPolicy, PcfTypeOK, RulesHaveTheirQos
<1>4. CASE UNCHANGED pcfVars
  BY <1>4 DEF pcfVars, PcfTypeOK, RulesHaveTheirQos
<1> QED
  BY <1>1, <1>2, <1>3, <1>4 DEF PcfNext
-----------------------------------------------------------------------------
\* An index entry leads to a binding that has the address.
IndexPointsToHolders ==
  \A f \in Families, x \in Addresses :
    ipIndex[f][x] # Absent =>
      pcfBinding[ipIndex[f][x]] # Absent /\ pcfBinding[ipIndex[f][x]][f] = x

\* That is all the search needs.
LEMMA HoldersFound ==
  BsfTypeOK /\ IndexPointsToHolders => BindingsFindable
<1> SUFFICES ASSUME BsfTypeOK, IndexPointsToHolders, NEW f \in Families, NEW x \in Addresses
             PROVE  FindBindings(f, x) = {} <=> \A b \in Bindings : pcfBinding[b] # Absent => pcfBinding[b][f] # x
  BY DEF BindingsFindable, IndexPointsToHolders
<1>1. CASE ipIndex[f][x] # Absent
  <2>1. PICK b \in Bindings : b = ipIndex[f][x]
    BY <1>1 DEF BsfTypeOK
  <2>2. pcfBinding[b] # Absent /\ pcfBinding[b][f] = x
    BY <1>1, <2>1 DEF IndexPointsToHolders
  <2>3. b \in FindBindings(f, x)
    BY <1>1, <2>1, <2>2 DEF FindBindings
  <2> QED
    BY <2>2, <2>3
<1>2. CASE ipIndex[f][x] = Absent
  BY <1>2 DEF FindBindings
<1> QED
  BY <1>1, <1>2

\* The indexes are empty at first.
LEMMA BsfInitInv == PolInit => BsfTypeOK /\ IndexPointsToHolders
BY DEF PolInit, BsfTypeOK, IndexPointsToHolders, Families

\* The states in which update_binding leaves a binding and the indexes between families.
Rebindings == [addr : AddressPairs, index : [Families -> [Addresses -> Bindings \cup {Absent}]],
               ok : BOOLEAN]

\* Such a state leads to binding b only by the addresses it has got, and to others as
\* before.
Consistent(st, b) ==
  \A f \in Families, x \in Addresses :
    /\ st.index[f][x] = b => st.addr[f] = x
    /\ st.index[f][x] \notin {b, Absent} =>
         pcfBinding[st.index[f][x]] # Absent /\ pcfBinding[st.index[f][x]][f] = x

\* The update of one family, the one that raises too, keeps such a state consistent.
LEMMA ReboundConsistent ==
  ASSUME NEW b \in Bindings, NEW st \in Rebindings, NEW f \in Families, NEW new \in MaybeAddress,
         Consistent(st, b)
  PROVE  Rebound(st, b, f, new) \in Rebindings /\ Consistent(Rebound(st, b, f, new), b)
<1> USE PolicyChargingAssumption
<1> DEFINE old == st.addr[f]
           idx == [x \in Addresses |-> IF x = new THEN b
                                       ELSE IF x = old THEN Absent ELSE st.index[f][x]]
           r == [addr |-> [st.addr EXCEPT ![f] = new], index |-> [st.index EXCEPT ![f] = idx], ok |-> st.ok]
<1>1. CASE new = Absent \/ ~ st.ok
  BY <1>1 DEF Rebound
<1>2. CASE ~ (new = Absent \/ ~ st.ok) /\ old # Absent /\ st.index[f][old] = Absent
  <2>1. Rebound(st, b, f, new) = [st EXCEPT !.ok = FALSE]
    BY <1>2 DEF Rebound
  <2>2. [st EXCEPT !.ok = FALSE] \in Rebindings
    BY DEF Rebindings
  <2>3. Consistent([st EXCEPT !.ok = FALSE], b)
    BY DEF Rebindings, Consistent
  <2> QED
    BY <2>1, <2>2, <2>3
<1>3. CASE ~ (new = Absent \/ ~ st.ok) /\ ~ (old # Absent /\ st.index[f][old] = Absent)
  <2>0. new \in Addresses
    BY <1>3 DEF MaybeAddress
  <2>1. idx \in [Addresses -> Bindings \cup {Absent}]
    BY DEF Rebindings
  <2>2. r \in Rebindings
    BY <2>1 DEF Rebindings, AddressPairs
  <2>3. Rebound(st, b, f, new) = r
    BY <1>3 DEF Rebound, Rebindings, AddressPairs
  <2>4. ASSUME NEW g \in Families, NEW x \in Addresses
        PROVE  /\ r.index[g][x] = b => r.addr[g] = x
               /\ r.index[g][x] \notin {b, Absent} =>
                    pcfBinding[r.index[g][x]] # Absent /\ pcfBinding[r.index[g][x]][g] = x
    <3>1. CASE g # f
      <4>1. r.index[g] = st.index[g] /\ r.addr[g] = st.addr[g]
        BY <3>1 DEF Rebindings, AddressPairs
      <4> HIDE DEF r
      <4> QED
        BY <4>1 DEF Consistent
    <3>2. CASE g = f
      <4>1. r.index[g][x] = idx[x] /\ r.addr[g] = new
        BY <3>2 DEF Rebindings, AddressPairs
      <4>2. st.index[f][x] = b => st.addr[f] = x
        BY DEF Consistent
      <4>3. st.index[f][x] \notin {b, Absent} =>
              pcfBinding[st.index[f][x]] # Absent /\ pcfBinding[st.index[f][x]][f] = x
        BY DEF Consistent
      <4>4. idx[x] = IF x = new THEN b ELSE IF x = old THEN Absent ELSE st.index[f][x]
        OBVIOUS
      <4> HIDE DEF r, idx
      <4> QED
        BY <4>1, <4>2, <4>3, <4>4, <3>2
    <3> QED
      BY <3>1, <3>2
  <2> HIDE DEF r
  <2>5. Consistent(r, b)
    BY <2>4 DEF Consistent
  <2> QED
    BY <2>2, <2>3, <2>5
<1> QED
  BY <1>1, <1>2, <1>3

\* Every request to the BSF keeps the indexes leading to holders.
LEMMA BsfNextInv ==
  BsfTypeOK /\ IndexPointsToHolders /\ [BsfNext]_bsfVars => BsfTypeOK' /\ IndexPointsToHolders'
<1> SUFFICES ASSUME BsfTypeOK, IndexPointsToHolders, [BsfNext]_bsfVars
             PROVE  BsfTypeOK' /\ IndexPointsToHolders'
  OBVIOUS
<1> USE PolicyChargingAssumption
<1>1. ASSUME NEW b \in Bindings, NEW addr \in AddressPairs, CreateBinding(b, addr)
      PROVE  BsfTypeOK' /\ IndexPointsToHolders'
  <2>1. BsfTypeOK'
    BY <1>1 DEF CreateBinding, BsfTypeOK
  <2>2. ASSUME NEW f \in Families, NEW x \in Addresses, (ipIndex')[f][x] # Absent,
               NEW c \in Bindings, c = (ipIndex')[f][x]
        PROVE  (pcfBinding')[c] # Absent /\ (pcfBinding')[c][f] = x
    <3>1. (ipIndex')[f][x] = IF x = addr[f] THEN b ELSE ipIndex[f][x]
      BY <1>1 DEF CreateBinding
    <3>2. (pcfBinding')[c] = IF c = b THEN addr ELSE pcfBinding[c]
      BY <1>1 DEF CreateBinding, BsfTypeOK
    <3>3. addr # Absent
      OBVIOUS
    <3>4. CASE x = addr[f]
      BY <3>1, <3>2, <3>3, <3>4, <2>2
    <3>5. CASE x # addr[f]
      <4>1. c = ipIndex[f][x] /\ pcfBinding[c] # Absent /\ pcfBinding[c][f] = x
        BY <3>1, <3>5, <2>2 DEF IndexPointsToHolders
      <4> QED
        BY <4>1, <3>2, <1>1 DEF CreateBinding
    <3> QED
      BY <3>4, <3>5
  <2> QED
    BY <2>1, <2>2 DEF BsfTypeOK, IndexPointsToHolders
<1>2. ASSUME NEW b \in Bindings, NEW patch \in AddressPairs, PatchBinding(b, patch)
      PROVE  BsfTypeOK' /\ IndexPointsToHolders'
  <2> DEFINE st0 == [addr |-> pcfBinding[b], index |-> ipIndex, ok |-> TRUE]
             st1 == Rebound(st0, b, "v4", patch["v4"])
             st2 == Rebound(st1, b, "v6", patch["v6"])
  <2>1. st0 \in Rebindings
    BY <1>2 DEF PatchBinding, BsfTypeOK, Rebindings
  <2>2. Consistent(st0, b)
    BY DEF Consistent, IndexPointsToHolders, BsfTypeOK
  <2>3. patch["v4"] \in MaybeAddress /\ patch["v6"] \in MaybeAddress /\ "v4" \in Families /\ "v6" \in Families
    BY DEF AddressPairs, Families
  <2>4. pcfBinding' = [pcfBinding EXCEPT ![b] = st2.addr] /\ ipIndex' = st2.index /\ pcfBinding[b] # Absent
    BY <1>2 DEF PatchBinding
  <2> HIDE DEF st0
  <2>5. st1 \in Rebindings /\ Consistent(st1, b)
    BY <2>1, <2>2, <2>3, ReboundConsistent
  <2> HIDE DEF st1
  <2>6. st2 \in Rebindings /\ Consistent(st2, b)
    BY <2>5, <2>3, ReboundConsistent
  <2> HIDE DEF st2
  <2>7. BsfTypeOK'
    BY <2>4, <2>6 DEF BsfTypeOK, Rebindings
  <2>8. ASSUME NEW f \in Families, NEW x \in Addresses, (ipIndex')[f][x] # Absent,
               NEW c \in Bindings, c = (ipIndex')[f][x]
        PROVE  (pcfBinding')[c] # Absent /\ (pcfBinding')[c][f] = x
    <3>1. (pcfBinding')[c] = IF c = b THEN st2.addr ELSE pcfBinding[c]
      BY <2>4 DEF BsfTypeOK
    <3>2. c = st2.index[f][x]
      BY <2>8, <2>4
    <3>3. st2.addr \in AddressPairs
      BY <2>6 DEF Rebindings
    <3>4. st2.addr # Absent
      BY <3>3
    <3>5. c = b => st2.addr[f] = x
      BY <3>2, <2>6 DEF Consistent
    <3>6. c # b => pcfBinding[c] # Absent /\ pcfBinding[c][f] = x
      BY <3>2, <2>6 DEF Consistent
    <3> QED
      BY <3>1, <3>4, <3>5, <3>6
  <2> QED
    BY <2>7, <2>8 DEF BsfTypeOK, IndexPointsToHolders
<1>3. ASSUME NEW b \in Bindings, DeleteBinding(b)
      PROVE  BsfTypeOK' /\ IndexPointsToHolders'
  <2>1. BsfTypeOK'
    BY <1>3 DEF DeleteBinding, BsfTypeOK
  <2>2. ASSUME NEW f \in Families, NEW x \in Addresses, (ipIndex')[f][x] # Absent,
               NEW c \in Bindings, c = (ipIndex')[f][x]
        PROVE  (pcfBinding')[c] # Absent /\ (pcfBinding')[c][f] = x
    <3>1. c = ipIndex[f][x] /\ x # pcfBinding[b][f]
      BY <1>3, <2>2 DEF DeleteBinding
    <3>2. pcfBinding[c] # Absent /\ pcfBinding[c][f] = x
      BY <3>1, <2>2, ZenonT(30) DEF IndexPointsToHolders
    <3>3. c # b
      BY <3>1, <3>2
    <3> QED
      BY <3>2, <3>3, <1>3 DEF DeleteBinding, BsfTypeOK
  <2> QED
    BY <2>1, <2>2 DEF BsfTypeOK, IndexPointsToHolders
<1>4. CASE UNCHANGED bsfVars
  BY <1>4 DEF bsfVars, BsfTypeOK, IndexPointsToHolders
<1> QED
  BY <1>1, <1>2, <1>3, <1>4 DEF BsfNext
-----------------------------------------------------------------------------
\* A charging session whose totals cover its groups, each group charged at its rates.
Balanced(c) ==
  /\ c \in ChargingSessions
  /\ c.groups[2].used + c.groups[3].used <= c.volume
  /\ c.groups[2].charge + c.groups[3].charge <= c.charge
  /\ c.groups[3].charge = 2 * c.groups[3].used
  /\ \E minutes \in 0..c.time : c.groups[2].charge = 5 * minutes
  /\ c.charge <= 2 * c.volume + 5 * c.time

\* The data records of a session: none before its release, none above its charge, each at
\* least the one before.
RecordsFollow(c, stated) ==
  /\ \A i \in DOMAIN stated :
       stated[i] <= c.charge /\ (i > 1 => stated[i - 1] <= stated[i])
  /\ (c.status = "CLOSED") = (stated # <<>>)

\* The inductive invariant of the CHF: ChargesAddUp says nothing of a bound on the charge,
\* which its type needs.
ChargesWithinUnits ==
  \A s \in ChargingIds :
    IF charging[s] = Absent THEN cdrs[s] = <<>>
    ELSE Balanced(charging[s]) /\ RecordsFollow(charging[s], cdrs[s])

\* The invariant implies ChargesAddUp.
LEMMA ChargesFollow == ChfTypeOK /\ ChargesWithinUnits => ChargesAddUp
<1>1. ASSUME NEW c, Balanced(c), NEW g \in RatingGroups
      PROVE  \E minutes \in 0..c.time :
               c.groups[g].charge = c.groups[g].used * PerMb(g) + minutes * PerMinute(g)
  <2>1. /\ c.groups[2].used \in Nat /\ c.groups[3].used \in Nat
        /\ c.groups[2].charge \in Nat /\ c.groups[3].charge \in Nat /\ c.time \in Nat
    BY <1>1, PolicyChargingAssumption DEF Balanced, ChargingSessions, GroupRecords, RatingGroups, Charges
  <2>2. CASE g = 2
    <3>1. PICK minutes \in 0..c.time : c.groups[2].charge = 5 * minutes
      BY <1>1 DEF Balanced
    <3>2. c.groups[g].used * PerMb(g) = 0 /\ minutes * PerMinute(g) = 5 * minutes
      BY <2>1, <2>2 DEF PerMb, PerMinute
    <3> QED
      BY <2>1, <2>2, <3>1, <3>2
  <2>3. CASE g = 3
    <3>1. c.groups[g].used * PerMb(g) = 2 * c.groups[3].used /\ 0 * PerMinute(g) = 0
      BY <2>1, <2>3 DEF PerMb, PerMinute
    <3>2. c.groups[3].charge = 2 * c.groups[3].used /\ 0 \in 0..c.time
      BY <1>1, <2>1 DEF Balanced
    <3> QED
      BY <2>1, <2>3, <3>1, <3>2
  <2> QED
    BY <2>2, <2>3 DEF RatingGroups
<1>2. ASSUME ChfTypeOK, ChargesWithinUnits, NEW s \in ChargingIds, charging[s] # Absent
      PROVE  Balanced(charging[s]) /\ RecordsFollow(charging[s], cdrs[s])
  BY <1>2 DEF ChargesWithinUnits
<1>3. ASSUME ChfTypeOK, ChargesWithinUnits, NEW s \in ChargingIds, charging[s] = Absent
      PROVE  cdrs[s] = <<>>
  BY <1>3 DEF ChargesWithinUnits
<1> QED
  BY <1>1, <1>2, <1>3 DEF ChargesAddUp, Balanced, RecordsFollow

\* Opening a group keeps a session balanced.
LEMMA GrantedBalanced ==
  ASSUME NEW c, Balanced(c), NEW g \in RatingGroups
  PROVE  /\ Balanced(Granted(c, g))
         /\ Granted(c, g).charge = c.charge /\ Granted(c, g).status = c.status
<1> DEFINE h == [c.groups EXCEPT ![g].open = TRUE]
           d == [c EXCEPT !.groups = h]
<1>1. CASE balance = "spent"
  BY <1>1 DEF Granted
<1>2. CASE balance # "spent"
  <2>1. Granted(c, g) = d
    BY <1>2 DEF Granted, Balanced, ChargingSessions
  <2>2. c.groups \in [RatingGroups -> GroupRecords]
    BY DEF Balanced, ChargingSessions
  <2>3. h \in [RatingGroups -> GroupRecords]
    BY <2>2 DEF GroupRecords
  <2>4. \A k \in RatingGroups : h[k].used = c.groups[k].used /\ h[k].charge = c.groups[k].charge
    BY <2>2 DEF GroupRecords
  <2>5. d \in ChargingSessions /\ d.groups = h /\ d.volume = c.volume /\ d.time = c.time /\ d.charge = c.charge /\ d.status = c.status
    BY <2>3 DEF Balanced, ChargingSessions
  <2> HIDE DEF d, h
  <2>6. 2 \in RatingGroups /\ 3 \in RatingGroups
    BY DEF RatingGroups
  <2>7. Balanced(d)
    BY <2>4, <2>5, <2>6 DEF Balanced
  <2> QED
    BY <2>1, <2>5, <2>7
<1> QED
  BY <1>1, <1>2

\* Recording usage keeps it balanced and lowers no charge.
LEMMA RecordedBalanced ==
  ASSUME NEW c, Balanced(c), NEW r \in Reports,
         c.volume + r.volume <= MaxUsage, c.time + r.time <= MaxUsage
  PROVE  /\ Balanced(Recorded(c, r))
         /\ Recorded(c, r).charge >= c.charge /\ Recorded(c, r).status = c.status
<1> USE PolicyChargingAssumption
<1> DEFINE g == r.group
           more == r.volume * PerMb(r.group) + r.time * PerMinute(r.group)
           w == [open |-> TRUE, used |-> c.groups[g].used + r.volume,
                 charge |-> c.groups[g].charge + more]
           h == [c.groups EXCEPT ![g] = w]
           t == [c EXCEPT !.volume = @ + r.volume, !.time = @ + r.time, !.charge = @ + more]
           d == [c EXCEPT !.volume = c.volume + r.volume, !.time = c.time + r.time,
                          !.charge = c.charge + more, !.groups = h]
<1>0. /\ c.volume \in 0..MaxUsage /\ c.time \in 0..MaxUsage /\ c.charge \in Nat
      /\ c.groups \in [RatingGroups -> GroupRecords]
      /\ 2 \in RatingGroups /\ 3 \in RatingGroups
      /\ r.volume \in Nat /\ r.time \in Nat /\ g \in RatingGroups
  BY DEF Balanced, ChargingSessions, RatingGroups, Reports, Charges
<1>1. /\ more \in Nat /\ more <= 2 * r.volume + 5 * r.time
      /\ (g = 2 => more = 5 * r.time) /\ (g = 3 => more = 2 * r.volume)
  <2>1. CASE g = 2
    BY <2>1, <1>0 DEF PerMb, PerMinute
  <2>2. CASE g = 3
    BY <2>2, <1>0 DEF PerMb, PerMinute
  <2> QED
    BY <2>1, <2>2, <1>0 DEF RatingGroups
<1>2. c.volume + r.volume \in 0..MaxUsage /\ c.time + r.time \in 0..MaxUsage
  BY <1>0
<1>3. /\ c.charge + more \in Charges /\ c.charge + more >= c.charge
      /\ c.charge + more <= 2 * (c.volume + r.volume) + 5 * (c.time + r.time)
  <2>1. c.charge <= 2 * c.volume + 5 * c.time
    BY DEF Balanced
  <2> HIDE DEF more
  <2> QED
    BY <2>1, <1>0, <1>1, <1>2 DEF Charges
<1>4. /\ t \in ChargingSessions /\ t.volume = c.volume + r.volume /\ t.time = c.time + r.time
      /\ t.charge = c.charge + more /\ t.groups = c.groups /\ t.status = c.status
  <2>1. t = [c EXCEPT !.volume = c.volume + r.volume, !.time = c.time + r.time, !.charge = c.charge + more]
    BY DEF Balanced, ChargingSessions
  <2> HIDE DEF t, more
  <2> QED
    BY <2>1, <1>2, <1>3 DEF Balanced, ChargingSessions
<1>5. CASE ~ c.groups[g].open
  <2>1. Recorded(c, r) = t
    BY <1>5 DEF Recorded
  <2>2. /\ c.groups[2].used \in Nat /\ c.groups[3].used \in Nat
        /\ c.groups[2].charge \in Nat /\ c.groups[3].charge \in Nat
    BY <1>0 DEF GroupRecords, Charges
  <2> HIDE DEF t, more
  <2>3. \E minutes \in 0..t.time : t.groups[2].charge = 5 * minutes
    <3>1. PICK minutes \in 0..c.time : c.groups[2].charge = 5 * minutes
      BY DEF Balanced
    <3>2. minutes \in 0..t.time
      BY <3>1, <1>0, <1>4
    <3> QED
      BY <3>1, <3>2, <1>4
  <2>4. /\ t.groups[2].used + t.groups[3].used <= t.volume
        /\ t.groups[2].charge + t.groups[3].charge <= t.charge
        /\ t.groups[3].charge = 2 * t.groups[3].used
    BY <1>0, <1>1, <1>4, <2>2 DEF Balanced
  <2>5. Balanced(t)
    BY <2>3, <2>4, <1>3, <1>4 DEF Balanced
  <2> QED
    BY <2>1, <2>5, <1>3, <1>4
<1>6. CASE c.groups[g].open
  <2>1. Recorded(c, r) = d
    <3>1. Recorded(c, r) = [t EXCEPT !.groups = [t.groups EXCEPT ![g] =
            [open |-> TRUE, used |-> t.groups[g].used + r.volume, charge |-> t.groups[g].charge + more]]]
      BY <1>6 DEF Recorded
    <3>2. Recorded(c, r) = [t EXCEPT !.groups = h]
      BY <3>1, <1>4
    <3>3. [t EXCEPT !.groups = h] = d
      <4> HIDE DEF h, more
      <4> QED
        BY DEF Balanced, ChargingSessions
    <3> QED
      BY <3>2, <3>3
  <2>2. \A k \in RatingGroups : c.groups[k].used \in Nat /\ c.groups[k].charge \in Nat
    BY <1>0, PolicyChargingAssumption DEF GroupRecords, Charges
  <2>3. c.groups[2].used + c.groups[3].used <= c.volume /\ c.groups[2].charge + c.groups[3].charge <= c.charge
    BY DEF Balanced
  <2>4. c.groups[g].used + r.volume \in 0..MaxUsage /\ c.groups[g].charge + more \in Charges
    <3> HIDE DEF more
    <3>1. g = 2 \/ g = 3
      BY <1>0 DEF RatingGroups
    <3>2. c.groups[g].used <= c.volume /\ c.groups[g].charge <= c.charge
      BY <3>1, <2>2, <2>3, <1>0
    <3> HIDE DEF g
    <3>3. c.groups[g].used + r.volume \in 0..MaxUsage
      BY <3>2, <2>2, <1>0, <1>2
    <3>4. c.groups[g].charge + more \in Charges
      BY <3>2, <2>2, <1>0, <1>1, <1>3 DEF Charges
    <3> QED
      BY <3>3, <3>4
  <2>5. h[g] = w /\ \A k \in RatingGroups \ {g} : h[k] = c.groups[k]
    BY <1>0
  <2>6. h[g] \in GroupRecords /\ h[g].used = c.groups[g].used + r.volume /\ h[g].charge = c.groups[g].charge + more
    <3>1. w.used = c.groups[g].used + r.volume /\ w.charge = c.groups[g].charge + more /\ w.open
      OBVIOUS
    <3>2. w \in GroupRecords
      BY <2>4 DEF GroupRecords
    <3> HIDE DEF more, h, w
    <3> QED
      BY <3>1, <3>2, <2>5
  <2>7. h \in [RatingGroups -> GroupRecords]
    BY <2>6, <2>5, <1>0
  <2>8. /\ d \in ChargingSessions /\ d.volume = c.volume + r.volume /\ d.time = c.time + r.time
        /\ d.charge = c.charge + more /\ d.groups = h /\ d.status = c.status
    <3> HIDE DEF more, h
    <3> QED
      BY <1>2, <1>3, <2>7 DEF Balanced, ChargingSessions
  <2> HIDE DEF d, h
  <2>9. d.groups[3].charge = 2 * d.groups[3].used
    <3>1. c.groups[3].charge = 2 * c.groups[3].used
      BY DEF Balanced
    <3> HIDE DEF more
    <3>2. CASE g = 3
      BY <3>1, <3>2, <1>0, <1>1, <2>2, <2>6, <2>8
    <3>3. CASE g # 3
      BY <3>1, <3>3, <1>0, <2>5, <2>8
    <3> QED
      BY <3>2, <3>3
  <2>10. \E minutes \in 0..d.time : d.groups[2].charge = 5 * minutes
    <3>1. PICK minutes \in 0..c.time : c.groups[2].charge = 5 * minutes
      BY DEF Balanced
    <3> HIDE DEF more
    <3>2. CASE g = 2
      <4>1. minutes + r.time \in 0..d.time
        BY <3>1, <1>0, <2>8
      <4>2. d.groups[2].charge = 5 * (minutes + r.time)
        BY <3>1, <3>2, <1>0, <1>1, <2>6, <2>8
      <4> QED
        BY <4>1, <4>2
    <3>3. CASE g # 2
      <4>1. minutes \in 0..d.time
        BY <3>1, <1>0, <2>8
      <4>2. d.groups[2].charge = 5 * minutes
        BY <3>1, <3>3, <1>0, <2>5, <2>8
      <4> QED
        BY <4>1, <4>2
    <3> QED
      BY <3>2, <3>3
  <2>11. /\ d.groups[2].used + d.groups[3].used <= d.volume
         /\ d.groups[2].charge + d.groups[3].charge <= d.charge
    <3> HIDE DEF more
    <3>1. CASE g = 2
      BY <3>1, <2>2, <2>3, <2>5, <2>6, <2>8, <1>0, <1>1
    <3>2. CASE g = 3
      BY <3>2, <2>2, <2>3, <2>5, <2>6, <2>8, <1>0, <1>1
    <3> QED
      BY <3>1, <3>2, <1>0 DEF RatingGroups
  <2> HIDE DEF more
  <2>12. Balanced(d)
    BY <2>8, <2>9, <2>10, <2>11, <1>3 DEF Balanced
  <2> QED
    BY <2>1, <2>8, <2>12, <1>3
<1>7. c.groups[g].open \in BOOLEAN
  BY <1>0 DEF GroupRecords
<1> QED
  BY <1>5, <1>6

\* There are no charging sessions at first.
LEMMA ChfInitInv == PolInit => ChfTypeOK /\ ChargesWithinUnits
<1> SUFFICES ASSUME PolInit PROVE ChfTypeOK /\ ChargesWithinUnits
  OBVIOUS
<1>1. <<>> \in Seq(Charges)
  OBVIOUS
<1> QED
  BY <1>1 DEF PolInit, ChfTypeOK, ChargesWithinUnits

\* Every request to the CHF keeps the charges adding up.
LEMMA ChfNextInv ==
  ChfTypeOK /\ ChargesWithinUnits /\ [ChfNext]_chfVars => ChfTypeOK' /\ ChargesWithinUnits'
<1> SUFFICES ASSUME ChfTypeOK, ChargesWithinUnits, [ChfNext]_chfVars
             PROVE  ChfTypeOK' /\ ChargesWithinUnits'
  OBVIOUS
<1> USE PolicyChargingAssumption
<1>0. ASSUME NEW s \in ChargingIds, NEW d, Balanced(d),
             charging' = [charging EXCEPT ![s] = d],
             \/ cdrs' = cdrs /\ RecordsFollow(d, cdrs[s])
             \/ cdrs' = [cdrs EXCEPT ![s] = Append(@, d.charge)] /\ RecordsFollow(d, Append(cdrs[s], d.charge)),
             UNCHANGED balance
      PROVE  ChfTypeOK' /\ ChargesWithinUnits'
  <2>1. d \in ChargingSessions /\ d.charge \in Charges
    BY <1>0 DEF Balanced, ChargingSessions
  <2>2. Append(cdrs[s], d.charge) \in Seq(Charges)
    BY <2>1 DEF ChfTypeOK
  <2>3. ChfTypeOK'
    BY <1>0, <2>1, <2>2 DEF ChfTypeOK
  <2>4. ASSUME NEW q \in ChargingIds
        PROVE  IF charging'[q] = Absent THEN cdrs'[q] = <<>>
               ELSE Balanced(charging'[q]) /\ RecordsFollow(charging'[q], cdrs'[q])
    <3>1. CASE q = s
      <4>1. charging'[s] = d /\ d # Absent
        BY <1>0, <2>1 DEF ChfTypeOK
      <4>2. RecordsFollow(d, cdrs'[s])
        BY <1>0 DEF ChfTypeOK
      <4> QED
        BY <4>1, <4>2, <3>1, <1>0
    <3>2. CASE q # s
      <4>1. charging'[q] = charging[q] /\ cdrs'[q] = cdrs[q]
        BY <1>0, <3>2 DEF ChfTypeOK
      <4> QED
        BY <4>1 DEF ChargesWithinUnits
    <3> QED
      BY <3>1, <3>2
  <2> QED
    BY <2>3, <2>4 DEF ChargesWithinUnits
<1>1. ASSUME NEW s \in ChargingIds, NEW g \in RatingGroups, CreateChargingSession(s, g)
      PROVE  ChfTypeOK' /\ ChargesWithinUnits'
  <2> DEFINE c == [status |-> "ACTIVE", volume |-> 0, time |-> 0, charge |-> 0, groups |-> NoGroups]
  <2>1. Balanced(c)
    <3>1. NoGroups \in [RatingGroups -> GroupRecords]
      BY DEF NoGroups, GroupRecords, Charges
    <3>2. c \in ChargingSessions
      BY <3>1 DEF ChargingSessions, Charges
    <3> QED
      <4>1. /\ c.groups[2].used = 0 /\ c.groups[3].used = 0 /\ c.groups[2].charge = 0
            /\ c.groups[3].charge = 0 /\ c.volume = 0 /\ c.time = 0 /\ c.charge = 0
        BY DEF NoGroups, RatingGroups
      <4> HIDE DEF c
      <4>2. \E minutes \in 0..c.time : c.groups[2].charge = 5 * minutes
        <5>1. 0 \in 0..c.time /\ c.groups[2].charge = 5 * 0
          BY <4>1
        <5> QED
          BY <5>1
      <4> QED
        BY <3>2, <4>1, <4>2 DEF Balanced
  <2>2. cdrs[s] = <<>>
    BY <1>1 DEF CreateChargingSession, ChargesWithinUnits
  <2>3. Balanced(Granted(c, g)) /\ Granted(c, g).status = "ACTIVE"
    BY <2>1, GrantedBalanced
  <2>4. RecordsFollow(Granted(c, g), cdrs[s])
    BY <2>2, <2>3 DEF RecordsFollow
  <2> HIDE DEF c
  <2>5. charging' = [charging EXCEPT ![s] = Granted(c, g)] /\ UNCHANGED <<cdrs, balance>>
    BY <1>1 DEF CreateChargingSession, c
  <2> QED
    BY <2>3, <2>4, <2>5, <1>0
<1>2. ASSUME NEW s \in ChargingIds, NEW r \in Reports, UpdateChargingSession(s, r)
      PROVE  ChfTypeOK' /\ ChargesWithinUnits'
  <2>1. Balanced(charging[s]) /\ RecordsFollow(charging[s], cdrs[s]) /\ charging[s].volume + r.volume <= MaxUsage
        /\ charging[s].time + r.time <= MaxUsage
    BY <1>2 DEF UpdateChargingSession, WithinBound, ChargesWithinUnits
  <2> DEFINE t == Recorded(charging[s], r)
             d == Granted(t, r.group)
  <2>2. Balanced(t) /\ t.charge >= charging[s].charge /\ t.status = charging[s].status
    BY <2>1, RecordedBalanced
  <2> HIDE DEF t
  <2>3. Balanced(d) /\ d.charge = t.charge /\ d.status = t.status
    BY <2>2, GrantedBalanced DEF Reports
  <2>4. charging' = [charging EXCEPT ![s] = d] /\ UNCHANGED <<cdrs, balance>>
    BY <1>2 DEF UpdateChargingSession, t, ChfTypeOK
  <2> HIDE DEF d
  <2>5. RecordsFollow(d, cdrs[s])
    <3>1. charging[s].charge \in Nat /\ d.charge \in Nat
      BY <2>1, <2>3 DEF Balanced, ChargingSessions, Charges
    <3>2. \A i \in DOMAIN cdrs[s] : cdrs[s][i] \in Nat
      BY DEF ChfTypeOK, Charges
    <3>3. charging[s].charge <= d.charge /\ d.status = charging[s].status
      BY <2>2, <2>3
    <3>4. \A i \in DOMAIN cdrs[s] : cdrs[s][i] <= d.charge
      <4>1. ASSUME NEW i \in DOMAIN cdrs[s] PROVE cdrs[s][i] <= charging[s].charge
        BY <2>1 DEF RecordsFollow
      <4> QED
        BY <4>1, <3>1, <3>2, <3>3
    <3> QED
      BY <3>3, <3>4, <2>1 DEF RecordsFollow
  <2> QED
    BY <2>3, <2>4, <2>5, <1>0
<1>3. ASSUME NEW s \in ChargingIds, NEW r \in Reports, ReleaseChargingSession(s, r)
      PROVE  ChfTypeOK' /\ ChargesWithinUnits'
  <2>1. Balanced(charging[s]) /\ RecordsFollow(charging[s], cdrs[s]) /\ charging[s].volume + r.volume <= MaxUsage
        /\ charging[s].time + r.time <= MaxUsage
    BY <1>3 DEF ReleaseChargingSession, WithinBound, ChargesWithinUnits
  <2> DEFINE t == Recorded(charging[s], r)
             d == [t EXCEPT !.status = "CLOSED"]
  <2>2. Balanced(t) /\ t.charge >= charging[s].charge
    BY <2>1, RecordedBalanced
  <2>3. charging' = [charging EXCEPT ![s] = d] /\ cdrs' = [cdrs EXCEPT ![s] = Append(@, t.charge)] /\ UNCHANGED balance
    BY <1>3 DEF ReleaseChargingSession
  <2> HIDE DEF t
  <2>4. d \in ChargingSessions /\ d.charge = t.charge /\ d.volume = t.volume /\ d.time = t.time /\ d.groups = t.groups /\ d.status = "CLOSED"
    BY <2>2 DEF Balanced, ChargingSessions
  <2> HIDE DEF d
  <2>5. Balanced(d)
    BY <2>2, <2>4 DEF Balanced
  <2>6. RecordsFollow(d, Append(cdrs[s], d.charge))
    <3> DEFINE stated == Append(cdrs[s], d.charge)
    <3>1. charging[s].charge \in Nat /\ d.charge \in Nat /\ d.charge >= charging[s].charge
      BY <2>1, <2>2, <2>4 DEF Balanced, ChargingSessions, Charges
    <3>2. cdrs[s] \in Seq(Charges)
      BY DEF ChfTypeOK
    <3>3. \A i \in DOMAIN cdrs[s] : cdrs[s][i] \in Nat /\ cdrs[s][i] <= charging[s].charge
                                      /\ (i > 1 => cdrs[s][i - 1] <= cdrs[s][i])
      <4>1. \A i \in DOMAIN cdrs[s] : cdrs[s][i] \in Charges
        BY <3>2
      <4>2. \A i \in DOMAIN cdrs[s] : cdrs[s][i] <= charging[s].charge
                                          /\ (i > 1 => cdrs[s][i - 1] <= cdrs[s][i])
        BY <2>1 DEF RecordsFollow
      <4> QED
        BY <4>1, <4>2 DEF Charges
    <3>4. stated # <<>>
      BY <3>2
    <3>5. ASSUME NEW i \in DOMAIN stated
          PROVE  stated[i] <= d.charge /\ (i > 1 => stated[i - 1] <= stated[i])
      <4>1. i \in 1..Len(cdrs[s]) + 1 /\ Len(cdrs[s]) \in Nat
        BY <3>2
      <4>2. CASE i <= Len(cdrs[s])
        <5>1. i \in DOMAIN cdrs[s] /\ stated[i] = cdrs[s][i] /\ (i > 1 => stated[i - 1] = cdrs[s][i - 1])
          BY <4>1, <4>2, <3>2
        <5> QED
          BY <5>1, <3>1, <3>3
      <4>3. CASE i = Len(cdrs[s]) + 1
        <5>1. stated[i] = d.charge
          BY <4>3, <3>2
        <5>2. i > 1 => i - 1 \in DOMAIN cdrs[s] /\ stated[i - 1] = cdrs[s][i - 1]
          BY <4>1, <4>3, <3>2
        <5> QED
          BY <5>1, <5>2, <3>1, <3>3
      <4> QED
        BY <4>1, <4>2, <4>3
    <3> HIDE DEF stated
    <3>6. RecordsFollow(d, stated)
      BY <3>4, <3>5, <2>4 DEF RecordsFollow
    <3> QED
      BY <3>6 DEF stated
  <2>7. cdrs' = [cdrs EXCEPT ![s] = Append(@, d.charge)]
    BY <2>3, <2>4
  <2> QED
    BY <2>3, <2>5, <2>6, <2>7, <1>0
<1>4. ASSUME NEW value \in {"positive", "spent"}, SetSubscriberBalance(value)
      PROVE  ChfTypeOK' /\ ChargesWithinUnits'
  <2>1. ChfTypeOK'
    BY <1>4 DEF SetSubscriberBalance, ChfTypeOK
  <2>2. ChargesWithinUnits'
    BY <1>4 DEF SetSubscriberBalance, ChargesWithinUnits
  <2> QED
    BY <2>1, <2>2
<1>5. CASE UNCHANGED chfVars
  <2>1. ChfTypeOK'
    BY <1>5 DEF chfVars, ChfTypeOK
  <2>2. ChargesWithinUnits'
    BY <1>5 DEF chfVars, ChargesWithinUnits
  <2> QED
    BY <2>1, <2>2
<1> QED
  BY <1>1, <1>2, <1>3, <1>4, <1>5 DEF ChfNext

-----------------------------------------------------------------------------
(* NSSF.                                                                    *)

\* What the consumer asked explains the answer it has.
AnswersItsRequest ==
  \/ sliceRequest = NoSlices
  \/ sliceRequest \in SliceRequests /\ sliceAnswer = SelectForRegistration(sliceRequest)
  \/ \E s \in Slices, tai \in TrackingAreas, plmn \in HomePlmns :
       sliceRequest = [slice |-> s, tai |-> tai] /\ sliceAnswer \in SelectForPduSession(s, tai, plmn)

\* Before the first request there is nothing to explain.
LEMMA NssfInitInv == NssfInit => AnswersItsRequest
BY DEF NssfInit, AnswersItsRequest

\* Each request to the NSSF leaves its own answer.
LEMMA NssfNextInv == AnswersItsRequest /\ [NssfNext]_nssfVars => AnswersItsRequest'
<1> SUFFICES ASSUME AnswersItsRequest, [NssfNext]_nssfVars PROVE AnswersItsRequest'
  OBVIOUS
<1>1. ASSUME NEW r \in SliceRequests, GetForRegistration(r) PROVE AnswersItsRequest'
  BY <1>1 DEF GetForRegistration, AnswersItsRequest
<1>2. ASSUME NEW s \in Slices, NEW tai \in TrackingAreas, NEW plmn \in HomePlmns,
             GetForPduSession(s, tai, plmn)
      PROVE  AnswersItsRequest'
  BY <1>2 DEF GetForPduSession, AnswersItsRequest
<1>3. CASE AnswerTaken
  BY <1>3 DEF AnswerTaken, AnswersItsRequest
<1>4. CASE UNCHANGED <<sliceRequest, sliceAnswer>>
  BY <1>4 DEF AnswersItsRequest
<1> QED
  BY <1>1, <1>2, <1>3, <1>4 DEF NssfNext, nssfVars, SubscribeAvailability, UnsubscribeAvailability

\* Every answer to a registration is sound, whatever was asked.
LEMMA RegistrationAnswerSound ==
  ASSUME NEW r \in SliceRequests
  PROVE  LET a        == SelectForRegistration(r)
             accepted == r.requested \ (a.rejectedInPlmn \cup a.rejectedInTa)
             mapped   == r.requestMapping /\ r.plmn = "supported" /\ r.tai # "unknown"
         IN /\ ~ mapped => /\ IF accepted # {} THEN a.allowed = accepted
                                               ELSE a.allowed \subseteq r.defaults
                           /\ a.allowed \subseteq SlicesIn(r.tai)
            /\ a.allowed \cap a.rejectedInTa = {}
            /\ a.rejectedInPlmn \cup a.rejectedInTa \subseteq r.requested
            /\ a.configured \subseteq r.subscribed
<1>1. /\ r.plmn \in HomePlmns /\ r.tai \in TrackingAreas
      /\ r.requested \subseteq {"embb", "urllc", "std"}
      /\ r.requestMapping \in BOOLEAN /\ r.defaults \subseteq r.subscribed
  BY DEF SliceRequests
<1> DEFINE a       == SelectForRegistration(r)
           inTa    == r.requested \ SlicesIn(r.tai)
           allowed == {s \in r.requested \ inTa : IsSubscribed(r, s)}
           inPlmn  == r.requested \ (inTa \cup allowed)
           default == r.defaults \cap SlicesIn(r.tai)
<1>2. CASE r.plmn = "other"
  BY <1>1, <1>2 DEF SelectForRegistration, Answer
<1>3. CASE r.plmn # "other" /\ r.tai = "unknown"
  BY <1>1, <1>3 DEF SelectForRegistration, Answer
<1>4. CASE r.plmn # "other" /\ r.tai # "unknown" /\ r.requestMapping /\ r.plmn # "none"
  BY <1>1, <1>4 DEF SelectForRegistration, Answer, MappedSlices, HomePlmns
<1>5. CASE r.plmn # "other" /\ r.tai # "unknown" /\ ~ (r.requestMapping /\ r.plmn # "none")
  <2>1. a = Answer(IF allowed = {} THEN default ELSE allowed, inPlmn, inTa,
                   IF inPlmn # {} \/ r.defaultInd THEN ConfiguredNssai(r) ELSE {})
    BY <1>5 DEF SelectForRegistration
  <2>2. /\ a.allowed = (IF allowed = {} THEN default ELSE allowed)
        /\ a.rejectedInPlmn = inPlmn /\ a.rejectedInTa = inTa
        /\ a.configured \subseteq r.subscribed
    BY <2>1 DEF Answer, ConfiguredNssai
  <2> HIDE DEF a
  <2>3. r.requested \ (a.rejectedInPlmn \cup a.rejectedInTa) = allowed
    BY <2>2
  <2> QED
    BY <2>2, <2>3 DEF a
<1> QED
  BY <1>2, <1>3, <1>4, <1>5

\* So every answer the NSSF has given is sound.
LEMMA AnswersAreSound == AnswersItsRequest => SelectionIsSound
<1> SUFFICES ASSUME AnswersItsRequest, sliceRequest # NoSlices PROVE SelectionIsSound
  BY DEF SelectionIsSound
<1>1. ASSUME sliceRequest \in SliceRequests, sliceAnswer = SelectForRegistration(sliceRequest)
      PROVE  SelectionIsSound
  <2>1. "slice" \notin DOMAIN sliceRequest
    BY <1>1 DEF SliceRequests
  <2> QED
    BY <1>1, <2>1, RegistrationAnswerSound DEF SelectionIsSound
<1>2. ASSUME NEW s \in Slices, NEW tai \in TrackingAreas, NEW plmn \in HomePlmns,
             sliceRequest = [slice |-> s, tai |-> tai],
             sliceAnswer \in SelectForPduSession(s, tai, plmn)
      PROVE  SelectionIsSound
  <2>1. sliceRequest.slice = s /\ sliceRequest.tai = tai /\ "slice" \in DOMAIN sliceRequest
    BY <1>2
  <2>2. sliceAnswer.nsi # {} => /\ tai # "unknown" /\ s \in SlicesIn(tai)
                                /\ sliceAnswer.nsi \subseteq NsiInformation(s)
    BY <1>2 DEF SelectForPduSession
  <2> QED
    BY <2>1, <2>2 DEF SelectionIsSound
<1> QED
  BY <1>1, <1>2 DEF AnswersItsRequest

-----------------------------------------------------------------------------
(* EPC: MME, HSS, SGW and PGW.                                              *)

\* GUTIs are given out once: a context's current one leads back to it or nowhere, and no
\* index leads to a context that was never attached.
GutisLeadBack ==
  /\ \A u \in UeContexts : ue[u] # Nobody =>
       ue[u].guti <= mTmsi /\ ueByGuti[ue[u].guti] \in {u, Nobody}
  /\ \A u \in ueById : ue[u] # Nobody
  /\ \A g \in 1..MaxGuti : ueByGuti[g] # Nobody => ue[ueByGuti[g]] # Nobody

\* The inductive invariant of the MME: a GUTI of a context that has gone must not be
\* another's.
MmeIInv == MmeTypeOK /\ MmeIndexesAgree /\ GutisLeadBack

\* There are no contexts at first.
LEMMA MmeInitInv == EpcInit => MmeIInv
BY EpcAssumption DEF EpcInit, MmeIInv, MmeTypeOK, MmeIndexesAgree, GutisLeadBack

\* An attach, of a new context or of one that was found, keeps the indexes together.
LEMMA AddUeInv ==
  ASSUME MmeIInv, mTmsi < MaxGuti, NEW u \in UeContexts, NEW imsi \in Imsis,
         \/ ue[u] = Nobody
         \/ ue[u] # Nobody /\ ue[u].imsi = imsi,
         AddUe(u, imsi)
  PROVE  MmeIInv'
<1> USE EpcAssumption
<1> DEFINE r == [imsi |-> imsi, state |-> "REGISTERED", guti |-> NextGuti, pdns |-> 1]
<1>0. NextGuti \in 1..MaxGuti /\ NextGuti = mTmsi + 1 /\ mTmsi \in Nat
  BY DEF MmeIInv, MmeTypeOK, NextGuti
<1>1. r \in UeRecords
  BY <1>0 DEF UeRecords
<1>2. /\ ue' = [ue EXCEPT ![u] = r] /\ ueById' = ueById \cup {u}
      /\ ueByImsi' = [ueByImsi EXCEPT ![imsi] = u]
      /\ ueByGuti' = [ueByGuti EXCEPT ![NextGuti] = u]
      /\ mTmsi' = NextGuti
  BY DEF AddUe
<1>3. r.imsi = imsi /\ r.state = "REGISTERED" /\ r.guti = NextGuti /\ r.pdns = 1 /\ r # Nobody
  BY <1>1
<1> HIDE DEF r
<1>4. MmeTypeOK'
  BY <1>0, <1>1, <1>2 DEF MmeIInv, MmeTypeOK
<1>5. \A w \in UeContexts : ue'[w] = IF w = u THEN r ELSE ue[w]
  BY <1>2 DEF MmeIInv, MmeTypeOK
<1>6. \A g \in 1..MaxGuti : ueByGuti'[g] = IF g = NextGuti THEN u ELSE ueByGuti[g]
  BY <1>2 DEF MmeIInv, MmeTypeOK
<1>7. \A w \in UeContexts : ue[w] # Nobody => ue[w].guti \in 1..MaxGuti /\ ue[w].guti # NextGuti
  BY <1>0 DEF MmeIInv, MmeTypeOK, GutisLeadBack, UeRecords
<1>8. GutisLeadBack'
  <2>1. ASSUME NEW w \in UeContexts, ue'[w] # Nobody
        PROVE  ue'[w].guti <= mTmsi' /\ ueByGuti'[ue'[w].guti] \in {w, Nobody}
    <3>1. CASE w = u
      BY <3>1, <1>0, <1>2, <1>3, <1>5, <1>6
    <3>2. CASE w # u
      <4>1. ue'[w] = ue[w] /\ ue[w].guti <= mTmsi /\ ueByGuti[ue[w].guti] \in {w, Nobody}
            /\ ue[w].guti \in 1..MaxGuti /\ ue[w].guti # NextGuti
        BY <3>2, <2>1, <1>5, <1>7 DEF MmeIInv, GutisLeadBack
      <4>2. ueByGuti'[ue[w].guti] = ueByGuti[ue[w].guti]
        BY <4>1, <1>6
      <4> QED
        BY <4>1, <4>2, <1>0, <1>2
    <3> QED
      BY <3>1, <3>2
  <2>2. \A w \in ueById' : ue'[w] # Nobody
    BY <1>2, <1>3, <1>5 DEF MmeIInv, GutisLeadBack, MmeTypeOK
  <2>3. ASSUME NEW g \in 1..MaxGuti, ueByGuti'[g] # Nobody
        PROVE  ue'[ueByGuti'[g]] # Nobody
    <3>1. CASE g = NextGuti
      BY <3>1, <1>3, <1>5, <1>6
    <3>2. CASE g # NextGuti
      <4>1. ueByGuti'[g] = ueByGuti[g] /\ ueByGuti[g] \in UeContexts /\ ue[ueByGuti[g]] # Nobody
        BY <3>2, <2>3, <1>6 DEF MmeIInv, MmeTypeOK, GutisLeadBack
      <4> QED
        BY <4>1, <1>3, <1>5
    <3> QED
      BY <3>1, <3>2
  <2> QED
    BY <2>1, <2>2, <2>3 DEF GutisLeadBack
<1>9. MmeIndexesAgree'
  <2>1. ASSUME NEW w \in ueById'
        PROVE  ue'[w].state = "REGISTERED" /\ ue'[w].pdns > 0 /\ ueByGuti'[ue'[w].guti] = w
    <3>1. CASE w = u
      BY <3>1, <1>0, <1>3, <1>5, <1>6
    <3>2. CASE w # u
      <4>1. /\ w \in ueById /\ w \in UeContexts /\ ue'[w] = ue[w] /\ ue[w] # Nobody
            /\ ue[w].state = "REGISTERED" /\ ue[w].pdns > 0 /\ ueByGuti[ue[w].guti] = w
        BY <3>2, <1>2, <1>5 DEF MmeIInv, MmeTypeOK, MmeIndexesAgree, GutisLeadBack
      <4> QED
        BY <4>1, <1>6, <1>7
    <3> QED
      BY <3>1, <3>2
  <2>2. ASSUME NEW i \in Imsis, ueByImsi'[i] # Nobody
        PROVE  ueByImsi'[i] \in ueById' /\ ue'[ueByImsi'[i]].imsi = i
    <3>0. ueByImsi'[i] = IF i = imsi THEN u ELSE ueByImsi[i]
      BY <1>2 DEF MmeIInv, MmeTypeOK
    <3>1. CASE i = imsi
      BY <3>0, <3>1, <1>2, <1>3, <1>5
    <3>2. CASE i # imsi
      <4>1. PICK w \in UeContexts : w = ueByImsi[i]
        BY <3>0, <3>2, <2>2 DEF MmeIInv, MmeTypeOK
      <4>2. w \in ueById /\ ue[w].imsi = i /\ ue[w] # Nobody
        BY <4>1, <3>0, <3>2, <2>2 DEF MmeIInv, MmeIndexesAgree, GutisLeadBack
      <4>3. w # u
        BY <4>2, <3>2
      <4> QED
        BY <4>1, <4>2, <4>3, <3>0, <3>2, <1>2, <1>5
    <3> QED
      BY <3>1, <3>2
  <2>3. \A v, w \in ueById' : ue'[v].guti = ue'[w].guti => v = w
    BY <2>1
  <2> QED
    BY <2>1, <2>2, <2>3 DEF MmeIndexesAgree
<1> QED
  BY <1>4, <1>8, <1>9 DEF MmeIInv

\* So does a detach.
LEMMA RemoveUeInv ==
  ASSUME MmeIInv, NEW u \in UeContexts, ue[u] # Nobody, RemoveUe(u)
  PROVE  MmeIInv'
<1> USE EpcAssumption
<1> DEFINE r == [ue[u] EXCEPT !.state = "DEREGISTERED"]
<1>0. ue[u] \in UeRecords
  BY DEF MmeIInv, MmeTypeOK
<1>1. r \in UeRecords /\ r.imsi = ue[u].imsi /\ r.guti = ue[u].guti /\ r # Nobody
  <2>1. r \in UeRecords /\ r.imsi = ue[u].imsi /\ r.guti = ue[u].guti
    BY <1>0 DEF UeRecords
  <2> HIDE DEF r
  <2> QED
    BY <2>1
<1>2. ue' = [ue EXCEPT ![u] = r] /\ ueById' = ueById \ {u} /\ mTmsi' = mTmsi
  BY DEF RemoveUe
<1>3. /\ ueByImsi' \in [Imsis -> UeContexts \cup {Nobody}] /\ ueByGuti' \in [1..MaxGuti -> UeContexts \cup {Nobody}]
      /\ \A i \in Imsis : ueByImsi'[i] \in {ueByImsi[i], Nobody}
      /\ u \in ueById => ueByImsi'[ue[u].imsi] = Nobody
      /\ \A g \in 1..MaxGuti : \/ ueByGuti'[g] = ueByGuti[g]
                               \/ u \in ueById /\ g = ue[u].guti /\ ueByGuti'[g] = Nobody
  <2>0. /\ ueByImsi \in [Imsis -> UeContexts \cup {Nobody}]
        /\ ueByGuti \in [1..MaxGuti -> UeContexts \cup {Nobody}]
        /\ ue[u].imsi \in Imsis /\ ue[u].guti \in 1..MaxGuti
    BY <1>0 DEF MmeIInv, MmeTypeOK, UeRecords
  <2>1. CASE u \in ueById
    <3>1. /\ ueByImsi' = [ueByImsi EXCEPT ![ue[u].imsi] = Nobody]
          /\ ueByGuti' = [ueByGuti EXCEPT ![ue[u].guti] = Nobody]
      BY <2>1 DEF RemoveUe
    <3>2. ueByImsi' \in [Imsis -> UeContexts \cup {Nobody}]
      BY <3>1, <2>0
    <3>3. ueByGuti' \in [1..MaxGuti -> UeContexts \cup {Nobody}]
      BY <3>1, <2>0
    <3>4. ueByImsi'[ue[u].imsi] = Nobody /\ \A i \in Imsis : ueByImsi'[i] \in {ueByImsi[i], Nobody}
      BY <3>1, <2>0
    <3>5. \A g \in 1..MaxGuti : ueByGuti'[g] = IF g = ue[u].guti THEN Nobody ELSE ueByGuti[g]
      BY <3>1, <2>0
    <3> QED
      BY <2>1, <3>2, <3>3, <3>4, <3>5
  <2>2. CASE u \notin ueById
    <3>1. ueByImsi' = ueByImsi /\ ueByGuti' = ueByGuti
      BY <2>2 DEF RemoveUe
    <3> QED
      BY <2>2, <3>1, <2>0
  <2> QED
    BY <2>1, <2>2
<1> HIDE DEF r
<1>4. MmeTypeOK'
  BY <1>1, <1>2, <1>3 DEF MmeIInv, MmeTypeOK
<1>5. \A w \in UeContexts : ue'[w] = IF w = u THEN r ELSE ue[w]
  BY <1>2 DEF MmeIInv, MmeTypeOK
<1>6. GutisLeadBack'
  <2>1. ASSUME NEW w \in UeContexts, ue'[w] # Nobody
        PROVE  ue'[w].guti <= mTmsi' /\ ueByGuti'[ue'[w].guti] \in {w, Nobody}
    <3>1. ue[w] # Nobody /\ ue'[w].guti = ue[w].guti /\ ue[w].guti \in 1..MaxGuti
      BY <2>1, <1>0, <1>1, <1>5 DEF MmeIInv, MmeTypeOK, UeRecords
    <3>2. ue[w].guti <= mTmsi /\ ueByGuti[ue[w].guti] \in {w, Nobody}
      BY <3>1 DEF MmeIInv, GutisLeadBack
    <3>3. ueByGuti'[ue[w].guti] \in {ueByGuti[ue[w].guti], Nobody}
      BY <3>1, <1>3
    <3> QED
      BY <3>1, <3>2, <3>3, <1>2
  <2>2. \A w \in ueById' : ue'[w] # Nobody
    BY <1>1, <1>2, <1>5 DEF MmeIInv, GutisLeadBack, MmeTypeOK
  <2>3. ASSUME NEW g \in 1..MaxGuti, ueByGuti'[g] # Nobody
        PROVE  ue'[ueByGuti'[g]] # Nobody
    <3>1. ueByGuti'[g] = ueByGuti[g] /\ ueByGuti[g] \in UeContexts /\ ue[ueByGuti[g]] # Nobody
      BY <2>3, <1>3 DEF MmeIInv, GutisLeadBack, MmeTypeOK
    <3> QED
      BY <3>1, <1>1, <1>5
  <2> QED
    BY <2>1, <2>2, <2>3 DEF GutisLeadBack
<1>7. MmeIndexesAgree'
  <2>1. ASSUME NEW w \in ueById'
        PROVE  ue'[w].state = "REGISTERED" /\ ue'[w].pdns > 0 /\ ueByGuti'[ue'[w].guti] = w
    <3>1. /\ w \in ueById /\ w # u /\ w \in UeContexts /\ ue'[w] = ue[w] /\ ue[w] \in UeRecords
          /\ ue[w].state = "REGISTERED" /\ ue[w].pdns > 0 /\ ueByGuti[ue[w].guti] = w
      BY <1>2, <1>5 DEF MmeIInv, MmeTypeOK, MmeIndexesAgree, GutisLeadBack
    <3>2. ue[w].guti \in 1..MaxGuti
      BY <3>1 DEF UeRecords
    <3>3. u \in ueById => ueByGuti[ue[u].guti] = u
      BY DEF MmeIInv, MmeIndexesAgree
    <3>4. ueByGuti'[ue[w].guti] = ueByGuti[ue[w].guti]
      BY <3>1, <3>2, <3>3, <1>3
    <3> QED
      BY <3>1, <3>4
  <2>2. ASSUME NEW i \in Imsis, ueByImsi'[i] # Nobody
        PROVE  ueByImsi'[i] \in ueById' /\ ue'[ueByImsi'[i]].imsi = i
    <3>0. ueByImsi'[i] = ueByImsi[i]
      BY <2>2, <1>3
    <3>1. PICK w \in UeContexts : w = ueByImsi[i]
      BY <3>0, <2>2 DEF MmeIInv, MmeTypeOK
    <3>2. w \in ueById /\ ue[w].imsi = i
      BY <3>0, <3>1, <2>2 DEF MmeIInv, MmeIndexesAgree
    <3>3. w # u
      BY <3>0, <3>1, <3>2, <2>2, <1>3
    <3> QED
      BY <3>0, <3>1, <3>2, <3>3, <1>2, <1>5
  <2>3. \A v, w \in ueById' : ue'[v].guti = ue'[w].guti => v = w
    BY <2>1
  <2> QED
    BY <2>1, <2>2, <2>3 DEF MmeIndexesAgree
<1> QED
  BY <1>4, <1>6, <1>7 DEF MmeIInv

\* So does a tracking area update, whatever GUTI it came by.
LEMMA TrackingAreaUpdateInv ==
  ASSUME MmeIInv, NEW g \in 1..MaxGuti, TrackingAreaUpdate(g)
  PROVE  MmeIInv'
<1> USE EpcAssumption
<1>1. PICK u \in UeContexts : u = ueByGuti[g] /\ ue[u] # Nobody
  BY DEF TrackingAreaUpdate, MmeIInv, MmeTypeOK, GutisLeadBack
<1> DEFINE r == [ue[u] EXCEPT !.guti = NextGuti]
           old == ue[u].guti
<1>2. NextGuti \in 1..MaxGuti /\ NextGuti = mTmsi + 1 /\ mTmsi \in Nat
  BY DEF MmeIInv, MmeTypeOK, NextGuti, TrackingAreaUpdate
<1>3. ue[u] \in UeRecords
  BY <1>1 DEF MmeIInv, MmeTypeOK
<1>4. /\ r \in UeRecords /\ r.imsi = ue[u].imsi /\ r.state = ue[u].state
      /\ r.pdns = ue[u].pdns /\ r.guti = NextGuti
  BY <1>2, <1>3 DEF UeRecords
<1>5. old \in 1..MaxGuti /\ old <= mTmsi /\ ueByGuti[old] \in {u, Nobody}
  BY <1>1, <1>3 DEF UeRecords, MmeIInv, GutisLeadBack
<1>6. /\ ue' = [ue EXCEPT ![u] = r] /\ ueById' = ueById /\ ueByImsi' = ueByImsi
      /\ mTmsi' = NextGuti
      /\ ueByGuti' = [ueByGuti EXCEPT ![old] = Nobody, ![NextGuti] = u]
  BY <1>1 DEF TrackingAreaUpdate
<1>7. r # Nobody
  BY <1>4
<1> HIDE DEF r, old
<1>8. MmeTypeOK'
  BY <1>2, <1>4, <1>5, <1>6 DEF MmeIInv, MmeTypeOK
<1>9. \A w \in UeContexts : ue'[w] = IF w = u THEN r ELSE ue[w]
  BY <1>6 DEF MmeIInv, MmeTypeOK
<1>10. \A h \in 1..MaxGuti : ueByGuti'[h] = IF h = NextGuti THEN u ELSE IF h = old THEN Nobody ELSE ueByGuti[h]
  BY <1>6 DEF MmeIInv, MmeTypeOK
<1>11. \A w \in UeContexts : ue[w] # Nobody => ue[w].guti \in 1..MaxGuti /\ ue[w].guti # NextGuti
  BY <1>2 DEF MmeIInv, MmeTypeOK, GutisLeadBack, UeRecords
<1>12. GutisLeadBack'
  <2>1. ASSUME NEW w \in UeContexts, ue'[w] # Nobody
        PROVE  ue'[w].guti <= mTmsi' /\ ueByGuti'[ue'[w].guti] \in {w, Nobody}
    <3>1. CASE w = u
      <4>1. ue'[w].guti = NextGuti /\ ueByGuti'[NextGuti] = u /\ mTmsi' = NextGuti
        BY <3>1, <1>2, <1>4, <1>6, <1>9, <1>10
      <4> QED
        BY <3>1, <4>1, <1>2
    <3>2. CASE w # u
      <4>1. ue'[w] = ue[w] /\ ue[w].guti <= mTmsi /\ ueByGuti[ue[w].guti] \in {w, Nobody}
            /\ ue[w].guti \in 1..MaxGuti /\ ue[w].guti # NextGuti
        BY <3>2, <2>1, <1>9, <1>11 DEF MmeIInv, GutisLeadBack
      <4>2. ueByGuti'[ue[w].guti] \in {ueByGuti[ue[w].guti], Nobody}
        BY <4>1, <1>10
      <4> QED
        BY <4>1, <4>2, <1>2, <1>6
    <3> QED
      BY <3>1, <3>2
  <2>2. \A w \in ueById' : ue'[w] # Nobody
    BY <1>6, <1>7, <1>9 DEF MmeIInv, GutisLeadBack, MmeTypeOK
  <2>3. ASSUME NEW h \in 1..MaxGuti, ueByGuti'[h] # Nobody
        PROVE  ue'[ueByGuti'[h]] # Nobody
    <3>1. PICK w \in UeContexts : w = ueByGuti'[h]
      BY <2>3, <1>8 DEF MmeTypeOK
    <3>2. w = u \/ w = ueByGuti[h]
      BY <3>1, <2>3, <1>10
    <3>3. ue[w] # Nobody
      BY <3>1, <3>2, <2>3, <1>1 DEF MmeIInv, GutisLeadBack
    <3> QED
      BY <3>1, <3>3, <1>7, <1>9
  <2> QED
    BY <2>1, <2>2, <2>3 DEF GutisLeadBack
<1>13. MmeIndexesAgree'
  <2>1. ASSUME NEW w \in ueById'
        PROVE  ue'[w].state = "REGISTERED" /\ ue'[w].pdns > 0 /\ ueByGuti'[ue'[w].guti] = w
    <3>0. /\ w \in ueById /\ w \in UeContexts /\ ue[w] # Nobody
          /\ ue[w].state = "REGISTERED" /\ ue[w].pdns > 0 /\ ueByGuti[ue[w].guti] = w
      BY <1>6 DEF MmeIInv, MmeTypeOK, MmeIndexesAgree, GutisLeadBack
    <3>1. CASE w = u
      BY <3>0, <3>1, <1>2, <1>4, <1>9, <1>10
    <3>2. CASE w # u
      <4>1. ue[w].guti # old
        BY <3>0, <3>2, <1>1, <1>5, EpcAssumption
      <4> QED
        BY <3>0, <3>2, <4>1, <1>9, <1>10, <1>11
    <3> QED
      BY <3>1, <3>2
  <2>2. ASSUME NEW i \in Imsis, ueByImsi'[i] # Nobody
        PROVE  ueByImsi'[i] \in ueById' /\ ue'[ueByImsi'[i]].imsi = i
    BY <2>2, <1>4, <1>6, <1>9 DEF MmeIInv, MmeTypeOK, MmeIndexesAgree
  <2>3. \A v, w \in ueById' : ue'[v].guti = ue'[w].guti => v = w
    BY <2>1
  <2> QED
    BY <2>1, <2>2, <2>3 DEF MmeIndexesAgree
<1> QED
  BY <1>8, <1>12, <1>13 DEF MmeIInv

\* So does a change of a UE's PDN connections that leaves it one.
LEMMA PdnsInv ==
  ASSUME MmeIInv, NEW u \in ueById, NEW n \in 1..MaxPdns,
         ue' = [ue EXCEPT ![u].pdns = n], UNCHANGED <<ueById, ueByImsi, ueByGuti, mTmsi>>
  PROVE  MmeIInv'
<1> USE EpcAssumption
<1> DEFINE r == [ue[u] EXCEPT !.pdns = n]
<1>1. ue[u] \in UeRecords /\ u \in UeContexts
  BY DEF MmeIInv, MmeTypeOK, GutisLeadBack
<1>2. r \in UeRecords /\ r.imsi = ue[u].imsi /\ r.state = ue[u].state /\ r.guti = ue[u].guti /\ r.pdns = n
  BY <1>1 DEF UeRecords
<1>3. r # Nobody
  BY <1>2
<1>4. ue' = [ue EXCEPT ![u] = r]
  OBVIOUS
<1> HIDE DEF r
<1>5. \A w \in UeContexts : ue'[w] = IF w = u THEN r ELSE ue[w]
  BY <1>4 DEF MmeIInv, MmeTypeOK
<1>6. MmeTypeOK'
  BY <1>2, <1>4 DEF MmeIInv, MmeTypeOK
<1>7. MmeIndexesAgree'
  BY <1>1, <1>2, <1>5 DEF MmeIInv, MmeIndexesAgree, MmeTypeOK
<1>8. GutisLeadBack'
  <2>1. ASSUME NEW w \in UeContexts, ue'[w] # Nobody
        PROVE  ue'[w].guti <= mTmsi' /\ ueByGuti'[ue'[w].guti] \in {w, Nobody}
    <3>1. ue[w] # Nobody /\ ue'[w].guti = ue[w].guti
      BY <1>2, <1>3, <1>5, <2>1 DEF MmeIInv, GutisLeadBack
    <3> QED
      BY <3>1 DEF MmeIInv, GutisLeadBack
  <2>2. \A w \in UeContexts : ue[w] # Nobody => ue'[w] # Nobody
    BY <1>3, <1>5
  <2>3. ueById \subseteq UeContexts /\ \A g \in 1..MaxGuti : ueByGuti[g] \in UeContexts \cup {Nobody}
    BY DEF MmeIInv, MmeTypeOK
  <2>4. \A w \in ueById' : ue'[w] # Nobody
    BY <2>2, <2>3 DEF MmeIInv, GutisLeadBack
  <2>5. \A g \in 1..MaxGuti : ueByGuti'[g] # Nobody => ue'[ueByGuti'[g]] # Nobody
    BY <2>2, <2>3 DEF MmeIInv, GutisLeadBack
  <2> QED
    BY <2>1, <2>4, <2>5 DEF GutisLeadBack
<1> QED
  BY <1>6, <1>7, <1>8 DEF MmeIInv

\* Every procedure of the MME keeps the invariant.
LEMMA MmeNextInv == MmeIInv /\ [MmeNext]_mmeVars => MmeIInv'
<1> SUFFICES ASSUME MmeIInv, [MmeNext]_mmeVars PROVE MmeIInv'
  OBVIOUS
<1> USE EpcAssumption
<1>1. ASSUME NEW i \in Imsis, AttachByImsi(i) PROVE MmeIInv'
  <2>1. CASE ueByImsi[i] # Nobody
    <3>1. PICK u \in UeContexts : u = ueByImsi[i]
      BY <2>1 DEF MmeIInv, MmeTypeOK
    <3>2. ue[u] # Nobody /\ ue[u].imsi = i
      BY <2>1, <3>1 DEF MmeIInv, MmeIndexesAgree, GutisLeadBack
    <3>3. AddUe(u, i) /\ mTmsi < MaxGuti
      BY <1>1, <2>1, <3>1 DEF AttachByImsi
    <3> QED
      BY <3>2, <3>3, AddUeInv
  <2>2. CASE ueByImsi[i] = Nobody
    BY <1>1, <2>2, AddUeInv DEF AttachByImsi
  <2> QED
    BY <2>1, <2>2
<1>2. ASSUME NEW g \in 1..MaxGuti, AttachByGuti(g) PROVE MmeIInv'
  <2>1. PICK u \in UeContexts : u = ueByGuti[g]
    BY <1>2 DEF AttachByGuti, MmeIInv, MmeTypeOK
  <2>2. ue[u] # Nobody /\ mTmsi < MaxGuti
    BY <1>2, <2>1 DEF AttachByGuti, MmeIInv, GutisLeadBack
  <2>3. PICK i \in Imsis : i = ue[u].imsi
    BY <2>2 DEF MmeIInv, MmeTypeOK, UeRecords
  <2>4. AddUe(u, i)
    BY <1>2, <2>1, <2>3 DEF AttachByGuti
  <2> QED
    BY <2>2, <2>3, <2>4, AddUeInv
<1>3. ASSUME NEW g \in 1..MaxGuti, TrackingAreaUpdate(g) PROVE MmeIInv'
  BY <1>3, TrackingAreaUpdateInv
<1>4. ASSUME NEW u \in UeContexts, Detach(u) PROVE MmeIInv'
  <2>1. ue[u] # Nobody /\ RemoveUe(u)
    BY <1>4 DEF Detach, MmeIInv, MmeIndexesAgree, GutisLeadBack
  <2> QED
    BY <2>1, RemoveUeInv
<1>5. ASSUME NEW u \in UeContexts, PdnConnectivity(u) PROVE MmeIInv'
  <2>1. u \in ueById /\ ue[u] \in UeRecords /\ ue[u].pdns < MaxPdns
    BY <1>5 DEF PdnConnectivity, MmeIInv, MmeTypeOK, GutisLeadBack
  <2>2. PICK n \in 1..MaxPdns : n = ue[u].pdns + 1
    BY <2>1 DEF UeRecords
  <2>3. ue' = [ue EXCEPT ![u].pdns = n] /\ UNCHANGED <<ueById, ueByImsi, ueByGuti, mTmsi>>
    BY <1>5, <2>2 DEF PdnConnectivity
  <2> QED
    BY <2>1, <2>3, PdnsInv
<1>6. ASSUME NEW u \in UeContexts, PdnDisconnect(u) PROVE MmeIInv'
  <2>1. u \in ueById /\ ue[u] \in UeRecords /\ ue[u].pdns > 0 /\ ue[u].pdns # 1
    BY <1>6 DEF PdnDisconnect, MmeIInv, MmeTypeOK, GutisLeadBack, MmeIndexesAgree
  <2>2. PICK n \in 1..MaxPdns : n = ue[u].pdns - 1
    BY <2>1 DEF UeRecords
  <2>3. ue' = [ue EXCEPT ![u].pdns = n] /\ UNCHANGED <<ueById, ueByImsi, ueByGuti, mTmsi>>
    BY <1>6, <2>2 DEF PdnDisconnect
  <2> QED
    BY <2>1, <2>3, PdnsInv
<1>7. CASE UNCHANGED mmeVars
  BY <1>7 DEF mmeVars, MmeIInv, MmeTypeOK, MmeIndexesAgree, GutisLeadBack
<1> QED
  BY <1>1, <1>2, <1>3, <1>4, <1>5, <1>6, <1>7 DEF MmeNext
-----------------------------------------------------------------------------
\* There are no subscribers at first.
LEMMA HssInitInv == EpcInit => HssTypeOK /\ NumbersLeadToOwners
BY DEF EpcInit, HssTypeOK, NumbersLeadToOwners

\* Every request to the HSS keeps numbers leading to owners.
LEMMA HssNextInv ==
  HssTypeOK /\ NumbersLeadToOwners /\ [HssNext]_hssVars => HssTypeOK' /\ NumbersLeadToOwners'
<1> SUFFICES ASSUME HssTypeOK, NumbersLeadToOwners, [HssNext]_hssVars
             PROVE  HssTypeOK' /\ NumbersLeadToOwners'
  OBVIOUS
<1> USE EpcAssumption
<1>0. ASSUME NEW i \in Imsis, NEW r \in SubscriberRecords, subscriber[i] # Nobody,
             r.msisdn = subscriber[i].msisdn,
             subscriber' = [subscriber EXCEPT ![i] = r], UNCHANGED byMsisdn
      PROVE  HssTypeOK' /\ NumbersLeadToOwners'
  <2>1. r # Nobody
    OBVIOUS
  <2> QED
    BY <1>0, <2>1 DEF HssTypeOK, NumbersLeadToOwners
<1>1. ASSUME NEW i \in Imsis, NEW m \in Msisdns \cup {Nobody}, CreateSubscriber(i, m)
      PROVE  HssTypeOK' /\ NumbersLeadToOwners'
  <2> DEFINE r == [active |-> TRUE, msisdn |-> m, mme |-> Nobody, sqn |-> 0]
  <2>1. r \in SubscriberRecords /\ r.msisdn = m
    BY DEF SubscriberRecords
  <2>2. r # Nobody
    BY <2>1
  <2>3. /\ subscriber' = [subscriber EXCEPT ![i] = r] /\ subscriber[i] = Nobody
        /\ byMsisdn' = [x \in Msisdns |-> IF x = m THEN i ELSE byMsisdn[x]]
    BY <1>1 DEF CreateSubscriber
  <2> HIDE DEF r
  <2> QED
    BY <2>1, <2>2, <2>3 DEF HssTypeOK, NumbersLeadToOwners
<1>2. ASSUME NEW i \in Imsis, NEW m \in Msisdns, UpdateSubscriber(i, m)
      PROVE  HssTypeOK' /\ NumbersLeadToOwners'
  <2> DEFINE r == [subscriber[i] EXCEPT !.msisdn = m]
  <2>0. subscriber[i] \in SubscriberRecords
    BY <1>2 DEF HssTypeOK, UpdateSubscriber
  <2>1. r \in SubscriberRecords /\ r.msisdn = m
    BY <2>0 DEF SubscriberRecords
  <2>2. r # Nobody
    BY <2>1
  <2>3. /\ subscriber' = [subscriber EXCEPT ![i] = r] /\ subscriber[i] # Nobody
        /\ byMsisdn' = [x \in Msisdns |-> IF x = m THEN i
                                          ELSE IF x = subscriber[i].msisdn THEN Nobody ELSE byMsisdn[x]]
    BY <1>2 DEF UpdateSubscriber
  <2> HIDE DEF r
  <2> QED
    BY <2>1, <2>2, <2>3 DEF HssTypeOK, NumbersLeadToOwners
<1>3. ASSUME NEW i \in Imsis, SetStatus(i)
      PROVE  HssTypeOK' /\ NumbersLeadToOwners'
  <2> DEFINE r == [subscriber[i] EXCEPT !.active = ~ @]
  <2>1. r \in SubscriberRecords /\ r.msisdn = subscriber[i].msisdn
    BY <1>3 DEF HssTypeOK, SetStatus, SubscriberRecords
  <2>2. subscriber' = [subscriber EXCEPT ![i] = r] /\ subscriber[i] # Nobody /\ UNCHANGED byMsisdn
    BY <1>3 DEF SetStatus
  <2> HIDE DEF r
  <2> QED
    BY <2>1, <2>2, <1>0
<1>4. ASSUME NEW i \in Imsis, DeleteSubscriber(i)
      PROVE  HssTypeOK' /\ NumbersLeadToOwners'
  BY <1>4 DEF DeleteSubscriber, HssTypeOK, NumbersLeadToOwners
<1>5. ASSUME NEW i \in Imsis, NEW vectors \in 1..2, AuthenticationInformation(i, vectors)
      PROVE  HssTypeOK' /\ NumbersLeadToOwners'
  <2> DEFINE r == [subscriber[i] EXCEPT !.sqn = @ + vectors]
  <2>1. r \in SubscriberRecords /\ r.msisdn = subscriber[i].msisdn
    BY <1>5 DEF HssTypeOK, AuthenticationInformation, SubscriberRecords
  <2>2. subscriber' = [subscriber EXCEPT ![i] = r] /\ subscriber[i] # Nobody /\ UNCHANGED byMsisdn
    BY <1>5 DEF AuthenticationInformation
  <2> HIDE DEF r
  <2> QED
    BY <2>1, <2>2, <1>0
<1>6. ASSUME NEW i \in Imsis, NEW mme \in {"mme1", "mme2"}, UpdateLocation(i, mme) \/ PurgeUe(i, mme)
      PROVE  HssTypeOK' /\ NumbersLeadToOwners'
  <2>1. PICK x \in {mme, Nobody} : /\ subscriber' = [subscriber EXCEPT ![i].mme = x]
                                   /\ subscriber[i] # Nobody /\ UNCHANGED byMsisdn
    BY <1>6 DEF UpdateLocation, PurgeUe
  <2> DEFINE r == [subscriber[i] EXCEPT !.mme = x]
  <2>2. r \in SubscriberRecords /\ r.msisdn = subscriber[i].msisdn
    BY <2>1 DEF HssTypeOK, SubscriberRecords
  <2>3. subscriber' = [subscriber EXCEPT ![i] = r]
    BY <2>1
  <2> HIDE DEF r
  <2> QED
    BY <2>1, <2>2, <2>3, <1>0
<1>7. CASE UNCHANGED hssVars
  BY <1>7 DEF hssVars, HssTypeOK, NumbersLeadToOwners
<1> QED
  BY <1>1, <1>2, <1>3, <1>4, <1>5, <1>6, <1>7 DEF HssNext
-----------------------------------------------------------------------------
\* The bearer ids are finitely many numbers from 5.
LEMMA EbisFinite == IsFiniteSet(Ebis) /\ \A e \in Ebis : e \in Nat /\ e >= 5
<1>1. 5 \in Int /\ MaxEbi \in Int
  BY EpcAssumption
<1>2. IsFiniteSet(5..MaxEbi)
  BY <1>1, FS_Interval
<1> QED
  BY <1>1, <1>2 DEF Ebis

\* The id after the highest is no bearer's.
LEMMA NewEbiIsFree ==
  ASSUME NEW bearers, bearers \subseteq Bearers, bearers # {}
  PROVE  /\ NewEbi(bearers) \in Nat /\ NewEbi(bearers) > 5
         /\ \A b \in bearers : b.ebi # NewEbi(bearers)
<1> DEFINE S == {b.ebi : b \in bearers}
           R == {p \in S \X S : p[1] > p[2]}
<1>1. IsFiniteSet(S) /\ S \subseteq Nat /\ S # {} /\ \A e \in S : e >= 5
  <2>1. S \subseteq Ebis /\ S # {}
    BY DEF Bearers
  <2> HIDE DEF S
  <2> QED
    BY <2>1, EbisFinite, FS_Subset
<1>2. PICK x \in S : \A y \in S : <<y, x>> \notin R
  <2> HIDE DEF S
  <2>1. /\ \A x \in S : <<x, x>> \notin R
        /\ \A x, y, z \in S : <<x, y>> \in R /\ <<y, z>> \in R => <<x, z>> \in R
    BY <1>1
  <2> HIDE DEF R
  <2> QED
    BY <1>1, <2>1, FiniteSetHasMinimum
<1>3. \A b \in bearers : b.ebi \in S
  OBVIOUS
<1>4. NewEbi(bearers) = Max(S) + 1
  BY DEF NewEbi
<1> HIDE DEF S
<1>5. \A y \in S : x >= y
  <2>1. ASSUME NEW y \in S PROVE x >= y
    <3>1. ~ (y > x)
      BY <1>2, <2>1
    <3> QED
      BY <3>1, <1>1, <1>2
  <2> QED
    BY <2>1
<1> HIDE DEF R
<1>6. Max(S) \in S /\ \A y \in S : Max(S) >= y
  BY <1>2, <1>5 DEF Max
<1>7. Max(S) \in Nat /\ Max(S) >= 5 /\ Max(S) + 1 \notin S
  <2>1. Max(S) \in Nat /\ Max(S) >= 5
    BY <1>1, <1>6
  <2>2. Max(S) + 1 \notin S
    BY <2>1, <1>1, <1>6
  <2> QED
    BY <2>1, <2>2
<1> QED
  BY <1>3, <1>4, <1>7

\* What both gateways keep: finitely many bearers, of live sessions, no tunnel beyond the
\* counter, and as many as are counted, the strays apart.
Accounted(bearers, live, teid, count, stray) ==
  /\ bearers \subseteq Bearers /\ IsFiniteSet(bearers)
  /\ \A b \in bearers : b.teid <= teid /\ b.session \in live
  /\ teid \in 0..MaxTeid /\ stray \in Nat
  /\ count = Cardinality(bearers) + stray

\* The bearers a request lists are as many as its entries, and none is there yet.
LEMMA NewBearersCounted ==
  ASSUME NEW s \in GwSessions, NEW teid \in 0..MaxTeid, NEW ebis \in BearerLists,
         teid + Len(ebis) <= MaxTeid
  PROVE  /\ Len(ebis) \in Nat /\ DOMAIN ebis = 1..Len(ebis) /\ \A i \in DOMAIN ebis : ebis[i] \in Ebis
         /\ NewBearers(s, teid, ebis) \subseteq Bearers /\ IsFiniteSet(NewBearers(s, teid, ebis))
         /\ Cardinality(NewBearers(s, teid, ebis)) = Len(ebis)
         /\ \A b \in NewBearers(s, teid, ebis) :
              b.teid > teid /\ b.teid <= teid + Len(ebis) /\ b.session = s
<1> USE EpcAssumption
<1>1. PICK n \in 0..MaxTeid : ebis \in [1..n -> Ebis]
  BY DEF BearerLists
<1>2. Len(ebis) = n /\ n \in Nat /\ DOMAIN ebis = 1..n
  BY <1>1
<1> DEFINE N == NewBearers(s, teid, ebis)
           f == [i \in 1..n |-> [session |-> s, teid |-> teid + i, ebi |-> ebis[i]]]
<1>3. N = {f[i] : i \in 1..n}
  BY <1>2 DEF NewBearers
<1>4. \A i \in 1..n : /\ f[i] \in Bearers /\ f[i].teid = teid + i /\ f[i].session = s
  <2>1. ASSUME NEW i \in 1..n
        PROVE  f[i] \in Bearers /\ f[i].teid = teid + i /\ f[i].session = s
    <3>1. teid + i \in 1..MaxTeid /\ ebis[i] \in Ebis
      BY <1>1, <1>2
    <3> QED
      BY <3>1 DEF Bearers
  <2> QED
    BY <2>1
<1>5. f \in Bijection(1..n, N)
  <2>1. f \in [1..n -> N] /\ \A b \in N : \E i \in 1..n : f[i] = b
    BY <1>3
  <2>2. \A i, j \in 1..n : f[i] = f[j] => i = j
    <3> HIDE DEF f
    <3>1. ASSUME NEW i \in 1..n, NEW j \in 1..n, f[i] = f[j] PROVE i = j
      BY <3>1, <1>2, <1>4
    <3> QED
      BY <3>1
  <2> HIDE DEF f, N
  <2> QED
    <3>1. f \in Injection(1..n, N)
      BY <2>1, <2>2, ZenonT(60) DEF Injection, IsInjective
    <3>2. f \in Surjection(1..n, N)
      BY <2>1, Zenon DEF Surjection
    <3> QED
      BY <3>1, <3>2, Zenon DEF Bijection
<1> HIDE DEF f, N
<1>6. IsFiniteSet(N) /\ Cardinality(N) = n
  <2>1. ExistsBijection(1..n, N)
    BY <1>5 DEF ExistsBijection
  <2> QED
    BY <2>1, <1>2, FS_CountingElements, FS_NatBijection
<1>7. N \subseteq Bearers /\ \A b \in N : b.teid > teid /\ b.teid <= teid + n /\ b.session = s
  <2>1. ASSUME NEW b \in N
        PROVE  b \in Bearers /\ b.teid > teid /\ b.teid <= teid + n /\ b.session = s
    <3>1. PICK i \in 1..n : b = f[i]
      BY <1>3
    <3> QED
      BY <3>1, <1>2, <1>4
  <2> QED
    BY <2>1
<1> QED
  BY <1>1, <1>2, <1>6, <1>7 DEF N

\* Bearers with new tunnels are counted as they are added.
LEMMA MoreAccounted ==
  ASSUME NEW B, NEW live, NEW teid, NEW count, NEW stray, Accounted(B, live, teid, count, stray),
         NEW N, N \subseteq Bearers, IsFiniteSet(N), NEW t \in 0..MaxTeid, t >= teid,
         NEW more, live \subseteq more,
         \A b \in N : b.teid > teid /\ b.teid <= t /\ b.session \in more
  PROVE  Accounted(B \cup N, more, t, count + Cardinality(N), stray) /\ count + Cardinality(N) \in Nat
<1> USE EpcAssumption
<1>1. /\ B \subseteq Bearers /\ IsFiniteSet(B) /\ teid \in 0..MaxTeid /\ stray \in Nat
      /\ \A b \in B : b.teid <= teid /\ b.session \in live
      /\ count = Cardinality(B) + stray
  BY DEF Accounted
<1>2. \A b \in B \cup N : b.teid \in Nat
  BY <1>1 DEF Bearers
<1>3. B \cap N = {}
  BY <1>1, <1>2
<1>4. Cardinality(B) \in Nat /\ Cardinality(N) \in Nat /\ Cardinality(B \cap N) = 0
  BY <1>1, <1>3, FS_CardinalityType, FS_EmptySet
<1>5. IsFiniteSet(B \cup N) /\ Cardinality(B \cup N) = Cardinality(B) + Cardinality(N)
  <2>1. Cardinality(B \cup N) = Cardinality(B) + Cardinality(N) - Cardinality(B \cap N)
    BY <1>1, FS_Union
  <2> QED
    BY <2>1, <1>1, <1>4, FS_Union
<1>6. count + Cardinality(N) = Cardinality(B \cup N) + stray /\ count + Cardinality(N) \in Nat
  BY <1>1, <1>4, <1>5
<1>7. \A b \in B \cup N : b.teid <= t /\ b.session \in more
  BY <1>1, <1>2
<1> QED
  BY <1>1, <1>5, <1>6, <1>7 DEF Accounted

\* And bearers that go are taken off.
LEMMA LessAccounted ==
  ASSUME NEW B, NEW live, NEW teid, NEW count, NEW stray, Accounted(B, live, teid, count, stray),
         NEW D, D \subseteq B, NEW left, \A b \in B \ D : b.session \in left
  PROVE  Accounted(B \ D, left, teid, count - Cardinality(D), stray) /\ count - Cardinality(D) \in Nat
<1>1. /\ B \subseteq Bearers /\ IsFiniteSet(B) /\ stray \in Nat /\ count = Cardinality(B) + stray
      /\ \A b \in B : b.teid <= teid
  BY DEF Accounted
<1>2. B \cap D = D
  OBVIOUS
<1>3. IsFiniteSet(B \ D) /\ IsFiniteSet(D)
  BY <1>1, FS_Subset
<1>4. Cardinality(B) \in Nat /\ Cardinality(D) \in Nat /\ Cardinality(B \ D) \in Nat
  BY <1>1, <1>3, FS_CardinalityType
<1>5. Cardinality(B \ D) = Cardinality(B) - Cardinality(D)
  <2>1. Cardinality(B \ D) = Cardinality(B) - Cardinality(B \cap D)
    BY <1>1, FS_Difference
  <2> QED
    BY <2>1, <1>2
<1>6. count - Cardinality(D) = Cardinality(B \ D) + stray /\ count - Cardinality(D) \in Nat
  BY <1>1, <1>4, <1>5
<1> QED
  BY <1>1, <1>3, <1>6 DEF Accounted

\* A dedicated bearer of a live session can be counted.
LEMMA DedicatedBearer ==
  ASSUME NEW B, NEW live, NEW teid, NEW count, NEW stray, Accounted(B, live, teid, count, stray),
         NEW b0 \in B, NewEbi(Of(B, b0.session)) <= MaxEbi, teid < MaxTeid, NEW new,
         new = [session |-> b0.session, teid |-> teid + 1, ebi |-> NewEbi(Of(B, b0.session))]
  PROVE  /\ new \in Bearers /\ new.ebi # 5 /\ new.session = b0.session /\ new.teid = teid + 1
         /\ Accounted(B \cup {new}, live, teid + 1, count + 1, stray)
         /\ teid + 1 \in 0..MaxTeid /\ count + 1 \in Nat
<1> USE EpcAssumption
<1>1. B \subseteq Bearers /\ b0.session \in live /\ b0.session \in GwSessions /\ teid \in 0..MaxTeid
  BY DEF Accounted, Bearers
<1>2. NewEbi(Of(B, b0.session)) \in Ebis /\ NewEbi(Of(B, b0.session)) # 5
  <2>1. Of(B, b0.session) \subseteq Bearers /\ Of(B, b0.session) # {}
    BY <1>1 DEF Of
  <2>2. NewEbi(Of(B, b0.session)) \in Nat /\ NewEbi(Of(B, b0.session)) > 5
    BY <2>1, NewEbiIsFree
  <2> QED
    BY <2>2 DEF Ebis
<1>3. /\ new \in Bearers /\ new.ebi # 5 /\ new.session = b0.session /\ new.teid = teid + 1
  <2>1. teid + 1 \in 1..MaxTeid
    BY <1>1
  <2> QED
    BY <2>1, <1>1, <1>2 DEF Bearers
<1>4. IsFiniteSet({new}) /\ Cardinality({new}) = 1
  BY FS_Singleton
<1>5. \A b \in {new} : b.teid > teid /\ b.teid <= teid + 1 /\ b.session \in live
  BY <1>1, <1>3
<1>6. /\ Accounted(B \cup {new}, live, teid + 1, count + Cardinality({new}), stray)
      /\ count + Cardinality({new}) \in Nat
  <2>1. teid + 1 \in 0..MaxTeid /\ teid + 1 >= teid /\ {new} \subseteq Bearers
    BY <1>1, <1>3
  <2> HIDE DEF Accounted
  <2> QED
    BY <2>1, <1>4, <1>5, MoreAccounted
<1> QED
  BY <1>1, <1>3, <1>4, <1>6

\* A request that fails half-way moves counter and strays alike.
LEMMA StraysAccounted ==
  ASSUME NEW B, NEW live, NEW teid, NEW count, NEW stray, Accounted(B, live, teid, count, stray),
         NEW done \in 0..1, teid + done <= MaxTeid
  PROVE  /\ Accounted(B, live, teid + done, count + done, stray + done)
         /\ count + done \in Nat /\ stray + done \in Nat /\ teid + done \in 0..MaxTeid
<1>1. /\ IsFiniteSet(B) /\ B \subseteq Bearers /\ teid \in 0..MaxTeid /\ stray \in Nat
      /\ \A b \in B : b.teid <= teid /\ b.session \in live
      /\ count = Cardinality(B) + stray
  BY DEF Accounted
<1>2. Cardinality(B) \in Nat
  BY <1>1, FS_CardinalityType
<1>3. \A b \in B : b.teid \in Nat
  BY <1>1 DEF Bearers
<1>4. \A b \in B : b.teid <= teid + done
  BY <1>1, <1>3
<1>5. count + done = Cardinality(B) + (stray + done) /\ count + done \in Nat /\ stray + done \in Nat
      /\ teid + done \in 0..MaxTeid
  BY <1>1, <1>2, EpcAssumption
<1> QED
  BY <1>1, <1>4, <1>5 DEF Accounted
-----------------------------------------------------------------------------
\* The inductive invariant of the SGW: the counter is the number of bearers and strays.
SgwIInv ==
  /\ SgwTypeOK
  /\ Accounted(sgwBearer, Live(sgwSession), sgwTeid, sgwBearers, sgwStray)

\* Nothing is counted at first.
LEMMA NothingAccounted == ASSUME NEW live PROVE Accounted({}, live, 0, 0, 0)
BY FS_EmptySet, EpcAssumption DEF Accounted

\* So the SGW's counter starts right.
LEMMA SgwInitInv == EpcInit => SgwIInv
<1>1. EpcInit => SgwTypeOK
  BY EpcAssumption DEF EpcInit, SgwTypeOK
<1> QED
  BY <1>1, NothingAccounted DEF EpcInit, SgwIInv

\* Every request to the SGW keeps its counter right.
LEMMA SgwNextInv == SgwIInv /\ [SgwNext]_sgwVars => SgwIInv'
<1> SUFFICES ASSUME SgwIInv, [SgwNext]_sgwVars PROVE SgwIInv'
  OBVIOUS
<1> USE EpcAssumption
<1>a. /\ sgwSession \in [GwSessions -> Imsis \cup {Nobody}]
      /\ sgwUes \subseteq Imsis /\ ueBefore \subseteq Imsis \X Imsis
      /\ sgwBearer \subseteq Bearers /\ sgwActive \subseteq 1..MaxTeid
      /\ sgwTeid \in 0..MaxTeid /\ sgwBearers \in Nat /\ sgwStray \in Nat
      /\ Accounted(sgwBearer, Live(sgwSession), sgwTeid, sgwBearers, sgwStray)
  BY DEF SgwIInv, SgwTypeOK
<1>b. \A b \in Bearers : b.teid \in 1..MaxTeid
  BY DEF Bearers
<1>1. ASSUME NEW s \in GwSessions, NEW imsi \in Imsis, NEW ebis \in BearerLists,
             CreateSgwSession(s, imsi, ebis)
      PROVE  SgwIInv'
  <2> DEFINE N == NewBearers(s, sgwTeid, ebis)
  <2>1. /\ sgwTeid + Len(ebis) <= MaxTeid /\ sgwSession[s] = Nobody
        /\ sgwSession' = [sgwSession EXCEPT ![s] = imsi]
        /\ sgwBearer' = sgwBearer \cup N /\ sgwActive' = sgwActive \cup {b.teid : b \in N}
        /\ sgwTeid' = sgwTeid + Len(ebis) /\ sgwBearers' = sgwBearers + Len(ebis) /\ sgwStray' = sgwStray
    BY <1>1 DEF CreateSgwSession
  <2>2. sgwUes' \subseteq Imsis /\ ueBefore' \subseteq Imsis \X Imsis
    BY <1>1, <1>a DEF CreateSgwSession, SgwUeKnown
  <2>3. /\ Len(ebis) \in Nat /\ N \subseteq Bearers /\ IsFiniteSet(N) /\ Cardinality(N) = Len(ebis)
        /\ \A b \in N : b.teid > sgwTeid /\ b.teid <= sgwTeid + Len(ebis) /\ b.session = s
    BY <1>a, <2>1, NewBearersCounted
  <2> HIDE DEF N
  <2>4. Live(sgwSession)' = Live(sgwSession) \cup {s} /\ sgwSession' \in [GwSessions -> Imsis \cup {Nobody}]
    BY <1>a, <2>1 DEF Live
  <2>5. sgwTeid' \in 0..MaxTeid /\ sgwTeid' >= sgwTeid
    BY <1>a, <2>1, <2>3
  <2>6. Accounted(sgwBearer, Live(sgwSession), sgwTeid, sgwBearers, sgwStray)'
        /\ sgwBearers' \in Nat
    <3>1. \A b \in N : b.teid > sgwTeid /\ b.teid <= sgwTeid' /\ b.session \in Live(sgwSession)'
      BY <2>1, <2>3, <2>4
    <3>2. Live(sgwSession) \subseteq Live(sgwSession)'
      BY <2>4
    <3>3. /\ Accounted(sgwBearer \cup N, Live(sgwSession)', sgwTeid', sgwBearers + Cardinality(N), sgwStray)
          /\ sgwBearers + Cardinality(N) \in Nat
      BY <1>a, <2>3, <2>5, <3>1, <3>2, MoreAccounted
    <3> QED
      BY <3>3, <2>1, <2>3
  <2>7. {b.teid : b \in N} \subseteq 1..MaxTeid
    BY <1>b, <2>3
  <2> QED
    BY <1>a, <2>1, <2>2, <2>3, <2>4, <2>5, <2>6, <2>7 DEF SgwIInv, SgwTypeOK
<1>2. ASSUME NEW imsi \in Imsis, NEW done \in 0..1, CreateSgwSessionRaises(imsi, done)
      PROVE  SgwIInv'
  <2>1. /\ sgwTeid + done <= MaxTeid /\ sgwTeid' = sgwTeid + done
        /\ sgwBearers' = sgwBearers + done /\ sgwStray' = sgwStray + done
        /\ UNCHANGED <<sgwSession, sgwBearer, sgwActive>>
    BY <1>2 DEF CreateSgwSessionRaises
  <2>2. sgwUes' \subseteq Imsis /\ ueBefore' \subseteq Imsis \X Imsis
    BY <1>2, <1>a DEF CreateSgwSessionRaises, SgwUeKnown
  <2>3. /\ Accounted(sgwBearer, Live(sgwSession), sgwTeid + done, sgwBearers + done, sgwStray + done)
        /\ sgwBearers + done \in Nat /\ sgwStray + done \in Nat /\ sgwTeid + done \in 0..MaxTeid
    BY <1>a, <2>1, StraysAccounted
  <2>4. Live(sgwSession)' = Live(sgwSession)
    BY <2>1
  <2> QED
    BY <1>a, <2>1, <2>2, <2>3, <2>4 DEF SgwIInv, SgwTypeOK
<1>3. ASSUME NEW b \in sgwBearer, ModifyBearer(b) PROVE SgwIInv'
  <2>1. b.teid \in 1..MaxTeid
    BY <1>a, <1>b
  <2>2. sgwActive' = sgwActive \cup {b.teid}
        /\ UNCHANGED <<sgwSession, sgwUes, ueBefore, sgwBearer, sgwTeid, sgwBearers, sgwStray>>
    BY <1>3 DEF ModifyBearer
  <2>3. Live(sgwSession)' = Live(sgwSession)
    BY <2>2
  <2> QED
    BY <1>a, <2>1, <2>2, <2>3 DEF SgwIInv, SgwTypeOK
<1>4. ASSUME NEW s \in GwSessions, ReleaseAccessBearers(s) PROVE SgwIInv'
  <2>1. sgwActive' \subseteq sgwActive
        /\ UNCHANGED <<sgwSession, sgwUes, ueBefore, sgwBearer, sgwTeid, sgwBearers, sgwStray>>
    BY <1>4 DEF ReleaseAccessBearers
  <2>2. Live(sgwSession)' = Live(sgwSession)
    BY <2>1
  <2> QED
    BY <1>a, <2>1, <2>2 DEF SgwIInv, SgwTypeOK
<1>5. ASSUME NEW linked \in Ebis, CreateSgwBearer(linked) PROVE SgwIInv'
  <2>1. PICK b0 \in sgwBearer :
          /\ NewEbi(Of(sgwBearer, b0.session)) <= MaxEbi /\ sgwTeid < MaxTeid
          /\ sgwBearer' = sgwBearer \cup
               {[session |-> b0.session, teid |-> sgwTeid + 1, ebi |-> NewEbi(Of(sgwBearer, b0.session))]}
          /\ sgwActive' = sgwActive \cup {sgwTeid + 1}
          /\ sgwTeid' = sgwTeid + 1 /\ sgwBearers' = sgwBearers + 1
          /\ UNCHANGED <<sgwSession, sgwUes, ueBefore, sgwStray>>
    BY <1>5 DEF CreateSgwBearer
  <2> DEFINE new == [session |-> b0.session, teid |-> sgwTeid + 1, ebi |-> NewEbi(Of(sgwBearer, b0.session))]
  <2>2. /\ new \in Bearers
        /\ Accounted(sgwBearer \cup {new}, Live(sgwSession), sgwTeid + 1, sgwBearers + 1, sgwStray)
        /\ sgwTeid + 1 \in 0..MaxTeid /\ sgwBearers + 1 \in Nat
    BY <1>a, <2>1, DedicatedBearer
  <2>3. sgwBearer' = sgwBearer \cup {new}
    BY <2>1
  <2> HIDE DEF new
  <2>4. Live(sgwSession)' = Live(sgwSession)
    BY <2>1
  <2>5. sgwTeid + 1 \in 1..MaxTeid
    BY <1>a, <2>2
  <2> QED
    BY <1>a, <2>1, <2>2, <2>3, <2>4, <2>5 DEF SgwIInv, SgwTypeOK
<1>6. ASSUME NEW s \in GwSessions, DeleteSgwSession(s) PROVE SgwIInv'
  <2> DEFINE D == Of(sgwBearer, s)
  <2>1. /\ sgwBearers' = sgwBearers - Cardinality(D) /\ sgwBearer' = sgwBearer \ D
        /\ sgwActive' \subseteq sgwActive /\ sgwSession' = [sgwSession EXCEPT ![s] = Nobody]
        /\ sgwUes' \subseteq sgwUes /\ ueBefore' \subseteq ueBefore
        /\ UNCHANGED <<sgwTeid, sgwStray>>
    BY <1>6 DEF DeleteSgwSession
  <2>2. D \subseteq sgwBearer /\ \A b \in sgwBearer \ D : b.session # s
    BY DEF Of
  <2> HIDE DEF D
  <2>3. /\ Live(sgwSession)' = Live(sgwSession) \ {s}
        /\ sgwSession' \in [GwSessions -> Imsis \cup {Nobody}]
    BY <1>a, <2>1 DEF Live
  <2>4. \A b \in sgwBearer \ D : b.session \in Live(sgwSession)'
    BY <1>a, <2>2, <2>3 DEF Accounted
  <2>5. /\ Accounted(sgwBearer \ D, Live(sgwSession)', sgwTeid, sgwBearers - Cardinality(D), sgwStray)
        /\ sgwBearers - Cardinality(D) \in Nat
    BY <1>a, <2>2, <2>4, LessAccounted
  <2> QED
    BY <1>a, <2>1, <2>3, <2>5 DEF SgwIInv, SgwTypeOK
<1>7. CASE UNCHANGED sgwVars
  BY <1>7 DEF sgwVars, SgwIInv, SgwTypeOK, Live
<1> QED
  BY <1>1, <1>2, <1>3, <1>4, <1>5, <1>6, <1>7 DEF SgwNext
-----------------------------------------------------------------------------
\* A session's address is allocated, is its own and has been given out.
AddressesHeld ==
  /\ \A s \in Live(pgwSession) : pgwSession[s].ip \in poolAllocated /\ pgwSession[s].ip < poolCounter
  /\ \A s, t \in Live(pgwSession) : pgwSession[s].ip = pgwSession[t].ip => s = t

\* A session has a bearer with EBI 5 if and only if it was asked for.
DefaultsKept ==
  \A s \in Live(pgwSession) : 5 \in pgwSession[s].asked <=> \E b \in Of(pgwBearer, s) : b.ebi = 5

\* The inductive invariant of the PGW: addresses of sessions lie below the counter that
\* gives them out.
PgwIInv ==
  /\ PgwTypeOK /\ AddressesHeld /\ DefaultsKept
  /\ Accounted(pgwBearer, Live(pgwSession), pgwTeid, pgwBearers, pgwStray)

\* The PGW's counter starts right.
LEMMA PgwInitInv == EpcInit => PgwIInv
<1>1. EpcInit => PgwTypeOK /\ AddressesHeld /\ DefaultsKept
  BY EpcAssumption DEF EpcInit, PgwTypeOK, AddressesHeld, DefaultsKept, Live
<1> QED
  BY <1>1, NothingAccounted DEF EpcInit, PgwIInv

\* Every request to the PGW keeps addresses and counter right.
LEMMA PgwNextInv == PgwIInv /\ [PgwNext]_pgwVars => PgwIInv'
<1> SUFFICES ASSUME PgwIInv, [PgwNext]_pgwVars PROVE PgwIInv'
  OBVIOUS
<1> USE EpcAssumption
<1>a. /\ pgwSession \in [GwSessions -> PgwRecords \cup {Nobody}]
      /\ \A s \in Live(pgwSession) : /\ s \in GwSessions /\ pgwSession[s] \in PgwRecords
                                     /\ pgwSession[s].ip \in 0..PoolSize
      /\ poolAllocated \subseteq 0..PoolSize /\ poolCounter \in 0..PoolSize
      /\ pgwBearer \subseteq Bearers
      /\ pgwTeid \in 0..MaxTeid /\ pgwBearers \in Nat /\ pgwStray \in Nat
      /\ Accounted(pgwBearer, Live(pgwSession), pgwTeid, pgwBearers, pgwStray)
      /\ AddressesHeld /\ DefaultsKept
  BY DEF PgwIInv, PgwTypeOK, Live, PgwRecords
<1>b. AllocateIp => /\ poolCounter' = poolCounter + 1 /\ poolAllocated' = poolAllocated \cup {poolCounter}
                    /\ poolCounter' \in 0..PoolSize /\ poolAllocated' \subseteq 0..PoolSize
  BY <1>a DEF AllocateIp
<1>1. ASSUME NEW s \in GwSessions, NEW apn \in {"internet", "unknown"}, NEW ebis \in BearerLists,
             CreatePgwSession(s, apn, ebis)
      PROVE  PgwIInv'
  <2> DEFINE N == NewBearers(s, pgwTeid, ebis)
             r == [apn |-> apn, ip |-> poolCounter, asked |-> {ebis[i] : i \in DOMAIN ebis}]
  <2>1. /\ pgwSession[s] = Nobody /\ pgwTeid + Len(ebis) <= MaxTeid /\ AllocateIp
        /\ pgwSession' = [pgwSession EXCEPT ![s] = r]
        /\ pgwBearer' = pgwBearer \cup N
        /\ pgwTeid' = pgwTeid + Len(ebis) /\ pgwBearers' = pgwBearers + Len(ebis) /\ pgwStray' = pgwStray
    BY <1>1 DEF CreatePgwSession
  <2>2. /\ Len(ebis) \in Nat /\ N \subseteq Bearers /\ IsFiniteSet(N) /\ Cardinality(N) = Len(ebis)
        /\ \A b \in N : b.teid > pgwTeid /\ b.teid <= pgwTeid + Len(ebis) /\ b.session = s
        /\ \A i \in DOMAIN ebis : ebis[i] \in Ebis
    BY <1>a, <2>1, NewBearersCounted
  <2>3. r \in PgwRecords /\ r.ip = poolCounter /\ r.asked = {ebis[i] : i \in DOMAIN ebis}
    BY <1>a, <2>2 DEF PgwRecords
  <2>4. 5 \in r.asked <=> \E b \in N : b.ebi = 5
    <3>1. \A b \in N : \E i \in DOMAIN ebis : b.ebi = ebis[i]
      BY DEF NewBearers
    <3>2. \A i \in DOMAIN ebis : \E b \in N : b.ebi = ebis[i]
      <4>1. ASSUME NEW i \in DOMAIN ebis PROVE \E b \in N : b.ebi = ebis[i]
        <5>1. [session |-> s, teid |-> pgwTeid + i, ebi |-> ebis[i]] \in N
          BY DEF NewBearers
        <5> QED
          BY <5>1
      <4> QED
        BY <4>1
    <3> HIDE DEF N
    <3> QED
      BY <3>1, <3>2, <2>3
  <2>5. r # Nobody
    BY <2>3
  <2> HIDE DEF N, r
  <2>6. \A t \in GwSessions : pgwSession'[t] = IF t = s THEN r ELSE pgwSession[t]
    BY <1>a, <2>1
  <2>7. Live(pgwSession)' = Live(pgwSession) \cup {s} /\ s \notin Live(pgwSession)
    BY <2>1, <2>5, <2>6 DEF Live
  <2>8. pgwTeid' \in 0..MaxTeid /\ pgwTeid' >= pgwTeid
    BY <1>a, <2>1, <2>2
  <2>9. Accounted(pgwBearer, Live(pgwSession), pgwTeid, pgwBearers, pgwStray)' /\ pgwBearers' \in Nat
    <3>1. \A b \in N : b.teid > pgwTeid /\ b.teid <= pgwTeid' /\ b.session \in Live(pgwSession)'
      BY <2>1, <2>2, <2>7
    <3>2. Live(pgwSession) \subseteq Live(pgwSession)'
      BY <2>7
    <3>3. /\ Accounted(pgwBearer \cup N, Live(pgwSession)', pgwTeid', pgwBearers + Cardinality(N), pgwStray)
          /\ pgwBearers + Cardinality(N) \in Nat
      BY <1>a, <2>2, <2>8, <3>1, <3>2, MoreAccounted, ZenonT(60)
    <3> QED
      BY <3>3, <2>1, <2>2
  <2>10. PgwTypeOK'
    <3>1. pgwSession' \in [GwSessions -> PgwRecords \cup {Nobody}]
      BY <1>a, <2>1, <2>3
    <3> QED
      BY <1>a, <1>b, <2>1, <2>2, <2>8, <2>9, <3>1 DEF PgwTypeOK
  <2>11. AddressesHeld'
    <3>1. \A t \in Live(pgwSession) : pgwSession'[t] = pgwSession[t]
      BY <1>a, <2>6, <2>7
    <3>2. \A t \in Live(pgwSession) : /\ pgwSession'[t].ip \in poolAllocated' /\ pgwSession'[t].ip < poolCounter
                                      /\ pgwSession'[t].ip < poolCounter' /\ pgwSession'[t].ip \in Nat
      BY <1>a, <1>b, <2>1, <3>1 DEF AddressesHeld
    <3>3. pgwSession'[s].ip = poolCounter /\ poolCounter \in poolAllocated' /\ poolCounter < poolCounter'
      BY <1>a, <1>b, <2>1, <2>3, <2>6
    <3>4. \A t, v \in Live(pgwSession) : pgwSession'[t].ip = pgwSession'[v].ip => t = v
      BY <1>a, <3>1 DEF AddressesHeld
    <3>5. \A t \in Live(pgwSession) : pgwSession'[t].ip # pgwSession'[s].ip
      BY <1>a, <3>2, <3>3
    <3> QED
      BY <2>7, <3>2, <3>3, <3>4, <3>5 DEF AddressesHeld
  <2>12. DefaultsKept'
    <3>1. ASSUME NEW t \in Live(pgwSession)
          PROVE  5 \in pgwSession'[t].asked <=> \E b \in Of(pgwBearer', t) : b.ebi = 5
      <4>1. t # s /\ pgwSession'[t] = pgwSession[t]
        BY <1>a, <2>6, <2>7
      <4>2. Of(pgwBearer', t) = Of(pgwBearer, t)
        BY <2>1, <2>2, <4>1 DEF Of
      <4> QED
        BY <1>a, <4>1, <4>2 DEF DefaultsKept
    <3>2. 5 \in pgwSession'[s].asked <=> \E b \in Of(pgwBearer', s) : b.ebi = 5
      <4>1. Of(pgwBearer', s) = N
        <5>1. \A b \in pgwBearer : b.session # s
          BY <1>a, <2>7 DEF Accounted
        <5> QED
          BY <5>1, <2>1, <2>2 DEF Of
      <4> QED
        BY <4>1, <2>4, <2>6
    <3> QED
      BY <2>7, <3>1, <3>2 DEF DefaultsKept
  <2> QED
    BY <2>9, <2>10, <2>11, <2>12 DEF PgwIInv
<1>2. ASSUME NEW done \in 0..1, CreatePgwSessionRaises(done) PROVE PgwIInv'
  <2>1. /\ pgwTeid + done <= MaxTeid /\ AllocateIp /\ pgwTeid' = pgwTeid + done
        /\ pgwBearers' = pgwBearers + done /\ pgwStray' = pgwStray + done
        /\ UNCHANGED <<pgwSession, pgwBearer>>
    BY <1>2 DEF CreatePgwSessionRaises
  <2>2. /\ Accounted(pgwBearer, Live(pgwSession), pgwTeid + done, pgwBearers + done, pgwStray + done)
        /\ pgwBearers + done \in Nat /\ pgwStray + done \in Nat /\ pgwTeid + done \in 0..MaxTeid
    BY <1>a, <2>1, StraysAccounted
  <2>3. Live(pgwSession)' = Live(pgwSession)
    BY <2>1
  <2>4. PgwTypeOK'
    BY <1>a, <1>b, <2>1, <2>2 DEF PgwTypeOK
  <2>5. AddressesHeld'
    <3>1. \A t \in Live(pgwSession) : /\ pgwSession[t].ip \in poolAllocated' /\ pgwSession[t].ip < poolCounter'
      BY <1>a, <1>b, <2>1 DEF AddressesHeld
    <3> QED
      BY <1>a, <2>1, <2>3, <3>1 DEF AddressesHeld
  <2>6. DefaultsKept'
    BY <1>a, <2>1, <2>3 DEF DefaultsKept
  <2> QED
    BY <2>1, <2>2, <2>3, <2>4, <2>5, <2>6 DEF PgwIInv
<1>3. ASSUME NEW s \in GwSessions, NEW linked \in Ebis, CreatePgwBearer(s, linked)
      PROVE  PgwIInv'
  <2>1. PICK b0 \in pgwBearer :
          /\ b0.session = s /\ NewEbi(Of(pgwBearer, b0.session)) <= MaxEbi /\ pgwTeid < MaxTeid
          /\ pgwBearer' = pgwBearer \cup
               {[session |-> b0.session, teid |-> pgwTeid + 1, ebi |-> NewEbi(Of(pgwBearer, b0.session))]}
          /\ pgwTeid' = pgwTeid + 1 /\ pgwBearers' = pgwBearers + 1
          /\ UNCHANGED <<pgwSession, poolAllocated, poolCounter, pgwStray>>
    BY <1>3 DEF CreatePgwBearer, Of
  <2> DEFINE new == [session |-> b0.session, teid |-> pgwTeid + 1, ebi |-> NewEbi(Of(pgwBearer, b0.session))]
  <2>2. /\ new \in Bearers /\ new.ebi # 5
        /\ Accounted(pgwBearer \cup {new}, Live(pgwSession), pgwTeid + 1, pgwBearers + 1, pgwStray)
        /\ pgwTeid + 1 \in 0..MaxTeid /\ pgwBearers + 1 \in Nat
    BY <1>a, <2>1, DedicatedBearer
  <2>3. pgwBearer' = pgwBearer \cup {new}
    BY <2>1
  <2> HIDE DEF new
  <2>4. Live(pgwSession)' = Live(pgwSession)
    BY <2>1
  <2>5. PgwTypeOK' /\ AddressesHeld'
    BY <1>a, <2>1, <2>2, <2>3, <2>4 DEF PgwTypeOK, AddressesHeld
  <2>6. DefaultsKept'
    <3>1. \A t \in GwSessions : (\E b \in Of(pgwBearer', t) : b.ebi = 5) <=> (\E b \in Of(pgwBearer, t) : b.ebi = 5)
      BY <2>2, <2>3 DEF Of
    <3> QED
      BY <1>a, <2>1, <2>4, <3>1 DEF DefaultsKept
  <2> QED
    BY <2>1, <2>2, <2>3, <2>4, <2>5, <2>6 DEF PgwIInv
<1>4. ASSUME NEW b \in pgwBearer, DeletePgwBearer(b) PROVE PgwIInv'
  <2>1. /\ b.ebi # 5 /\ pgwBearer' = pgwBearer \ {b} /\ pgwBearers' = pgwBearers - 1
        /\ UNCHANGED <<pgwSession, poolAllocated, poolCounter, pgwTeid, pgwStray>>
    BY <1>4 DEF DeletePgwBearer
  <2>2. Live(pgwSession)' = Live(pgwSession)
    BY <2>1
  <2>3. /\ Accounted(pgwBearer \ {b}, Live(pgwSession), pgwTeid, pgwBearers - 1, pgwStray)
        /\ pgwBearers - 1 \in Nat
    <3>1. Cardinality({b}) = 1
      BY FS_Singleton
    <3>2. \A c \in pgwBearer \ {b} : c.session \in Live(pgwSession)
      BY <1>a DEF Accounted
    <3> QED
      BY <1>a, <3>1, <3>2, LessAccounted, ZenonT(60)
  <2>4. PgwTypeOK' /\ AddressesHeld'
    BY <1>a, <2>1, <2>2, <2>3 DEF PgwTypeOK, AddressesHeld
  <2>5. DefaultsKept'
    <3>1. \A t \in GwSessions : (\E c \in Of(pgwBearer', t) : c.ebi = 5) <=> (\E c \in Of(pgwBearer, t) : c.ebi = 5)
      BY <2>1 DEF Of
    <3> QED
      BY <1>a, <2>1, <2>2, <3>1 DEF DefaultsKept
  <2> QED
    BY <2>1, <2>2, <2>3, <2>4, <2>5 DEF PgwIInv
<1>5. ASSUME NEW s \in GwSessions, DeletePgwSession(s) PROVE PgwIInv'
  <2> DEFINE D == Of(pgwBearer, s)
  <2>1. /\ s \in Live(pgwSession) /\ pgwBearers' = pgwBearers - Cardinality(D) /\ pgwBearer' = pgwBearer \ D
        /\ pgwSession' = [pgwSession EXCEPT ![s] = Nobody]
        /\ poolAllocated' \subseteq poolAllocated /\ poolAllocated \subseteq poolAllocated' \cup {pgwSession[s].ip}
        /\ UNCHANGED <<poolCounter, pgwTeid, pgwStray>>
    BY <1>5 DEF DeletePgwSession, Live
  <2>2. D \subseteq pgwBearer /\ (\A b \in pgwBearer \ D : b.session # s)
        /\ \A t \in GwSessions : t # s => Of(pgwBearer \ D, t) = Of(pgwBearer, t)
    BY DEF Of
  <2> HIDE DEF D
  <2>3. /\ \A t \in GwSessions : pgwSession'[t] = IF t = s THEN Nobody ELSE pgwSession[t]
        /\ pgwSession' \in [GwSessions -> PgwRecords \cup {Nobody}]
    BY <1>a, <2>1
  <2>4. Live(pgwSession)' = Live(pgwSession) \ {s}
    BY <2>3 DEF Live
  <2>5. /\ Accounted(pgwBearer \ D, Live(pgwSession)', pgwTeid, pgwBearers - Cardinality(D), pgwStray)
        /\ pgwBearers - Cardinality(D) \in Nat
    <3>1. \A b \in pgwBearer \ D : b.session \in Live(pgwSession)'
      BY <1>a, <2>2, <2>4 DEF Accounted
    <3> QED
      BY <1>a, <2>2, <3>1, LessAccounted
  <2>6. PgwTypeOK'
    BY <1>a, <2>1, <2>3, <2>5 DEF PgwTypeOK
  <2>7. AddressesHeld'
    <3>1. \A t \in Live(pgwSession)' : t \in Live(pgwSession) /\ t # s /\ pgwSession'[t] = pgwSession[t]
      BY <1>a, <2>3, <2>4
    <3>2. \A t \in Live(pgwSession) : pgwSession[t].ip \in poolAllocated /\ pgwSession[t].ip < poolCounter
      BY <1>a DEF AddressesHeld
    <3>3. \A t, v \in Live(pgwSession) : pgwSession[t].ip = pgwSession[v].ip => t = v
      BY <1>a DEF AddressesHeld
    <3>4. \A t \in Live(pgwSession)' : pgwSession[t].ip \in poolAllocated'
      BY <3>1, <3>2, <3>3, <2>1
    <3>5. \A t \in Live(pgwSession)' : pgwSession'[t].ip \in poolAllocated' /\ pgwSession'[t].ip < poolCounter'
      BY <3>1, <3>2, <3>4, <2>1
    <3>6. \A t, v \in Live(pgwSession)' : pgwSession'[t].ip = pgwSession'[v].ip => t = v
      BY <3>1, <3>3
    <3> QED
      BY <3>5, <3>6 DEF AddressesHeld
  <2>8. DefaultsKept'
    <3>1. ASSUME NEW t \in Live(pgwSession)'
          PROVE  5 \in pgwSession'[t].asked <=> \E b \in Of(pgwBearer', t) : b.ebi = 5
      <4>1. t \in Live(pgwSession) /\ t # s /\ t \in GwSessions /\ pgwSession'[t] = pgwSession[t]
        BY <1>a, <2>3, <2>4
      <4>2. Of(pgwBearer', t) = Of(pgwBearer, t)
        BY <2>1, <2>2, <4>1
      <4> QED
        BY <1>a, <4>1, <4>2 DEF DefaultsKept
    <3> QED
      BY <3>1 DEF DefaultsKept
  <2> QED
    BY <2>1, <2>5, <2>6, <2>7, <2>8 DEF PgwIInv
<1>6. CASE UNCHANGED pgwVars
  BY <1>6 DEF pgwVars, PgwIInv, PgwTypeOK, AddressesHeld, DefaultsKept, Live
<1> QED
  BY <1>1, <1>2, <1>3, <1>4, <1>5, <1>6 DEF PgwNext

-----------------------------------------------------------------------------
(* IMS: S-CSCF with the HSS, I-CSCF and P-CSCF.                             *)

\* The types of the S-CSCF's and the IMS HSS's variables.
ScscfTypeOK ==
  /\ user \in [Impus -> UserRecords \cup {Gone}]
  /\ records \in [Impus -> 0..MaxContacts] /\ authVectors \in [Impis -> 0..3]
  /\ imsSub \in [Impis -> Subscriptions \cup {Gone}] /\ impuToImpi \in [Impus -> Impis \cup {Gone}]
  /\ procedure \in [Procedures -> RegisterRequests \cup {Gone, Over}]
  /\ reconciled \subseteq Impus

\* The S-CSCF holds the identity registered.
ImsRegistered(i) == user[i] # Gone /\ user[i].state = "registered"

\* Whoever is registered has a contact.
RegisteredHasContact == \A i \in Impus : ImsRegistered(i) => user[i].contacts > 0

\* A request that runs alone finds the record it started with, and the HSS as it left it.
AloneMeansUndisturbed ==
  \A i \in Impus : \A p \in Underway(i) : procedure[p].alone =>
    /\ Underway(i) = {p}
    /\ procedure[p].cx # "late" =>
         procedure[p].record = (IF user[i] = Gone THEN 0 ELSE user[i].record)
    /\ procedure[p].cx = "unknown" /\ procedure[p].kind # "mar" => RegState(i) = Gone
    /\ procedure[p].cx = "handled" /\ procedure[p].kind = "register" => RegState(i) = "registered"
    /\ procedure[p].cx = "handled" /\ procedure[p].kind = "deregister" => RegState(i) = "not_registered"

\* While the last exchange counts, no change the HSS made waits to be taken
\* back, and a difference is one that a change under way explains.
ReconciledMeansExplained ==
  \A i \in reconciled :
    /\ \A p \in Underway(i) : procedure[p].cx = "late" => procedure[p].kind = "mar"
    /\ \/ ImsRegistered(i) <=> RegState(i) = "registered"
       \/ \E p \in Underway(i) : procedure[p].cx = "handled" /\ procedure[p].kind # "mar"

\* The HSS's index leads to a subscription that has the identity.
IndexHolds ==
  \A i \in Impus : impuToImpi[i] # Gone =>
    imsSub[impuToImpi[i]] # Gone /\ i \in imsSub[impuToImpi[i]].impus

\* The inductive invariant of S-CSCF and HSS: what each request under way knows has to be
\* said for the agreement to be inductive.
ScscfIInv ==
  /\ ScscfTypeOK /\ RegisteredHasContact /\ IndexHolds
  /\ AloneMeansUndisturbed /\ ReconciledMeansExplained

\* Nothing is registered and nothing under way at first.
LEMMA ScscfInitInv == ImsInit => ScscfIInv
<1> SUFFICES ASSUME ImsInit PROVE ScscfIInv
  OBVIOUS
<1> DEFINE Ids(m) == {i \in Impus : impuToImpi[i] = m}
           Sub(m) == IF Ids(m) = {} THEN Gone ELSE [state |-> "not_registered", impus |-> Ids(m)]
<1>1. /\ imsSub = [m \in Impis |-> Sub(m)] /\ impuToImpi \in [Impus -> Impis \cup {Gone}]
      /\ Gone \notin Impis
  BY ImsAssumption DEF ImsInit
<1>2. \A m : Sub(m) \in Subscriptions \cup {Gone} /\ (Sub(m) # Gone => Sub(m).impus = Ids(m) /\ Sub(m).state = "not_registered")
  BY DEF Subscriptions, RegStates
<1>3. \A i \in Impus : impuToImpi[i] # Gone => i \in Ids(impuToImpi[i]) /\ impuToImpi[i] \in Impis
  BY <1>1
<1>4. \A m : Ids(m) # {} => Sub(m) # Gone
  BY ImsAssumption DEF Subscriptions, RegStates
<1> HIDE DEF Ids, Sub
<1>5. imsSub \in [Impis -> Subscriptions \cup {Gone}]
  BY <1>1, <1>2
<1>6. ScscfTypeOK
  BY <1>1, <1>5, ImsAssumption DEF ImsInit, ScscfTypeOK
<1>7. IndexHolds
  BY <1>1, <1>2, <1>3, <1>4 DEF IndexHolds
<1>8. \A i \in Impus : RegState(i) # "registered"
  BY <1>1, <1>2, <1>3, ImsAssumption DEF RegState, RegStates
<1>9. \A i \in Impus : ~ ImsRegistered(i) /\ Underway(i) = {}
  BY DEF ImsInit, ImsRegistered, Underway, Waits
<1>10. RegisteredHasContact /\ AloneMeansUndisturbed /\ ReconciledMeansExplained
  BY <1>8, <1>9 DEF ImsInit, RegisteredHasContact, AloneMeansUndisturbed, ReconciledMeansExplained
<1> QED
  BY <1>6, <1>7, <1>10 DEF ScscfIInv

\* A request that sets out is alone when no other is under way for its
\* identity, and ends the quiet of those that are.
LEMMA SendInv ==
  ASSUME ScscfTypeOK, AloneMeansUndisturbed, ReconciledMeansExplained,
         NEW p \in Procedures, NEW i \in Impus, NEW m \in Impis,
         NEW kind \in {"mar", "register", "deregister"},
         procedure[p] = Gone, Send(p, kind, i, m), UNCHANGED <<user, imsSub, impuToImpi, reconciled>>
  PROVE  /\ procedure' \in [Procedures -> RegisterRequests \cup {Gone, Over}]
         /\ AloneMeansUndisturbed' /\ ReconciledMeansExplained'
<1> DEFINE sent == [kind |-> kind, impu |-> i, impi |-> m, cx |-> "sent", alone |-> Underway(i) = {},
                    record |-> IF user[i] = Gone THEN 0 ELSE user[i].record]
<1>0. \A j \in Impus : RegState(j)' = RegState(j)
  BY DEF RegState
<1>1. sent \in RegisterRequests
  <2>1. (IF user[i] = Gone THEN 0 ELSE user[i].record) \in 0..MaxContacts
    BY ImsAssumption DEF ScscfTypeOK, UserRecords
  <2>2. (Underway(i) = {}) \in BOOLEAN
    OBVIOUS
  <2> QED
    BY <2>1, <2>2 DEF RegisterRequests
<1>2. \A q \in Underway(i) : /\ q \in Procedures /\ procedure[q] \in RegisterRequests /\ Waits(q)
                             /\ [procedure[q] EXCEPT !.alone = FALSE] \in RegisterRequests
                             /\ procedure[q].impu = i
  BY DEF Underway, Waits, ScscfTypeOK, RegisterRequests
<1>3. p \notin Underway(i)
  BY DEF Underway, Waits
<1>4. procedure' \in [Procedures -> RegisterRequests \cup {Gone, Over}]
  BY <1>1, <1>2 DEF Send, ScscfTypeOK
<1>5. procedure'[p] = sent /\ sent \notin {Gone, Over}
  BY <1>1, ImsAssumption DEF Send
<1>6. \A q \in Underway(i) : /\ procedure'[q] = [procedure[q] EXCEPT !.alone = FALSE]
                             /\ procedure'[q] \notin {Gone, Over} /\ procedure'[q].alone = FALSE
                             /\ procedure'[q].impu = i /\ procedure'[q].cx = procedure[q].cx
                             /\ procedure'[q].kind = procedure[q].kind
  BY <1>2, <1>3, ImsAssumption DEF Send, RegisterRequests
<1>7. \A q \in Procedures : q # p /\ q \notin Underway(i) => procedure'[q] = procedure[q]
  BY DEF Send
<1> HIDE DEF sent
<1>8. \A j \in Impus : Underway(j)' = IF j = i THEN Underway(i) \cup {p} ELSE Underway(j)
  <2> TAKE j \in Impus
  <2>1. sent.impu = i /\ sent.cx = "sent"
    BY DEF sent
  <2>2. \A q \in Procedures : q \in Underway(j)' <=> (q \in Underway(j) \/ (q = p /\ j = i))
    BY <1>2, <1>3, <1>5, <1>6, <1>7, <2>1 DEF Underway, Waits
  <2>3. Underway(j) \subseteq Procedures /\ Underway(j)' \subseteq Procedures
    BY DEF Underway
  <2> QED
    BY <2>2, <2>3
<1>9. AloneMeansUndisturbed'
  <2> SUFFICES ASSUME NEW j \in Impus, NEW q \in Underway(j)', procedure'[q].alone
               PROVE  /\ Underway(j)' = {q}
                      /\ procedure'[q].cx # "late" =>
                           procedure'[q].record = (IF user[j] = Gone THEN 0 ELSE user[j].record)
                      /\ procedure'[q].cx = "unknown" /\ procedure'[q].kind # "mar" => RegState(j) = Gone
                      /\ procedure'[q].cx = "handled" /\ procedure'[q].kind = "register" =>
                           RegState(j) = "registered"
                      /\ procedure'[q].cx = "handled" /\ procedure'[q].kind = "deregister" =>
                           RegState(j) = "not_registered"
    BY <1>0 DEF AloneMeansUndisturbed
  <2>1. CASE q = p
    <3>1. /\ sent.impu = i /\ sent.cx = "sent" /\ (sent.alone => Underway(i) = {})
          /\ sent.record = IF user[i] = Gone THEN 0 ELSE user[i].record
      BY DEF sent
    <3>2. j = i
      BY <2>1, <3>1, <1>5 DEF Underway
    <3> QED
      BY <2>1, <3>1, <3>2, <1>5, <1>8
  <2>2. CASE q # p
    <3>1. q \in Procedures /\ q \notin Underway(i) /\ procedure'[q] = procedure[q]
      BY <2>2, <1>6, <1>7 DEF Underway
    <3>2. j # i /\ q \in Underway(j)
      BY <3>1, <2>2, <1>8
    <3> QED
      BY <3>1, <3>2, <1>8 DEF AloneMeansUndisturbed
  <2> QED
    BY <2>1, <2>2
<1>10. ReconciledMeansExplained'
  <2> SUFFICES ASSUME NEW j \in reconciled
               PROVE  /\ \A q \in Underway(j)' : procedure'[q].cx = "late" => procedure'[q].kind = "mar"
                      /\ \/ ImsRegistered(j) <=> RegState(j) = "registered"
                         \/ \E q \in Underway(j)' : procedure'[q].cx = "handled" /\ procedure'[q].kind # "mar"
    BY <1>0 DEF ReconciledMeansExplained, ImsRegistered, ScscfTypeOK
  <2>1. j \in Impus
    BY DEF ScscfTypeOK
  <2>2. \A q \in Underway(j) : procedure'[q].cx = procedure[q].cx /\ procedure'[q].kind = procedure[q].kind
    <3> TAKE q \in Underway(j)
    <3>1. q \in Procedures /\ q # p
      BY DEF Underway, Waits
    <3> QED
      BY <3>1, <1>6, <1>7
  <2>3. sent.cx # "late"
    BY DEF sent
  <2> QED
    BY <2>1, <2>2, <2>3, <1>5, <1>8 DEF ReconciledMeansExplained
<1> QED
  BY <1>4, <1>9, <1>10

\* A request under way is about an identity.
LEMMA RequestTyped ==
  ASSUME ScscfTypeOK, NEW p \in Procedures, Waits(p)
  PROVE  procedure[p] \in RegisterRequests /\ procedure[p].impu \in Impus /\ procedure[p].impi \in Impis
BY DEF ScscfTypeOK, RegisterRequests, Waits

\* Being overtaken costs a request its quiet and nothing else.
LEMMA OvertakenEffect ==
  ASSUME ScscfTypeOK, NEW ids \in SUBSET Impus
  PROVE  /\ Overtaken(ids) \in [Procedures -> RegisterRequests \cup {Gone, Over}]
         /\ \A q \in Procedures :
              /\ Overtaken(ids)[q] \in {Gone, Over} <=> ~ Waits(q)
              /\ Waits(q) => /\ Overtaken(ids)[q].impu = procedure[q].impu
                             /\ Overtaken(ids)[q].cx = procedure[q].cx
                             /\ Overtaken(ids)[q].kind = procedure[q].kind
                             /\ Overtaken(ids)[q].alone =>
                                  Overtaken(ids)[q] = procedure[q] /\ procedure[q].impu \notin ids
<1>1. \A r \in RegisterRequests :
        /\ [r EXCEPT !.alone = FALSE] \in RegisterRequests
        /\ [r EXCEPT !.alone = FALSE].impu = r.impu /\ [r EXCEPT !.alone = FALSE].cx = r.cx
        /\ [r EXCEPT !.alone = FALSE].kind = r.kind /\ [r EXCEPT !.alone = FALSE].alone = FALSE
  BY DEF RegisterRequests
<1>2. Gone \notin RegisterRequests /\ Over \notin RegisterRequests
  BY ImsAssumption
<1>3. ASSUME NEW q \in Procedures
      PROVE  /\ Overtaken(ids)[q] \in RegisterRequests \cup {Gone, Over}
             /\ Overtaken(ids)[q] \in {Gone, Over} <=> ~ Waits(q)
             /\ Waits(q) => /\ Overtaken(ids)[q].impu = procedure[q].impu
                            /\ Overtaken(ids)[q].cx = procedure[q].cx
                            /\ Overtaken(ids)[q].kind = procedure[q].kind
                            /\ Overtaken(ids)[q].alone =>
                                 Overtaken(ids)[q] = procedure[q] /\ procedure[q].impu \notin ids
  <2>1. procedure[q] \in RegisterRequests \cup {Gone, Over}
    BY DEF ScscfTypeOK
  <2>2. CASE \E i \in ids : q \in Underway(i)
    <3>1. Overtaken(ids)[q] = [procedure[q] EXCEPT !.alone = FALSE]
      BY <2>2 DEF Overtaken
    <3>2. Waits(q) /\ procedure[q] \in RegisterRequests
      BY <2>1, <2>2 DEF Underway, Waits
    <3> QED
      BY <3>1, <3>2, <1>1, <1>2
  <2>3. CASE ~ \E i \in ids : q \in Underway(i)
    <3>1. Overtaken(ids)[q] = procedure[q]
      BY <2>3 DEF Overtaken
    <3>2. Waits(q) => procedure[q].impu \notin ids
      BY <2>3 DEF Underway
    <3> QED
      BY <2>1, <3>1, <3>2 DEF Waits
  <2> QED
    BY <2>2, <2>3
<1>4. Overtaken(ids) = [q \in Procedures |-> Overtaken(ids)[q]]
  BY DEF Overtaken
<1> HIDE DEF Overtaken
<1>5. Overtaken(ids) \in [Procedures -> RegisterRequests \cup {Gone, Over}]
  BY <1>3, <1>4
<1> QED
  BY <1>3, <1>5

\* The identity of a request that goes on to another answer, what there is to
\* say of it, and of the others while some identities' requests are overtaken.
LEMMA AnswerMovesAmong ==
  ASSUME ScscfTypeOK, NEW p \in Procedures, Waits(p), NEW ids \in SUBSET Impus,
         NEW c \in {"handled", "unknown", "late", "over"},
         procedure' = [Overtaken(ids) EXCEPT ![p] = Moved(p, c)]
  PROVE  /\ procedure[p].impu \in Impus /\ p \in Underway(procedure[p].impu)
         /\ procedure[p] \in RegisterRequests
         /\ procedure' \in [Procedures -> RegisterRequests \cup {Gone, Over}]
         /\ c # "over" =>
              /\ procedure'[p].kind = procedure[p].kind /\ procedure'[p].alone = procedure[p].alone
              /\ procedure'[p].cx = c /\ procedure'[p].record = procedure[p].record
         /\ \A q \in Procedures : q # p => procedure'[q] = Overtaken(ids)[q]
         /\ \A j \in Impus :
              Underway(j)' =
                IF j = procedure[p].impu /\ c = "over" THEN Underway(j) \ {p} ELSE Underway(j)
<1> DEFINE i == procedure[p].impu
<1>1. procedure[p] \in RegisterRequests /\ i \in Impus /\ p \in Underway(i)
  BY RequestTyped DEF Underway
<1>2. Overtaken(ids) \in [Procedures -> RegisterRequests \cup {Gone, Over}]
  BY OvertakenEffect
<1>3. c # "over" =>
        /\ Moved(p, c) \in RegisterRequests /\ Moved(p, c).impu = i
        /\ Moved(p, c).kind = procedure[p].kind /\ Moved(p, c).alone = procedure[p].alone
        /\ Moved(p, c).cx = c /\ Moved(p, c).record = procedure[p].record
  BY <1>1 DEF Moved, RegisterRequests
<1>4. c = "over" => Moved(p, c) = Over
  BY DEF Moved
<1>5. procedure'[p] = Moved(p, c) /\ \A q \in Procedures : q # p => procedure'[q] = Overtaken(ids)[q]
  BY <1>2
<1>6. procedure' \in [Procedures -> RegisterRequests \cup {Gone, Over}]
  BY <1>2, <1>3, <1>4
<1>7. ASSUME NEW j \in Impus
      PROVE  Underway(j)' = IF j = i /\ c = "over" THEN Underway(j) \ {p} ELSE Underway(j)
  <2>1. \A q \in Procedures : q # p => (q \in Underway(j)' <=> q \in Underway(j))
    BY <1>5, OvertakenEffect DEF Underway, Waits
  <2>2. p \in Underway(j)' <=> j = i /\ c # "over"
    <3>1. CASE c = "over"
      BY <1>4, <1>5, <3>1 DEF Underway, Waits
    <3>2. CASE c # "over"
      <4>1. Moved(p, c) \notin {Gone, Over}
        BY <1>3, <3>2, ImsAssumption
      <4> QED
        BY <1>3, <1>5, <3>2, <4>1 DEF Underway, Waits
    <3> QED
      BY <3>1, <3>2
  <2>3. p \in Underway(j) <=> j = i
    BY DEF Underway
  <2>4. Underway(j) \subseteq Procedures /\ Underway(j)' \subseteq Procedures
    BY DEF Underway
  <2> QED
    BY <2>1, <2>2, <2>3, <2>4
<1> QED
  BY <1>1, <1>3, <1>5, <1>6, <1>7

\* A request goes on to an answer, and no other is overtaken.
MovesOn(p, c) == procedure' = [procedure EXCEPT ![p] = Moved(p, c)]

\* The same where no other request is overtaken.
LEMMA AnswerMoves ==
  ASSUME ScscfTypeOK, NEW p \in Procedures, Waits(p),
         NEW c \in {"handled", "unknown", "late", "over"}, MovesOn(p, c)
  PROVE  /\ procedure[p].impu \in Impus /\ p \in Underway(procedure[p].impu)
         /\ procedure[p] \in RegisterRequests
         /\ procedure' \in [Procedures -> RegisterRequests \cup {Gone, Over}]
         /\ c # "over" =>
              /\ procedure'[p].kind = procedure[p].kind /\ procedure'[p].alone = procedure[p].alone
              /\ procedure'[p].cx = c /\ procedure'[p].record = procedure[p].record
         /\ \A q \in Procedures : q # p => procedure'[q] = procedure[q]
         /\ \A j \in Impus :
              Underway(j)' =
                IF j = procedure[p].impu /\ c = "over" THEN Underway(j) \ {p} ELSE Underway(j)
<1>1. Overtaken({}) = procedure
  BY DEF Overtaken, ScscfTypeOK
<1>2. {} \in SUBSET Impus
  OBVIOUS
<1> QED
  BY <1>1, <1>2, AnswerMovesAmong, ZenonT(60) DEF MovesOn

\* What the HSS's change does to its tables.
LEMMA HssEffect ==
  ASSUME ScscfTypeOK, IndexHolds, NEW p \in Procedures, HssHandles(p), NEW i \in Impus, i = procedure[p].impu
  PROVE  /\ imsSub' \in [Impis -> Subscriptions \cup {Gone}] /\ IndexHolds'
         /\ procedure[p].kind = "mar" => imsSub' = imsSub
         /\ RegState(i) = Gone => imsSub' = imsSub
         /\ RegState(i) # Gone /\ procedure[p].kind = "register" => RegState(i)' = "registered"
         /\ RegState(i) # Gone /\ procedure[p].kind = "deregister" => RegState(i)' = "not_registered"
<1> DEFINE m == impuToImpi[i]
           new == IF procedure[p].kind = "register" THEN "registered" ELSE "not_registered"
<1>1. /\ UNCHANGED impuToImpi /\ new \in RegStates
      /\ imsSub' = IF procedure[p].kind = "mar" \/ RegState(i) = Gone THEN imsSub
                   ELSE [imsSub EXCEPT ![m].state = new]
  BY DEF HssHandles, RegStates
<1>2. CASE procedure[p].kind = "mar" \/ RegState(i) = Gone
  BY <1>1, <1>2 DEF ScscfTypeOK, IndexHolds
<1>3. CASE procedure[p].kind # "mar" /\ RegState(i) # Gone
  <2>1. m \in Impis /\ imsSub[m] \in Subscriptions /\ m # Gone
    BY <1>3 DEF RegState, ScscfTypeOK
  <2>2. /\ imsSub' = [imsSub EXCEPT ![m] = [imsSub[m] EXCEPT !.state = new]]
        /\ [imsSub[m] EXCEPT !.state = new] \in Subscriptions
        /\ [imsSub[m] EXCEPT !.state = new].state = new
        /\ [imsSub[m] EXCEPT !.state = new].impus = imsSub[m].impus
    BY <1>1, <1>3, <2>1 DEF Subscriptions
  <2>3. /\ imsSub' \in [Impis -> Subscriptions \cup {Gone}]
        /\ imsSub'[m] \in Subscriptions /\ imsSub'[m].state = new /\ imsSub'[m].impus = imsSub[m].impus
        /\ \A n \in Impis : n # m => imsSub'[n] = imsSub[n]
    BY <2>1, <2>2 DEF ScscfTypeOK
  <2>4. imsSub'[m] # Gone
    BY <2>3, ImsAssumption
  <2>5. RegState(i)' = new
    BY <1>1, <2>1, <2>3, <2>4 DEF RegState
  <2>6. IndexHolds'
    BY <1>1, <2>1, <2>3, <2>4 DEF IndexHolds, ScscfTypeOK
  <2> QED
    BY <1>3, <2>3, <2>5, <2>6
<1> QED
  BY <1>2, <1>3

\* The HSS's change, made when the request arrives there, keeps the invariant.
LEMMA HssHandlesInv ==
  ASSUME ScscfIInv, NEW p \in Procedures, HssHandles(p)
  PROVE  ScscfIInv'
<1> USE DEF ScscfIInv
<1>i. PICK i \in Impus : i = procedure[p].impu
  BY RequestTyped DEF HssHandles
<1> DEFINE c == HssAnswer(p)
           others == Changed \ {i}
<1>1. /\ Waits(p) /\ procedure[p].cx \in {"sent", "late"}
      /\ UNCHANGED <<user, records, authVectors, impuToImpi>>
      /\ procedure' = [Overtaken(others) EXCEPT ![p] = Moved(p, c)]
      /\ reconciled' = reconciled \ others /\ others \in SUBSET Impus /\ i \notin others
  BY <1>i DEF HssHandles, Changed
<1>2. c \in {"handled", "unknown", "late", "over"}
  BY DEF HssAnswer
<1>3. /\ i \in Impus /\ p \in Underway(i) /\ procedure[p] \in RegisterRequests
      /\ procedure' \in [Procedures -> RegisterRequests \cup {Gone, Over}]
      /\ c # "over" =>
           /\ procedure'[p].kind = procedure[p].kind /\ procedure'[p].alone = procedure[p].alone
           /\ procedure'[p].cx = c /\ procedure'[p].record = procedure[p].record
      /\ \A q \in Procedures : q # p => procedure'[q] = Overtaken(others)[q]
      /\ \A j \in Impus :
           Underway(j)' = IF j = i /\ c = "over" THEN Underway(j) \ {p} ELSE Underway(j)
  <2>1. ScscfTypeOK
    OBVIOUS
  <2> HIDE DEF c, others
  <2> QED
    BY ONLY <1>i, <1>1, <1>2, <2>1, AnswerMovesAmong, p \in Procedures, i \in Impus, ZenonT(60)
<1>4. /\ imsSub' \in [Impis -> Subscriptions \cup {Gone}] /\ IndexHolds'
      /\ procedure[p].kind = "mar" => imsSub' = imsSub
      /\ RegState(i) = Gone => imsSub' = imsSub
      /\ RegState(i) # Gone /\ procedure[p].kind = "register" => RegState(i)' = "registered"
      /\ RegState(i) # Gone /\ procedure[p].kind = "deregister" => RegState(i)' = "not_registered"
  <2>1. ScscfTypeOK /\ IndexHolds
    OBVIOUS
  <2> QED
    BY ONLY <1>i, <2>1, HssEffect, p \in Procedures, HssHandles(p), i \in Impus
<1>5. ScscfTypeOK' /\ RegisteredHasContact'
  BY <1>1, <1>3, <1>4 DEF ScscfTypeOK, RegisteredHasContact, ImsRegistered
<1>6. \A j \in Impus : Underway(j) \subseteq Procedures /\ (p \in Underway(j) => j = i)
  BY <1>i DEF Underway
<1>7. /\ c = "over" <=> procedure[p].cx = "late"
      /\ c \in {"over", "unknown", "handled"}
      /\ c = "unknown" => RegState(i) = Gone
      /\ c = "handled" /\ procedure[p].kind # "mar" => RegState(i) # Gone
  BY <1>i, <1>1 DEF HssAnswer
<1>8. /\ \A j \in Impus : j # i /\ j \notin others => RegState(j)' = RegState(j)
      /\ imsSub' = imsSub => \A j \in Impus : RegState(j)' = RegState(j)
  BY <1>1 DEF Changed, RegState
<1>a. \A j \in Impus : \A q \in Underway(j) :
        q # p => /\ procedure'[q].cx = procedure[q].cx /\ procedure'[q].kind = procedure[q].kind
                 /\ procedure'[q].alone => procedure'[q] = procedure[q] /\ j \notin others
  <2> TAKE j \in Impus
  <2> TAKE q \in Underway(j)
  <2> HAVE q # p
  <2>1. q \in Procedures /\ Waits(q) /\ procedure[q].impu = j
    BY DEF Underway
  <2>2. procedure'[q] = Overtaken(others)[q]
    BY <1>3, <2>1
  <2>3. ScscfTypeOK
    OBVIOUS
  <2> HIDE DEF others
  <2> QED
    BY ONLY <1>1, <2>1, <2>2, <2>3, OvertakenEffect
<1> HIDE DEF c, others
<1>9. AloneMeansUndisturbed'
  <2> SUFFICES ASSUME NEW j \in Impus, NEW q \in Underway(j)', procedure'[q].alone
               PROVE  /\ Underway(j)' = {q}
                      /\ procedure'[q].cx # "late" =>
                           procedure'[q].record = (IF user[j] = Gone THEN 0 ELSE user[j].record)
                      /\ procedure'[q].cx = "unknown" /\ procedure'[q].kind # "mar" => RegState(j)' = Gone
                      /\ procedure'[q].cx = "handled" /\ procedure'[q].kind = "register" =>
                           RegState(j)' = "registered"
                      /\ procedure'[q].cx = "handled" /\ procedure'[q].kind = "deregister" =>
                           RegState(j)' = "not_registered"
    BY <1>1 DEF AloneMeansUndisturbed
  <2>1. q \in Underway(j) /\ q \in Procedures
    BY <1>3, <1>6
  <2>2. CASE q = p
    <3>1. j = i /\ c # "over" /\ Underway(i)' = Underway(i)
      BY <2>1, <2>2, <1>3, <1>6
    <3>2. Underway(i) = {p} /\ procedure[p].record = (IF user[i] = Gone THEN 0 ELSE user[i].record)
      BY <2>1, <2>2, <3>1, <1>3, <1>7 DEF AloneMeansUndisturbed
    <3> QED
      BY <2>2, <3>1, <3>2, <1>3, <1>4, <1>7, <1>8
  <2>3. CASE q # p
    <3>1. procedure'[q] = procedure[q] /\ j \notin others
      BY <2>1, <2>3, <1>a
    <3>4. Underway(j) = {q}
      BY <2>1, <3>1 DEF AloneMeansUndisturbed
    <3>2. j # i /\ Underway(j)' = Underway(j)
      BY <3>4, <2>3, <1>3
    <3>3. RegState(j)' = RegState(j)
      BY <3>1, <3>2, <1>8
    <3> QED
      BY <2>1, <3>1, <3>2, <3>3, <3>4 DEF AloneMeansUndisturbed
  <2> QED
    BY <2>2, <2>3
<1>10. ReconciledMeansExplained'
  <2> SUFFICES ASSUME NEW j \in reconciled, j \notin others
               PROVE  /\ \A q \in Underway(j)' : procedure'[q].cx = "late" => procedure'[q].kind = "mar"
                      /\ \/ ImsRegistered(j) <=> RegState(j)' = "registered"
                         \/ \E q \in Underway(j)' : procedure'[q].cx = "handled" /\ procedure'[q].kind # "mar"
    BY <1>1 DEF ReconciledMeansExplained, ImsRegistered
  <2>1. j \in Impus /\ Underway(j)' \subseteq Underway(j)
    BY <1>3 DEF ScscfTypeOK
  <2>2. \A q \in Underway(j)' : procedure'[q].cx = "late" => procedure'[q].kind = "mar"
    <3> SUFFICES ASSUME NEW q \in Underway(j)', procedure'[q].cx = "late" PROVE procedure'[q].kind = "mar"
      OBVIOUS
    <3>1. CASE q = p
      <4>1. c # "over"
        BY <2>1, <3>1, <1>3, <1>6
      <4> QED
        BY <3>1, <4>1, <1>3, <1>7
    <3>2. CASE q # p
      BY <2>1, <3>2, <1>a DEF ReconciledMeansExplained
    <3> QED
      BY <3>1, <3>2
  <2>3. CASE c = "handled" /\ procedure[p].kind # "mar" /\ j = i
    <3>1. p \in Underway(j)' /\ procedure'[p].cx = "handled" /\ procedure'[p].kind # "mar"
      BY <2>3, <1>3
    <3> QED
      BY <2>2, <3>1
  <2>4. CASE ~ (c = "handled" /\ procedure[p].kind # "mar" /\ j = i)
    <3>1. RegState(j)' = RegState(j)
      <4>1. CASE c = "over" /\ j = i
        <5>1. procedure[p].kind = "mar"
          BY <4>1, <1>3, <1>7 DEF ReconciledMeansExplained
        <5> QED
          BY <5>1, <2>1, <1>4, <1>8
      <4> QED
        BY <4>1, <2>1, <2>4, <1>4, <1>7, <1>8
    <3>2. \A q \in Underway(j) : procedure[q].cx = "handled" =>
            q \in Underway(j)' /\ procedure'[q].cx = procedure[q].cx /\ procedure'[q].kind = procedure[q].kind
      <4> SUFFICES ASSUME NEW q \in Underway(j), procedure[q].cx = "handled"
                   PROVE  q \in Underway(j)' /\ procedure'[q].cx = procedure[q].cx /\ procedure'[q].kind = procedure[q].kind
        OBVIOUS
      <4>1. q # p
        BY <1>1
      <4> QED
        BY <4>1, <2>1, <1>3, <1>a
    <3>3. \/ ImsRegistered(j) <=> RegState(j) = "registered"
          \/ \E q \in Underway(j) : procedure[q].cx = "handled" /\ procedure[q].kind # "mar"
      BY DEF ReconciledMeansExplained
    <3> QED
      BY <2>2, <3>1, <3>2, <3>3
  <2> QED
    BY <2>2, <2>3, <2>4
<1> QED
  BY <1>4, <1>5, <1>9, <1>10

\* What the S-CSCF makes of a result.
LEMMA ConcludeEffect ==
  ASSUME ScscfTypeOK, RegisteredHasContact, NEW p \in Procedures, procedure[p] \in RegisterRequests,
         NEW i \in Impus, i = procedure[p].impu,
         NEW success \in BOOLEAN, NEW vectors \in 0..3, Conclude(p, success, vectors)
  PROVE  /\ user' \in [Impus -> UserRecords \cup {Gone}]
         /\ records' \in [Impus -> 0..MaxContacts] /\ authVectors' \in [Impis -> 0..3]
         /\ RegisteredHasContact'
         /\ \A j \in Impus : j # i => user'[j] = user[j]
         /\ procedure[p].kind = "mar" \/ (procedure[p].kind = "register" /\ ~ success) => user' = user
         /\ procedure[p].kind = "deregister" => ~ ImsRegistered(i)'
         /\ /\ procedure[p].kind = "register" /\ success
            /\ procedure[p].record = (IF user[i] = Gone THEN 0 ELSE user[i].record)
            => ImsRegistered(i)'
<1> DEFINE r == procedure[p].record
<1> USE DEF ScscfTypeOK, RegisteredHasContact, ImsRegistered
<1>1. /\ i \in Impus /\ r \in Nat /\ procedure[p].kind \in {"mar", "register", "deregister"}
      /\ \A j \in Impus : user[j] # Gone => /\ user[j] \in UserRecords /\ user[j].record >= 1
                                            /\ user[j].contacts \in 0..MaxContacts
      /\ \A u \in UserRecords : u # Gone
      /\ MaxContacts \in Nat /\ procedure[p].impi \in Impis
  BY ImsAssumption DEF RegisterRequests, UserRecords
<1> HIDE DEF r
<1>2. CASE procedure[p].kind = "mar"
  BY <1>1, <1>2 DEF Conclude
<1>3. CASE procedure[p].kind = "register" /\ ~ success
  BY <1>1, <1>3 DEF Conclude
<1>4. CASE procedure[p].kind = "register" /\ success
  <2>1. Fits(i) /\ SaveContact(i, r) /\ UNCHANGED authVectors
    BY <1>4 DEF Conclude, r
  <2>2. CASE r = 0
    <3> DEFINE new == [state |-> "registered", contacts |-> 1, record |-> records[i] + 1]
    <3>1. records[i] \in 0..MaxContacts /\ records[i] < MaxContacts
      BY <1>1, <2>1 DEF Fits
    <3>2. new \in UserRecords
      BY <1>1, <3>1 DEF UserRecords, RegStates
    <3>3. user' = [user EXCEPT ![i] = new] /\ records' = [records EXCEPT ![i] = @ + 1]
      BY <2>1, <2>2 DEF SaveContact
    <3>4. new.contacts = 1 /\ new.state = "registered"
      OBVIOUS
    <3> HIDE DEF new
    <3>5. user'[i] = new /\ \A j \in Impus : j # i => user'[j] = user[j]
      BY <1>1, <3>3
    <3>6. /\ user' \in [Impus -> UserRecords \cup {Gone}]
          /\ records' \in [Impus -> 0..MaxContacts]
      BY <1>1, <3>1, <3>2, <3>3
    <3>7. RegisteredHasContact'
      BY <3>4, <3>5
    <3> QED
      BY <1>1, <1>4, <2>1, <3>2, <3>4, <3>5, <3>6, <3>7
  <2>3. CASE r # 0 /\ user[i] = Gone
    <3>1. UNCHANGED <<user, records>>
      BY <2>1, <2>3 DEF SaveContact
    <3> QED
      BY <1>4, <2>1, <2>3, <3>1 DEF r
  <2>4. CASE r # 0 /\ user[i] # Gone
    <3> DEFINE new == [user[i] EXCEPT !.contacts = @ + 1,
                                      !.state = IF user[i].record = r THEN "registered" ELSE @]
    <3>1. user' = [user EXCEPT ![i] = new] /\ UNCHANGED records
      BY <2>1, <2>4 DEF SaveContact
    <3>2. /\ user[i] \in UserRecords /\ user[i].contacts \in Nat
          /\ user[i].contacts < MaxContacts
      BY <1>1, <2>1, <2>4 DEF Fits
    <3>8. user[i].contacts + 1 \in 0..MaxContacts /\ user[i].contacts + 1 > 0
      BY <1>1, <3>2
    <3>3. new \in UserRecords /\ new.contacts > 0
      BY <3>2, <3>8 DEF UserRecords, RegStates
    <3>4. user[i].record = r => new.state = "registered"
      BY <3>2 DEF UserRecords
    <3> HIDE DEF new
    <3>5. user'[i] = new /\ \A j \in Impus : j # i => user'[j] = user[j]
      BY <1>1, <3>1
    <3>6. user' \in [Impus -> UserRecords \cup {Gone}]
      BY <1>1, <3>1, <3>3
    <3>7. RegisteredHasContact'
      BY <3>3, <3>5
    <3> QED
      BY <1>1, <1>4, <2>1, <2>4, <3>1, <3>3, <3>4, <3>5, <3>6, <3>7 DEF r
  <2> QED
    BY <2>2, <2>3, <2>4
<1>5. CASE procedure[p].kind = "deregister"
  <2>1. DeleteAllContacts(i) /\ UNCHANGED authVectors
    BY <1>5 DEF Conclude
  <2>2. CASE user[i] = Gone
    BY <1>5, <2>1, <2>2 DEF DeleteAllContacts
  <2>3. CASE user[i] # Gone
    <3> DEFINE new == [user[i] EXCEPT !.contacts = 0, !.state = "not_registered"]
    <3>1. user' = [user EXCEPT ![i] = new] /\ UNCHANGED records
      BY <2>1, <2>3 DEF DeleteAllContacts
    <3>6. user[i] \in UserRecords /\ 0 \in 0..MaxContacts
      BY <1>1, <2>3
    <3>2. new \in UserRecords /\ new.state = "not_registered"
      BY <3>6 DEF UserRecords, RegStates
    <3> HIDE DEF new
    <3>3. user'[i] = new /\ \A j \in Impus : j # i => user'[j] = user[j]
      BY <1>1, <3>1
    <3>4. user' \in [Impus -> UserRecords \cup {Gone}]
      BY <1>1, <3>1, <3>2
    <3>5. RegisteredHasContact'
      BY <3>2, <3>3
    <3> QED
      BY <1>5, <2>1, <3>1, <3>2, <3>3, <3>4, <3>5
  <2> QED
    BY <2>2, <2>3
<1> QED
  BY <1>1, <1>2, <1>3, <1>4, <1>5

\* An answer that comes in or is given up on: nothing else of its identity was alone.
LEMMA ConcludedAlone ==
  ASSUME ScscfIInv, NEW p \in Procedures, Waits(p),
         NEW c \in {"late", "over"}, procedure' = [procedure EXCEPT ![p] = Moved(p, c)],
         \A j \in Impus : j # procedure[p].impu => user'[j] = user[j],
         UNCHANGED <<imsSub, impuToImpi>>
  PROVE  AloneMeansUndisturbed'
<1> DEFINE i == procedure[p].impu
<1>1. /\ i \in Impus /\ p \in Underway(i)
      /\ c # "over" => /\ procedure'[p].kind = procedure[p].kind /\ procedure'[p].cx = c
                       /\ procedure'[p].alone = procedure[p].alone
      /\ \A q \in Procedures : q # p => procedure'[q] = procedure[q]
      /\ \A k \in Impus :
           Underway(k)' = IF k = i /\ c = "over" THEN Underway(k) \ {p} ELSE Underway(k)
  <2>1. ScscfTypeOK /\ c \in {"handled", "unknown", "late", "over"} /\ MovesOn(p, c)
    BY DEF ScscfIInv, MovesOn
  <2>2. /\ procedure[p].impu \in Impus /\ p \in Underway(procedure[p].impu)
        /\ procedure[p] \in RegisterRequests
        /\ procedure' \in [Procedures -> RegisterRequests \cup {Gone, Over}]
        /\ c # "over" =>
             /\ procedure'[p].kind = procedure[p].kind /\ procedure'[p].alone = procedure[p].alone
             /\ procedure'[p].cx = c /\ procedure'[p].record = procedure[p].record
        /\ \A q \in Procedures : q # p => procedure'[q] = procedure[q]
        /\ \A j \in Impus :
             Underway(j)' =
               IF j = procedure[p].impu /\ c = "over" THEN Underway(j) \ {p} ELSE Underway(j)
    BY ONLY <2>1, AnswerMoves, Waits(p), p \in Procedures
  <2> QED
    BY ONLY <2>2 DEF i
<1>r. \A j \in Impus : RegState(j)' = RegState(j)
  BY DEF RegState
<1>2. \A j \in Impus : Underway(j) \subseteq Procedures /\ (p \in Underway(j) => j = i)
  BY DEF Underway
<1> HIDE DEF i
<1> SUFFICES ASSUME NEW j \in Impus, NEW q \in Underway(j)', procedure'[q].alone
             PROVE  /\ Underway(j)' = {q}
                    /\ procedure'[q].cx # "late" =>
                         procedure'[q].record = (IF user'[j] = Gone THEN 0 ELSE user'[j].record)
                    /\ procedure'[q].cx = "unknown" /\ procedure'[q].kind # "mar" => RegState(j) = Gone
                    /\ procedure'[q].cx = "handled" /\ procedure'[q].kind = "register" =>
                         RegState(j) = "registered"
                    /\ procedure'[q].cx = "handled" /\ procedure'[q].kind = "deregister" =>
                         RegState(j) = "not_registered"
  BY <1>r DEF AloneMeansUndisturbed
<1>3. q \in Underway(j) /\ q \in Procedures
  BY <1>1, <1>2
<1>4. CASE q = p
  <2>0. j = i
    BY <1>2, <1>3, <1>4
  <2>3. Underway(j)' = IF c = "over" THEN Underway(j) \ {p} ELSE Underway(j)
    BY <2>0, <1>1
  <2>4. c = "late"
    BY <2>3, <1>4
  <2>1. j = i /\ c = "late" /\ Underway(j)' = Underway(j)
    BY <2>0, <2>3, <2>4
  <2>2. Underway(j) = {p}
    <3>1. procedure[p].alone
      BY <1>1, <1>4, <2>4
    <3> QED
      BY <1>3, <1>4, <3>1 DEF ScscfIInv, AloneMeansUndisturbed
  <2> QED
    BY <1>1, <1>4, <2>1, <2>2
<1>5. CASE q # p
  <2>1. procedure'[q] = procedure[q] /\ Underway(j) = {q}
    BY <1>1, <1>3, <1>5 DEF ScscfIInv, AloneMeansUndisturbed
  <2>2. j # i /\ Underway(j)' = Underway(j) /\ user'[j] = user[j]
    BY <1>1, <1>5, <2>1 DEF i
  <2>3. /\ procedure[q].cx # "late" =>
             procedure[q].record = (IF user[j] = Gone THEN 0 ELSE user[j].record)
        /\ procedure[q].cx = "unknown" /\ procedure[q].kind # "mar" => RegState(j) = Gone
        /\ procedure[q].cx = "handled" /\ procedure[q].kind = "register" =>
             RegState(j) = "registered"
        /\ procedure[q].cx = "handled" /\ procedure[q].kind = "deregister" =>
             RegState(j) = "not_registered"
    BY <1>3, <2>1 DEF ScscfIInv, AloneMeansUndisturbed
  <2> QED
    BY <2>1, <2>2, <2>3
<1> QED
  BY <1>4, <1>5

\* Whoever is not concerned by the answer stays explained.
LEMMA ConcludedReconciled ==
  ASSUME ScscfIInv, NEW p \in Procedures, Waits(p),
         NEW c \in {"late", "over"}, procedure' = [procedure EXCEPT ![p] = Moved(p, c)],
         NEW j \in reconciled, user'[j] = user[j], UNCHANGED <<imsSub, impuToImpi>>,
         j = procedure[p].impu =>
           procedure[p].kind = "mar" \/ (procedure[p].cx # "handled" /\ c # "late")
  PROVE  /\ \A q \in Underway(j)' : procedure'[q].cx = "late" => procedure'[q].kind = "mar"
         /\ \/ ImsRegistered(j)' <=> RegState(j)' = "registered"
            \/ \E q \in Underway(j)' : procedure'[q].cx = "handled" /\ procedure'[q].kind # "mar"
<1> DEFINE i == procedure[p].impu
<1>1. /\ i \in Impus /\ p \in Underway(i)
      /\ c # "over" => procedure'[p].kind = procedure[p].kind /\ procedure'[p].cx = c
      /\ \A q \in Procedures : q # p => procedure'[q] = procedure[q]
      /\ \A k \in Impus :
           Underway(k)' = IF k = i /\ c = "over" THEN Underway(k) \ {p} ELSE Underway(k)
  <2>1. ScscfTypeOK /\ c \in {"handled", "unknown", "late", "over"} /\ MovesOn(p, c)
    BY DEF ScscfIInv, MovesOn
  <2>2. /\ procedure[p].impu \in Impus /\ p \in Underway(procedure[p].impu)
        /\ procedure[p] \in RegisterRequests
        /\ procedure' \in [Procedures -> RegisterRequests \cup {Gone, Over}]
        /\ c # "over" =>
             /\ procedure'[p].kind = procedure[p].kind /\ procedure'[p].alone = procedure[p].alone
             /\ procedure'[p].cx = c /\ procedure'[p].record = procedure[p].record
        /\ \A q \in Procedures : q # p => procedure'[q] = procedure[q]
        /\ \A k \in Impus :
             Underway(k)' =
               IF k = procedure[p].impu /\ c = "over" THEN Underway(k) \ {p} ELSE Underway(k)
    BY ONLY <2>1, AnswerMoves, Waits(p), p \in Procedures
  <2> QED
    BY ONLY <2>2 DEF i
<1>2. j \in Impus /\ \A k \in Impus : Underway(k) \subseteq Procedures /\ (p \in Underway(k) => k = i)
  BY DEF Underway, ScscfIInv, ScscfTypeOK
<1>3. (ImsRegistered(j)' <=> ImsRegistered(j)) /\ RegState(j)' = RegState(j)
  BY DEF ImsRegistered, RegState
<1>4. /\ \A q \in Underway(j) : procedure[q].cx = "late" => procedure[q].kind = "mar"
      /\ \/ ImsRegistered(j) <=> RegState(j) = "registered"
         \/ \E q \in Underway(j) : procedure[q].cx = "handled" /\ procedure[q].kind # "mar"
  BY DEF ScscfIInv, ReconciledMeansExplained
<1>5. j = i => procedure[p].kind = "mar" \/ (procedure[p].cx # "handled" /\ c # "late")
  OBVIOUS
<1> HIDE DEF i
<1>6. \A q \in Underway(j)' : procedure'[q].cx = "late" => procedure'[q].kind = "mar"
  BY <1>1, <1>2, <1>4, <1>5
<1>7. \A q \in Underway(j) : procedure[q].cx = "handled" /\ procedure[q].kind # "mar" =>
        q \in Underway(j)' /\ procedure'[q] = procedure[q]
  BY <1>1, <1>2, <1>5
<1> QED
  BY <1>3, <1>4, <1>6, <1>7

\* The S-CSCF's conclusion from an answer keeps the invariant.
LEMMA AnsweredInv ==
  ASSUME ScscfIInv, NEW p \in Procedures, Answered(p)
  PROVE  ScscfIInv'
<1>1. /\ Waits(p) /\ procedure[p].cx \in {"handled", "unknown"}
      /\ Conclude(p, procedure[p].cx = "handled", 3)
      /\ procedure' = [procedure EXCEPT ![p] = Moved(p, "over")] /\ UNCHANGED <<imsSub, impuToImpi>>
      /\ ScscfTypeOK /\ RegisteredHasContact /\ IndexHolds /\ IndexHolds'
  BY DEF Answered, ScscfIInv, Moved, IndexHolds
<1>r. \A j \in Impus : RegState(j)' = RegState(j)
  BY <1>1 DEF RegState
<1>2. procedure[p] \in RegisterRequests
  BY <1>1, RequestTyped
<1>12. PICK i \in Impus : i = procedure[p].impu
  BY <1>1, RequestTyped
<1>3. /\ user' \in [Impus -> UserRecords \cup {Gone}]
      /\ records' \in [Impus -> 0..MaxContacts] /\ authVectors' \in [Impis -> 0..3]
      /\ RegisteredHasContact'
      /\ \A j \in Impus : j # i => user'[j] = user[j]
      /\ procedure[p].kind = "mar" \/ (procedure[p].kind = "register" /\ procedure[p].cx # "handled") =>
           user' = user
      /\ procedure[p].kind = "deregister" => ~ ImsRegistered(i)'
      /\ /\ procedure[p].kind = "register" /\ procedure[p].cx = "handled"
         /\ procedure[p].record = (IF user[i] = Gone THEN 0 ELSE user[i].record)
         => ImsRegistered(i)'
  <2>1. 3 \in 0..3
    OBVIOUS
  <2>2. CASE procedure[p].cx = "handled"
    <3>1. Conclude(p, TRUE, 3)
      BY <1>1, <2>2 DEF Conclude
    <3> QED
      BY <1>1, <1>2, <1>12, <2>1, <2>2, <3>1, ConcludeEffect
  <2>3. CASE procedure[p].cx # "handled"
    <3>1. Conclude(p, FALSE, 3)
      BY <1>1, <2>3 DEF Conclude
    <3> QED
      BY <1>1, <1>2, <1>12, <2>1, <2>3, <3>1, ConcludeEffect
  <2> QED
    BY <2>2, <2>3
<1>4. /\ procedure' \in [Procedures -> RegisterRequests \cup {Gone, Over}]
      /\ p \in Underway(i) /\ Underway(i)' = Underway(i) \ {p}
  BY <1>1, <1>12, AnswerMoves DEF MovesOn
<1>5. AloneMeansUndisturbed'
  BY <1>1, <1>3, <1>12, ConcludedAlone
<1>6. procedure[p].kind \in {"mar", "register", "deregister"}
  BY <1>2 DEF RegisterRequests
<1>7. reconciled' = IF procedure[p].kind = "mar" \/ (procedure[p].kind = "register" /\ procedure[p].cx = "unknown")
                    THEN reconciled
                    ELSE IF procedure[p].alone THEN reconciled \cup {i} ELSE reconciled \ {i}
  BY <1>12 DEF Answered
<1>8. reconciled' \subseteq Impus
  BY <1>1, <1>2, <1>7 DEF ScscfTypeOK
<1>9. ASSUME NEW j \in reconciled'
      PROVE  /\ \A q \in Underway(j)' : procedure'[q].cx = "late" => procedure'[q].kind = "mar"
             /\ \/ ImsRegistered(j)' <=> RegState(j)' = "registered"
                \/ \E q \in Underway(j)' : procedure'[q].cx = "handled" /\ procedure'[q].kind # "mar"
  <2>0. j \in Impus /\ (j # i => j \in reconciled /\ user'[j] = user[j])
    BY <1>3, <1>7, <1>8
  <2>1. CASE \/ j # i
             \/ procedure[p].kind = "mar"
             \/ procedure[p].kind = "register" /\ procedure[p].cx = "unknown"
    <3>1. j \in reconciled /\ user'[j] = user[j]
      BY <2>0, <2>1, <1>3, <1>7
    <3>2. j = procedure[p].impu => procedure[p].kind = "mar" \/ procedure[p].cx # "handled"
      BY <2>1, <1>12
    <3> QED
      BY <1>1, <3>1, <3>2, ConcludedReconciled
  <2>2. CASE j = i /\ \/ procedure[p].kind = "deregister"
                      \/ procedure[p].kind = "register" /\ procedure[p].cx = "handled"
    <3>1. procedure[p].alone
      BY <1>2, <1>7, <2>2 DEF RegisterRequests
    <3>5. p \in Underway(i) /\ procedure[p].cx # "late"
      BY <1>1, <1>4
    <3>2. /\ Underway(i) = {p}
          /\ procedure[p].record = (IF user[i] = Gone THEN 0 ELSE user[i].record)
          /\ procedure[p].cx = "unknown" /\ procedure[p].kind # "mar" => RegState(i) = Gone
          /\ procedure[p].cx = "handled" /\ procedure[p].kind = "register" => RegState(i) = "registered"
          /\ procedure[p].cx = "handled" /\ procedure[p].kind = "deregister" => RegState(i) = "not_registered"
      BY <3>1, <3>5 DEF ScscfIInv, AloneMeansUndisturbed
    <3>3. Underway(j)' = {}
      BY <1>4, <2>2, <3>2
    <3>4. ImsRegistered(i)' <=> RegState(i)' = "registered"
      <4>1. Gone # "registered"
        BY ImsAssumption DEF RegStates
      <4>2. CASE procedure[p].kind = "deregister"
        BY <1>1, <1>r, <1>3, <3>2, <4>1, <4>2
      <4>3. CASE procedure[p].kind = "register" /\ procedure[p].cx = "handled"
        BY <1>1, <1>r, <1>3, <3>2, <4>3
      <4> QED
        BY <2>2, <4>2, <4>3
    <3> QED
      BY <2>2, <3>3, <3>4
  <2> QED
    BY <1>1, <1>6, <2>1, <2>2
<1>10. ReconciledMeansExplained'
  BY <1>9 DEF ReconciledMeansExplained
<1>11. ScscfTypeOK'
  BY <1>1, <1>3, <1>4, <1>8 DEF ScscfTypeOK
<1> QED
  BY <1>1, <1>3, <1>5, <1>10, <1>11 DEF ScscfIInv

\* Giving up a request keeps the invariant.
LEMMA TimedOutInv ==
  ASSUME ScscfIInv, NEW p \in Procedures, TimedOut(p)
  PROVE  ScscfIInv'
<1> DEFINE c == IF procedure[p].cx = "sent" THEN "late" ELSE "over"
<1>1. /\ Waits(p) /\ procedure[p].cx \in {"sent", "handled", "unknown"}
      /\ procedure' = [procedure EXCEPT ![p] = Moved(p, c)] /\ UNCHANGED <<imsSub, impuToImpi>>
      /\ ScscfTypeOK /\ RegisteredHasContact /\ c \in {"late", "over"} /\ IndexHolds'
  BY DEF TimedOut, ScscfIInv, IndexHolds
<1>2. procedure[p] \in RegisterRequests
  BY <1>1, RequestTyped
<1>12. PICK i \in Impus : i = procedure[p].impu
  BY <1>1, RequestTyped
<1>3. /\ user' \in [Impus -> UserRecords \cup {Gone}]
      /\ records' \in [Impus -> 0..MaxContacts] /\ authVectors' \in [Impis -> 0..3]
      /\ RegisteredHasContact'
      /\ \A j \in Impus : j # i => user'[j] = user[j]
      /\ procedure[p].kind = "mar" => user' = user
  <2>1. 1 \in 0..3
    OBVIOUS
  <2>2. Conclude(p, TRUE, 1)
    BY DEF TimedOut
  <2> QED
    BY <1>1, <1>2, <1>12, <2>1, <2>2, ConcludeEffect
<1>4. reconciled' = IF procedure[p].kind = "mar" THEN reconciled ELSE reconciled \ {i}
  BY <1>12 DEF TimedOut
<1> HIDE DEF c
<1>5. procedure' \in [Procedures -> RegisterRequests \cup {Gone, Over}]
  BY <1>1, AnswerMoves DEF MovesOn
<1>6. AloneMeansUndisturbed'
  BY <1>1, <1>3, <1>12, ConcludedAlone
<1>7. ASSUME NEW j \in reconciled'
      PROVE  /\ \A q \in Underway(j)' : procedure'[q].cx = "late" => procedure'[q].kind = "mar"
             /\ \/ ImsRegistered(j)' <=> RegState(j)' = "registered"
                \/ \E q \in Underway(j)' : procedure'[q].cx = "handled" /\ procedure'[q].kind # "mar"
  <2>1. j \in reconciled /\ j \in Impus /\ user'[j] = user[j]
    BY <1>1, <1>3, <1>4 DEF ScscfTypeOK
  <2>2. j = procedure[p].impu => procedure[p].kind = "mar"
    BY <1>12, <1>4
  <2> QED
    BY <1>1, <2>1, <2>2, ConcludedReconciled
<1>8. ReconciledMeansExplained'
  BY <1>7 DEF ReconciledMeansExplained
<1>9. ScscfTypeOK'
  BY <1>1, <1>3, <1>4, <1>5 DEF ScscfTypeOK
<1> QED
  BY <1>1, <1>3, <1>6, <1>8, <1>9 DEF ScscfIInv

\* An operator's change overtakes what is under way for the identities it
\* concerns and takes them off the record.
LEMMA OperatorInv ==
  ASSUME ScscfIInv, NEW ids \in SUBSET Impus, procedure' = Overtaken(ids), reconciled' = reconciled \ ids,
         user' \in [Impus -> UserRecords \cup {Gone}], UNCHANGED <<records, authVectors>>,
         imsSub' \in [Impis -> Subscriptions \cup {Gone}], impuToImpi' \in [Impus -> Impis \cup {Gone}],
         \A j \in Impus : j \notin ids => user'[j] = user[j] /\ RegState(j)' = RegState(j),
         \A j \in Impus : user'[j] = Gone \/ user'[j] = user[j], IndexHolds'
  PROVE  ScscfIInv'
<1>1. /\ procedure' \in [Procedures -> RegisterRequests \cup {Gone, Over}]
      /\ \A q \in Procedures :
           /\ procedure'[q] \in {Gone, Over} <=> ~ Waits(q)
           /\ Waits(q) => /\ procedure'[q].impu = procedure[q].impu
                          /\ procedure'[q].cx = procedure[q].cx
                          /\ procedure'[q].kind = procedure[q].kind
                          /\ procedure'[q].alone => procedure'[q] = procedure[q] /\ procedure[q].impu \notin ids
  <2>1. ScscfTypeOK
    BY DEF ScscfIInv
  <2> QED
    BY ONLY <2>1, OvertakenEffect, ids \in SUBSET Impus, procedure' = Overtaken(ids)
<1>2. \A j \in Impus : Underway(j)' = Underway(j)
  <2> TAKE j \in Impus
  <2>1. \A q \in Procedures : q \in Underway(j)' <=> q \in Underway(j)
    BY <1>1 DEF Underway, Waits
  <2>2. Underway(j) \subseteq Procedures /\ Underway(j)' \subseteq Procedures
    BY DEF Underway
  <2> QED
    BY <2>1, <2>2
<1>3. \A j \in Impus : \A q \in Underway(j) :
        /\ procedure'[q].cx = procedure[q].cx /\ procedure'[q].kind = procedure[q].kind
        /\ procedure'[q].alone => procedure'[q] = procedure[q] /\ j \notin ids
  BY <1>1 DEF Underway
<1>4. AloneMeansUndisturbed'
  <2> SUFFICES ASSUME NEW j \in Impus, NEW q \in Underway(j)', procedure'[q].alone
               PROVE  /\ Underway(j)' = {q}
                      /\ procedure'[q].cx # "late" =>
                           procedure'[q].record = (IF user'[j] = Gone THEN 0 ELSE user'[j].record)
                      /\ procedure'[q].cx = "unknown" /\ procedure'[q].kind # "mar" => RegState(j)' = Gone
                      /\ procedure'[q].cx = "handled" /\ procedure'[q].kind = "register" =>
                           RegState(j)' = "registered"
                      /\ procedure'[q].cx = "handled" /\ procedure'[q].kind = "deregister" =>
                           RegState(j)' = "not_registered"
    BY DEF AloneMeansUndisturbed
  <2>1. q \in Underway(j) /\ Underway(j)' = Underway(j)
    BY <1>2
  <2>2. procedure'[q] = procedure[q] /\ user'[j] = user[j] /\ RegState(j)' = RegState(j)
    BY <1>3, <2>1
  <2>3. AloneMeansUndisturbed
    BY DEF ScscfIInv
  <2> QED
    BY <2>1, <2>2, <2>3 DEF AloneMeansUndisturbed
<1>5. ReconciledMeansExplained'
  <2>1. \A j \in reconciled' : j \in reconciled /\ j \in Impus /\ j \notin ids
    BY DEF ScscfIInv, ScscfTypeOK
  <2>2. \A j \in reconciled' : (ImsRegistered(j)' <=> ImsRegistered(j)) /\ RegState(j)' = RegState(j)
    BY <2>1 DEF ImsRegistered
  <2> QED
    BY <1>2, <1>3, <2>1, <2>2 DEF ScscfIInv, ReconciledMeansExplained
<1>6. RegisteredHasContact'
  BY DEF ScscfIInv, RegisteredHasContact, ImsRegistered
<1>7. ScscfTypeOK'
  BY <1>1 DEF ScscfIInv, ScscfTypeOK
<1> QED
  BY <1>4, <1>5, <1>6, <1>7 DEF ScscfIInv

\* What the operator does at the HSS keeps its index.
LEMMA OperateEffect ==
  ASSUME ScscfTypeOK, IndexHolds, NEW m \in Impis, Operate(m)
  PROVE  /\ imsSub' \in [Impis -> Subscriptions \cup {Gone}]
         /\ impuToImpi' \in [Impus -> Impis \cup {Gone}] /\ IndexHolds'
<1> USE DEF ScscfTypeOK
<1>0. Gone \notin Impis /\ Gone \notin Subscriptions
  BY ImsAssumption
<1>1. ASSUME NEW i \in Impus, NEW j \in Impus, CreateSubscription(m, {i, j})
      PROVE  /\ imsSub' \in [Impis -> Subscriptions \cup {Gone}]
             /\ impuToImpi' \in [Impus -> Impis \cup {Gone}] /\ IndexHolds'
  <2> DEFINE new == [state |-> "not_registered", impus |-> {i, j}]
  <2>1. new \in Subscriptions /\ new.impus = {i, j}
    BY DEF Subscriptions, RegStates
  <2>2. /\ imsSub[m] = Gone /\ imsSub' = [imsSub EXCEPT ![m] = new]
        /\ impuToImpi' = [k \in Impus |-> IF k \in {i, j} THEN m ELSE impuToImpi[k]]
    BY <1>1 DEF CreateSubscription
  <2> HIDE DEF new
  <2>3. imsSub'[m] = new /\ \A n \in Impis : n # m => imsSub'[n] = imsSub[n]
    BY <2>2
  <2>4. /\ imsSub' \in [Impis -> Subscriptions \cup {Gone}]
        /\ impuToImpi' \in [Impus -> Impis \cup {Gone}]
    BY <2>1, <2>2
  <2>5. ASSUME NEW k \in Impus, impuToImpi'[k] # Gone
        PROVE  imsSub'[impuToImpi'[k]] # Gone /\ k \in imsSub'[impuToImpi'[k]].impus
    <3>1. CASE k \in {i, j}
      BY <1>0, <2>1, <2>2, <2>3, <3>1
    <3>2. CASE k \notin {i, j}
      <4>1. impuToImpi'[k] = impuToImpi[k] /\ impuToImpi[k] \in Impis
        BY <2>2, <2>5, <3>2
      <4>2. imsSub[impuToImpi[k]] # Gone /\ k \in imsSub[impuToImpi[k]].impus
        BY <2>5, <4>1 DEF IndexHolds
      <4> QED
        BY <2>2, <2>3, <4>1, <4>2
    <3> QED
      BY <3>1, <3>2
  <2> QED
    BY <2>4, <2>5 DEF IndexHolds
<1>2. CASE DeleteSubscription(m)
  <2>1. /\ imsSub' = [imsSub EXCEPT ![m] = Gone]
        /\ impuToImpi' = [k \in Impus |-> IF k \in imsSub[m].impus THEN Gone ELSE impuToImpi[k]]
    BY <1>2 DEF DeleteSubscription
  <2>2. \A k \in Impus : impuToImpi'[k] # Gone =>
          /\ impuToImpi'[k] = impuToImpi[k] /\ impuToImpi[k] # m /\ impuToImpi[k] \in Impis
    BY <2>1 DEF IndexHolds
  <2> QED
    BY <2>1, <2>2 DEF IndexHolds
<1>3. CASE TerminateRegistration(m)
  <2>1. imsSub[m] \in Subscriptions /\ UNCHANGED impuToImpi
    BY <1>3 DEF TerminateRegistration
  <2>2. /\ imsSub' = [imsSub EXCEPT ![m] = [imsSub[m] EXCEPT !.state = "not_registered"]]
        /\ [imsSub[m] EXCEPT !.state = "not_registered"] \in Subscriptions
        /\ [imsSub[m] EXCEPT !.state = "not_registered"].impus = imsSub[m].impus
    BY <1>3, <2>1 DEF TerminateRegistration, Subscriptions, RegStates
  <2>3. /\ imsSub' \in [Impis -> Subscriptions \cup {Gone}]
        /\ imsSub'[m] # Gone /\ imsSub'[m].impus = imsSub[m].impus
        /\ \A n \in Impis : n # m => imsSub'[n] = imsSub[n]
    BY <1>0, <2>2
  <2> QED
    BY <2>1, <2>3 DEF IndexHolds
<1> QED
  BY <1>1, <1>2, <1>3 DEF Operate

\* So does every step of S-CSCF and HSS.
LEMMA ScscfNextInv == ScscfIInv /\ [ScscfNext]_scscfVars => ScscfIInv'
<1> SUFFICES ASSUME ScscfIInv, [ScscfNext]_scscfVars PROVE ScscfIInv'
  OBVIOUS
<1>1. ASSUME NEW p \in Procedures, NEW i \in Impus, NEW m \in Impis,
             ChallengeRegister(p, i, m) \/ AnswerChallenge(p, i, m) \/ Deregister(p, i, m)
      PROVE  ScscfIInv'
  <2>1. /\ procedure[p] = Gone /\ UNCHANGED <<user, records, imsSub, impuToImpi, reconciled>>
        /\ Send(p, "mar", i, m) \/ Send(p, "register", i, m) \/ Send(p, "deregister", i, m)
    BY <1>1 DEF ChallengeRegister, AnswerChallenge, Deregister
  <2>2. ScscfTypeOK /\ AloneMeansUndisturbed /\ ReconciledMeansExplained
    BY DEF ScscfIInv
  <2>3. /\ procedure' \in [Procedures -> RegisterRequests \cup {Gone, Over}]
        /\ AloneMeansUndisturbed' /\ ReconciledMeansExplained'
    BY <2>1, <2>2, SendInv
  <2>4. authVectors' \in [Impis -> 0..3]
    BY <1>1 DEF ScscfIInv, ScscfTypeOK, ChallengeRegister, AnswerChallenge, Deregister
  <2>5. ScscfTypeOK' /\ RegisteredHasContact' /\ IndexHolds'
    BY <2>1, <2>3, <2>4 DEF ScscfIInv, ScscfTypeOK, RegisteredHasContact, ImsRegistered, IndexHolds
  <2> QED
    BY <2>3, <2>5 DEF ScscfIInv
<1>2. ASSUME NEW i \in Impus, DeleteUser(i)
      PROVE  ScscfIInv'
  <2>1. /\ user' \in [Impus -> UserRecords \cup {Gone}] /\ user'[i] = Gone
        /\ \A j \in Impus : j # i => user'[j] = user[j]
        /\ UNCHANGED <<imsSub, impuToImpi, records, authVectors>>
        /\ imsSub \in [Impis -> Subscriptions \cup {Gone}] /\ impuToImpi \in [Impus -> Impis \cup {Gone}]
        /\ procedure' = Overtaken({i}) /\ reconciled' = reconciled \ {i} /\ {i} \in SUBSET Impus
    BY <1>2 DEF DeleteUser, ScscfIInv, ScscfTypeOK
  <2>2. IndexHolds' /\ \A j \in Impus : RegState(j)' = RegState(j)
    BY <2>1 DEF IndexHolds, RegState, ScscfIInv
  <2> QED
    BY <2>1, <2>2, OperatorInv
<1>3. ASSUME NEW m \in Impis, Operate(m)
      PROVE  ScscfIInv'
  <2>1. /\ imsSub' \in [Impis -> Subscriptions \cup {Gone}]
        /\ impuToImpi' \in [Impus -> Impis \cup {Gone}] /\ IndexHolds'
    BY <1>3, OperateEffect DEF ScscfIInv
  <2>2. /\ procedure' = Overtaken(Changed) /\ reconciled' = reconciled \ Changed
        /\ UNCHANGED <<user, records, authVectors>>
        /\ user \in [Impus -> UserRecords \cup {Gone}]
    BY <1>3 DEF Operate, ScscfIInv, ScscfTypeOK
  <2>3. Changed \in SUBSET Impus /\ \A j \in Impus : j \notin Changed => RegState(j)' = RegState(j)
    BY DEF Changed
  <2> HIDE DEF Changed
  <2> QED
    BY <2>1, <2>2, <2>3, OperatorInv
<1>4. CASE UNCHANGED scscfVars
  <2>1. UNCHANGED <<user, records, authVectors, imsSub, impuToImpi, procedure, reconciled>>
    BY <1>4 DEF scscfVars
  <2>2. ScscfTypeOK' /\ RegisteredHasContact' /\ IndexHolds'
    BY <2>1 DEF ScscfIInv, ScscfTypeOK, RegisteredHasContact, ImsRegistered, IndexHolds
  <2>3. AloneMeansUndisturbed' /\ ReconciledMeansExplained'
    BY <2>1 DEF ScscfIInv, AloneMeansUndisturbed, ReconciledMeansExplained, ImsRegistered, Underway, Waits, RegState
  <2> QED
    BY <2>2, <2>3 DEF ScscfIInv
<1> QED
  BY <1>1, <1>2, <1>3, <1>4, HssHandlesInv, AnsweredInv, TimedOutInv DEF ScscfNext

\* With no request under way the explanation is the agreement.
LEMMA ScscfAgrees == ScscfIInv => RegistrarsAgree
BY DEF ScscfIInv, RegisteredHasContact, ReconciledMeansExplained, ImsRegistered, IndexHolds, RegistrarsAgree

-----------------------------------------------------------------------------
\* The types of the I-CSCF's variables.
IcscfTypeOK ==
  /\ pool \subseteq Scscfs
  /\ assigned \in [PoolUsers -> Scscfs \cup {Gone}] /\ subscribers \in [Scscfs -> 0..MaxAssigned]

\* No S-CSCF is assigned at first.
LEMMA IcscfInitInv == ImsInit => IcscfTypeOK /\ LoadCoversAssignments
<1> SUFFICES ASSUME ImsInit PROVE IcscfTypeOK /\ LoadCoversAssignments
  OBVIOUS
<1>1. IcscfTypeOK
  BY ImsAssumption DEF ImsInit, IcscfTypeOK
<1>2. \A s \in Scscfs : {i \in PoolUsers : assigned[i] = s} = {}
  BY ImsAssumption DEF ImsInit
<1>3. \A s \in Scscfs : subscribers[s] = 0
  BY DEF ImsInit
<1> QED
  BY <1>1, <1>2, <1>3, FS_EmptySet DEF LoadCoversAssignments

\* Every assignment and release keeps the load above what is assigned.
LEMMA IcscfNextInv ==
  IcscfTypeOK /\ LoadCoversAssignments /\ [IcscfNext]_icscfVars => IcscfTypeOK' /\ LoadCoversAssignments'
<1> SUFFICES ASSUME IcscfTypeOK, LoadCoversAssignments, [IcscfNext]_icscfVars
             PROVE  IcscfTypeOK' /\ LoadCoversAssignments'
  OBVIOUS
<1>1. CASE UNCHANGED <<assigned, subscribers>> /\ pool' \subseteq pool
  BY <1>1 DEF IcscfTypeOK, LoadCoversAssignments
<1>2. ASSUME NEW s \in Scscfs, NEW i \in PoolUsers, RegisterThrough(i, s)
      PROVE  IcscfTypeOK' /\ LoadCoversAssignments'
  <2>1. IcscfTypeOK'
    BY <1>2, ImsAssumption DEF RegisterThrough, IcscfTypeOK
  <2>2. ASSUME NEW t \in Scscfs
        PROVE  Cardinality({k \in PoolUsers : assigned'[k] = t}) <= subscribers'[t]
    <3> DEFINE old == {k \in PoolUsers : assigned[k] = t}
               new == {k \in PoolUsers : assigned'[k] = t}
    <3>1. old \subseteq PoolUsers /\ IsFiniteSet(PoolUsers)
      BY ImsAssumption
    <3>2. IsFiniteSet(old) /\ Cardinality(old) \in Nat /\ Cardinality(old) <= subscribers[t]
      BY <3>1, FS_Subset, FS_CardinalityType DEF LoadCoversAssignments
    <3>3. subscribers[t] \in Nat
      BY ImsAssumption DEF IcscfTypeOK
    <3>4. CASE t = s
      <4>1. new = old \cup {i} /\ subscribers'[t] = subscribers[t] + 1
        BY <1>2, <3>4 DEF RegisterThrough, IcscfTypeOK
      <4>2. Cardinality(new) <= Cardinality(old) + 1
        <5> HIDE DEF old, new
        <5>1. Cardinality(old \cup {i}) = IF i \in old THEN Cardinality(old) ELSE Cardinality(old) + 1
          BY <3>2, FS_AddElement
        <5>2. Cardinality(old \cup {i}) <= Cardinality(old) + 1
          BY <3>2, <5>1
        <5> QED
          BY <4>1, <5>2
      <4>3. IsFiniteSet(new) /\ Cardinality(new) \in Nat
        <5> HIDE DEF old, new
        <5>2. IsFiniteSet(old \cup {i})
          BY <3>2, FS_AddElement
        <5>1. IsFiniteSet(new)
          BY <4>1, <5>2
        <5> QED
          BY <5>1, FS_CardinalityType
      <4> QED
        BY <3>2, <3>3, <4>1, <4>2, <4>3
    <3>5. CASE t # s
      <4>1. new \in SUBSET old /\ subscribers'[t] = subscribers[t]
        BY <1>2, <3>5 DEF RegisterThrough, IcscfTypeOK
      <4> HIDE DEF old, new
      <4>2. Cardinality(new) \in Nat /\ Cardinality(new) <= Cardinality(old)
        BY <3>2, <4>1, FS_Subset, FS_CardinalityType
      <4> QED
        BY <3>2, <3>3, <4>1, <4>2 DEF new, old
    <3> QED
      BY <3>4, <3>5
  <2> QED
    BY <2>1, <2>2 DEF LoadCoversAssignments
<1> QED
  BY <1>1, <1>2 DEF IcscfNext, RemoveScscf, icscfVars

\* The type of the P-CSCF's variable.
PcscfTypeOK == contactOf \in [Impus -> {"digest", "ipsec", Gone}]

\* The P-CSCF's contacts are digest or IPsec contacts, or none.
LEMMA PcscfInv ==
  /\ ImsInit => PcscfTypeOK
  /\ PcscfTypeOK /\ [PcscfNext]_pcscfVars => PcscfTypeOK'
<1>1. ImsInit => PcscfTypeOK
  BY DEF ImsInit, PcscfTypeOK
<1>2. PcscfTypeOK /\ [PcscfNext]_pcscfVars => PcscfTypeOK'
  BY DEF PcscfTypeOK, PcscfNext, pcscfVars
<1> QED
  BY <1>1, <1>2

-----------------------------------------------------------------------------
(* MRF.                                                                     *)

\* The participants there are.
UsedMembers == {m \in Members : member[m] # Unused}
\* The transcoding sessions there are.
UsedTranscodings == {t \in Transcodings : transcoding[t] # Unused}

\* Every port has one place: the pool, one member, one session's input, or the
\* ports that were taken for an output.
OnePlaceEach ==
  /\ \A m, n \in UsedMembers : member[m].port = member[n].port => m = n
  /\ \A t, u \in UsedTranscodings : transcoding[t] = transcoding[u] => t = u
  /\ \A m \in UsedMembers, t \in UsedTranscodings : member[m].port # transcoding[t]
  /\ \A m \in UsedMembers : member[m].port \notin portPool \cup outputPorts
  /\ \A t \in UsedTranscodings : transcoding[t] \notin portPool \cup outputPorts
  /\ portPool \cap outputPorts = {}
  /\ \A p \in Ports \ (portPool \cup outputPorts) :
       \/ \E m \in UsedMembers : member[m].port = p
       \/ \E t \in UsedTranscodings : transcoding[t] = p

\* The inductive invariant of the MRF: that no two hold one port makes the count of held
\* ports inductive.
MrfIInv == MrfTypeOK /\ OnePlaceEach /\ StateExplainedByFlags

\* All ports are in the pool at first.
LEMMA MrfInitInv == MrfInit => MrfIInv
<1> SUFFICES ASSUME MrfInit PROVE MrfIInv
  OBVIOUS
<1>1. UsedMembers = {} /\ UsedTranscodings = {}
  BY DEF MrfInit, UsedMembers, UsedTranscodings
<1>2. MrfTypeOK /\ StateExplainedByFlags
  BY DEF MrfInit, MrfTypeOK, StateExplainedByFlags
<1>3. OnePlaceEach
  BY <1>1 DEF MrfInit, OnePlaceEach
<1> QED
  BY <1>2, <1>3 DEF MrfIInv

\* The port that is taken is one of those there are.
LEMMA LeastIsIn ==
  ASSUME NEW S, S \subseteq Ports, S # {}
  PROVE  Min(S) \in S
<1> DEFINE R == {p \in S \X S : p[1] < p[2]}
<1>1. IsFiniteSet(S) /\ S \subseteq Nat
  BY MrfAssumption, FS_Subset
<1>2. PICK x \in S : \A y \in S : <<y, x>> \notin R
  <2>1. /\ \A x \in S : <<x, x>> \notin R
        /\ \A x, y, z \in S : <<x, y>> \in R /\ <<y, z>> \in R => <<x, z>> \in R
    BY <1>1
  <2> HIDE DEF R
  <2> QED
    BY <1>1, <2>1, FiniteSetHasMinimum
<1>3. \A y \in S : x <= y
  <2> TAKE y \in S
  <2>1. x \in Nat /\ y \in Nat
    BY <1>1
  <2>2. <<y, x>> \in R <=> y < x
    OBVIOUS
  <2> QED
    BY <1>2, <2>1, <2>2
<1> QED
  BY <1>3 DEF Min

\* What leaves everyone's port and conference alone.
LEMMA FloorKeepsPorts ==
  ASSUME MrfIInv, UNCHANGED <<conference, transcoding, portPool, outputPorts>>,
         member' \in [Members -> MemberRecords \cup {Unused}],
         \A m \in Members : /\ member'[m] = Unused <=> member[m] = Unused
                            /\ member[m] # Unused => /\ member'[m].port = member[m].port
                                                     /\ member'[m].conf = member[m].conf
  PROVE  MrfTypeOK' /\ OnePlaceEach'
<1>1. UsedMembers' = UsedMembers /\ UsedTranscodings' = UsedTranscodings
  BY DEF UsedMembers, UsedTranscodings
<1>2. \A m \in UsedMembers : member'[m].port = member[m].port
  BY DEF UsedMembers
<1>3. MrfTypeOK'
  BY DEF MrfIInv, MrfTypeOK
<1>4. OnePlaceEach'
  BY <1>1, <1>2 DEF MrfIInv, OnePlaceEach
<1> QED
  BY <1>3, <1>4

\* A member that is changed is still a member, and its flags explain its state.
LEMMA FloorTyped ==
  ASSUME MrfIInv, NEW m \in Members, member[m] # Unused,
         NEW f \in {MuteMember(m), UnmuteMember(m), DeafMember(m), UndeafMember(m)}
  PROVE  /\ f \in MemberRecords /\ f # Unused /\ f.port = member[m].port /\ f.conf = member[m].conf
         /\ f.state = "muted" => ~ f.canSpeak
         /\ f.state = "deaf" => ~ f.canHear
<1>1. member[m] \in MemberRecords
  BY DEF MrfIInv, MrfTypeOK
<1>2. CASE f = MuteMember(m)
  BY <1>1, <1>2, MrfAssumption, ZenonT(30) DEF MuteMember, MemberRecords
<1>3. CASE f = UnmuteMember(m)
  BY <1>1, <1>3, MrfAssumption, ZenonT(30) DEF UnmuteMember, MemberRecords
<1>4. CASE f = DeafMember(m)
  BY <1>1, <1>4, MrfAssumption, ZenonT(30) DEF DeafMember, MemberRecords
<1>5. CASE f = UndeafMember(m)
  BY <1>1, <1>5, MrfAssumption DEF UndeafMember, MemberRecords
<1> QED
  BY <1>2, <1>3, <1>4, <1>5

\* Creating or recording a conference moves no port.
LEMMA ConferenceInv ==
  ASSUME MrfIInv, NEW k \in Conferences, NEW c \in ConferenceRecords,
         conference' = [conference EXCEPT ![k] = c],
         UNCHANGED <<member, transcoding, portPool, outputPorts>>
  PROVE  MrfIInv'
<1>1. c # Unused
  BY MrfAssumption
<1>2. MrfTypeOK' /\ OnePlaceEach'
  BY DEF MrfIInv, MrfTypeOK, OnePlaceEach, UsedMembers, UsedTranscodings
<1>3. \A l \in Conferences : conference'[l] = conference[l] \/ conference'[l] # Unused
  BY <1>1 DEF MrfIInv, MrfTypeOK
<1>4. \A m \in Members : member[m] # Unused => member[m].conf \in Conferences
  BY DEF MrfIInv, MrfTypeOK, MemberRecords
<1>5. StateExplainedByFlags'
  BY <1>3, <1>4 DEF MrfIInv, StateExplainedByFlags
<1> QED
  BY <1>2, <1>5 DEF MrfIInv

\* The ports of a destroyed conference's members go back to the pool.
LEMMA DestroyConferenceInv ==
  ASSUME MrfIInv, NEW k \in Conferences, DestroyConference(k)
  PROVE  MrfIInv'
<1>1. /\ conference' = [conference EXCEPT ![k] = Unused]
      /\ member' = [m \in Members |-> IF In(m, k) THEN Unused ELSE member[m]]
      /\ portPool' = portPool \cup {member[m].port : m \in MembersOf(k)}
      /\ UNCHANGED <<transcoding, outputPorts>>
  BY DEF DestroyConference
<1>2. \A m \in UsedMembers : member[m].port \in Ports /\ member[m].conf \in Conferences
  BY DEF MrfIInv, MrfTypeOK, UsedMembers, MemberRecords
<1>3. MembersOf(k) = {m \in UsedMembers : member[m].conf = k}
  BY DEF MembersOf, In, UsedMembers
<1>4. UsedMembers' = UsedMembers \ MembersOf(k) /\ UsedTranscodings' = UsedTranscodings
  BY <1>1 DEF UsedMembers, MembersOf, UsedTranscodings
<1>5. \A m \in UsedMembers' : member'[m] = member[m] /\ m \in UsedMembers /\ member[m].conf # k
  BY <1>1, <1>3, <1>4 DEF MembersOf, UsedMembers
<1>6. MrfTypeOK'
  BY <1>1, <1>2, <1>3 DEF MrfIInv, MrfTypeOK
<1>7. OnePlaceEach'
  <2>1. \A m \in UsedMembers' : member'[m].port \notin portPool' \cup outputPorts'
    BY <1>1, <1>3, <1>4, <1>5 DEF MrfIInv, OnePlaceEach
  <2>2. \A t \in UsedTranscodings' : transcoding'[t] \notin portPool' \cup outputPorts'
    BY <1>1, <1>3, <1>4 DEF MrfIInv, OnePlaceEach
  <2>3. portPool' \cap outputPorts' = {}
    BY <1>1, <1>3 DEF MrfIInv, OnePlaceEach
  <2>4. \A p \in Ports \ (portPool' \cup outputPorts') :
          \/ \E m \in UsedMembers' : member'[m].port = p
          \/ \E t \in UsedTranscodings' : transcoding'[t] = p
    <3> TAKE p \in Ports \ (portPool' \cup outputPorts')
    <3>1. p \in Ports \ (portPool \cup outputPorts)
      BY <1>1
    <3>2. ASSUME NEW m \in UsedMembers, member[m].port = p
          PROVE  m \in UsedMembers' /\ member'[m].port = p
      <4>1. m \notin MembersOf(k)
        BY <1>1, <3>2
      <4> QED
        BY <3>2, <4>1, <1>4, <1>5
    <3> QED
      BY <1>1, <1>4, <3>1, <3>2 DEF MrfIInv, OnePlaceEach
  <2>5. /\ \A m, n \in UsedMembers' : member'[m].port = member'[n].port => m = n
        /\ \A t, u \in UsedTranscodings' : transcoding'[t] = transcoding'[u] => t = u
        /\ \A m \in UsedMembers', t \in UsedTranscodings' : member'[m].port # transcoding'[t]
    <3>1. transcoding' = transcoding /\ UsedTranscodings' = UsedTranscodings
      BY <1>1, <1>4
    <3>2. \A m, n \in UsedMembers' : member'[m].port = member'[n].port => m = n
      BY <1>5 DEF MrfIInv, OnePlaceEach
    <3>3. \A m \in UsedMembers', t \in UsedTranscodings' : member'[m].port # transcoding'[t]
      BY <1>5, <3>1 DEF MrfIInv, OnePlaceEach
    <3> QED
      BY <3>1, <3>2, <3>3 DEF MrfIInv, OnePlaceEach
  <2> QED
    BY <2>1, <2>2, <2>3, <2>4, <2>5 DEF OnePlaceEach
<1>8. StateExplainedByFlags'
  BY <1>1, <1>2, <1>5 DEF MrfIInv, MrfTypeOK, StateExplainedByFlags, UsedMembers
<1> QED
  BY <1>6, <1>7, <1>8 DEF MrfIInv

\* A participant takes a port of the pool.
LEMMA AddMemberInv ==
  ASSUME MrfIInv, NEW k \in Conferences, NEW m \in Members, AddMember(k, m)
  PROVE  MrfIInv'
<1>1. PICK moderator \in BOOLEAN :
        member' = [member EXCEPT ![m] =
          [conf |-> k, port |-> NextPort, moderator |-> moderator, canHear |-> TRUE,
           canSpeak |-> ~conference[k].muteOnEntry, state |-> "connected"]]
  BY DEF AddMember
<1> DEFINE new == [conf |-> k, port |-> NextPort, moderator |-> moderator, canHear |-> TRUE,
                   canSpeak |-> ~conference[k].muteOnEntry, state |-> "connected"]
<1>2. /\ conference[k] # Unused /\ member[m] = Unused /\ portPool' = portPool \ {NextPort}
      /\ UNCHANGED <<conference, transcoding, outputPorts>>
  BY DEF AddMember
<1>3. NextPort \in portPool /\ NextPort \in Ports
  BY LeastIsIn DEF MrfIInv, MrfTypeOK, AddMember, NextPort
<1>4. new \in MemberRecords /\ new # Unused /\ new.port = NextPort /\ new.conf = k /\ new.state = "connected"
  <2>1. new \in MemberRecords
    BY <1>3 DEF MemberRecords
  <2> QED
    BY <2>1, MrfAssumption
<1> HIDE DEF new
<1>5. member' = [member EXCEPT ![m] = new]
  BY <1>1 DEF new
<1>6. /\ UsedMembers' = UsedMembers \cup {m} /\ m \notin UsedMembers
      /\ UsedTranscodings' = UsedTranscodings
      /\ member'[m] = new /\ \A n \in UsedMembers : member'[n] = member[n]
  BY <1>2, <1>4, <1>5 DEF MrfIInv, MrfTypeOK, UsedMembers, UsedTranscodings
<1>7. MrfTypeOK'
  BY <1>2, <1>4, <1>5 DEF MrfIInv, MrfTypeOK
<1>8. OnePlaceEach'
  BY <1>2, <1>3, <1>4, <1>6 DEF MrfIInv, OnePlaceEach
<1>9. StateExplainedByFlags'
  BY <1>2, <1>4, <1>6 DEF MrfIInv, StateExplainedByFlags, UsedMembers
<1> QED
  BY <1>7, <1>8, <1>9 DEF MrfIInv

\* A participant that leaves gives its port back.
LEMMA RemoveMemberInv ==
  ASSUME MrfIInv, NEW m \in Members, RemoveMember(m)
  PROVE  MrfIInv'
<1>1. /\ member[m] # Unused /\ portPool' = portPool \cup {member[m].port}
      /\ member' = [member EXCEPT ![m] = Unused] /\ UNCHANGED <<conference, transcoding, outputPorts>>
  BY DEF RemoveMember
<1>2. /\ UsedMembers' = UsedMembers \ {m} /\ m \in UsedMembers
      /\ UsedTranscodings' = UsedTranscodings
      /\ \A n \in UsedMembers' : member'[n] = member[n]
      /\ member[m].port \in Ports
  BY <1>1 DEF MrfIInv, MrfTypeOK, UsedMembers, UsedTranscodings, MemberRecords
<1>3. MrfTypeOK'
  BY <1>1, <1>2 DEF MrfIInv, MrfTypeOK
<1>4. OnePlaceEach'
  BY <1>1, <1>2 DEF MrfIInv, OnePlaceEach
<1>5. StateExplainedByFlags'
  BY <1>1 DEF MrfIInv, MrfTypeOK, StateExplainedByFlags
<1> QED
  BY <1>3, <1>4, <1>5 DEF MrfIInv

\* A transcoding session takes a port for its input and one for its output, where there
\* are two.
LEMMA CreateTranscodingInv ==
  ASSUME MrfIInv, NEW t \in Transcodings, CreateTranscodingSession(t)
  PROVE  MrfIInv'
<1> DEFINE first == NextPort
           rest  == portPool \ {first}
<1>1. transcoding[t] = Unused /\ UNCHANGED <<conference, member>>
  BY DEF CreateTranscodingSession
<1>2. first \in portPool /\ first \in Ports /\ portPool \subseteq Ports /\ first # Unused
  BY LeastIsIn, MrfAssumption DEF MrfIInv, MrfTypeOK, CreateTranscodingSession, NextPort
<1>3. StateExplainedByFlags'
  BY <1>1 DEF MrfIInv, StateExplainedByFlags
<1>4. UsedMembers' = UsedMembers
  BY <1>1 DEF UsedMembers
<1>5. CASE rest = {}
  <2>1. portPool' = {} /\ outputPorts' = outputPorts \cup {first} /\ UNCHANGED transcoding
    BY <1>5 DEF CreateTranscodingSession
  <2>2. UsedTranscodings' = UsedTranscodings /\ portPool = {first}
    BY <1>2, <1>5, <2>1 DEF UsedTranscodings
  <2> HIDE DEF first, rest
  <2>3. MrfTypeOK'
    BY <1>1, <1>2, <2>1 DEF MrfIInv, MrfTypeOK
  <2>4. OnePlaceEach'
    BY <1>1, <1>2, <1>4, <2>1, <2>2 DEF MrfIInv, OnePlaceEach
  <2> QED
    BY <1>3, <2>3, <2>4 DEF MrfIInv
<1>6. CASE rest # {}
  <2> DEFINE second == Min(rest)
  <2>1. second \in rest
    BY <1>2, <1>6, LeastIsIn
  <2>2. /\ portPool' = rest \ {second} /\ outputPorts' = outputPorts \cup {second}
        /\ transcoding' = [transcoding EXCEPT ![t] = first]
    BY <1>6 DEF CreateTranscodingSession
  <2>3. second \in portPool /\ second # first /\ portPool' = portPool \ {first, second}
    BY <2>1, <2>2
  <2> HIDE DEF second, first, rest
  <2>4. /\ UsedTranscodings' = UsedTranscodings \cup {t} /\ t \notin UsedTranscodings
        /\ transcoding'[t] = first
        /\ \A u \in UsedTranscodings : transcoding'[u] = transcoding[u]
    BY <1>1, <1>2, <2>2 DEF MrfIInv, MrfTypeOK, UsedTranscodings
  <2>5. MrfTypeOK'
    BY <1>1, <1>2, <2>2, <2>3 DEF MrfIInv, MrfTypeOK
  <2>6. OnePlaceEach'
    BY <1>1, <1>2, <1>4, <2>2, <2>3, <2>4 DEF MrfIInv, OnePlaceEach
  <2> QED
    BY <1>3, <2>5, <2>6 DEF MrfIInv
<1> QED
  BY <1>5, <1>6

\* Its input's port goes back to the pool.
LEMMA DeleteTranscodingInv ==
  ASSUME MrfIInv, NEW t \in Transcodings, DeleteTranscodingSession(t)
  PROVE  MrfIInv'
<1>1. /\ transcoding[t] # Unused /\ portPool' = portPool \cup {transcoding[t]}
      /\ transcoding' = [transcoding EXCEPT ![t] = Unused] /\ UNCHANGED <<conference, member, outputPorts>>
  BY DEF DeleteTranscodingSession
<1>2. /\ UsedTranscodings' = UsedTranscodings \ {t} /\ t \in UsedTranscodings
      /\ UsedMembers' = UsedMembers
      /\ \A u \in UsedTranscodings' : transcoding'[u] = transcoding[u]
      /\ transcoding[t] \in Ports
  BY <1>1 DEF MrfIInv, MrfTypeOK, UsedMembers, UsedTranscodings
<1>3. MrfTypeOK'
  BY <1>1, <1>2 DEF MrfIInv, MrfTypeOK
<1>4. OnePlaceEach'
  BY <1>1, <1>2 DEF MrfIInv, OnePlaceEach
<1>5. StateExplainedByFlags'
  BY <1>1 DEF MrfIInv, StateExplainedByFlags
<1> QED
  BY <1>3, <1>4, <1>5 DEF MrfIInv

\* Every request to the MRF keeps each port in its place.
LEMMA MrfNextInv == MrfIInv /\ [MrfNext]_mrfVars => MrfIInv'
<1> SUFFICES ASSUME MrfIInv, [MrfNext]_mrfVars PROVE MrfIInv'
  OBVIOUS
<1>1. ASSUME NEW k \in Conferences, CreateConference(k)
      PROVE  MrfIInv'
  <2>1. PICK c \in ConferenceRecords : conference' = [conference EXCEPT ![k] = c]
    BY <1>1 DEF CreateConference, ConferenceRecords
  <2> QED
    BY <1>1, <2>1, ConferenceInv DEF CreateConference
<1>2. ASSUME NEW k \in Conferences, NEW s \in {"active", "locked"}, LockConference(k, s)
      PROVE  MrfIInv'
  <2>1. conference[k] \in ConferenceRecords
    BY <1>2 DEF LockConference, MrfIInv, MrfTypeOK
  <2>2. [conference[k] EXCEPT !.state = s] \in ConferenceRecords
    BY <2>1 DEF ConferenceRecords
  <2> QED
    BY <1>2, <2>2, ConferenceInv DEF LockConference
<1>3. ASSUME NEW m \in Members, FloorControl(m)
      PROVE  MrfIInv'
  <2>1. PICK f \in {MuteMember(m), UnmuteMember(m), DeafMember(m), UndeafMember(m)} :
          member' = [member EXCEPT ![m] = f]
    BY <1>3 DEF FloorControl
  <2>2. /\ f \in MemberRecords /\ f # Unused /\ f.port = member[m].port /\ f.conf = member[m].conf
        /\ f.state = "muted" => ~ f.canSpeak
        /\ f.state = "deaf" => ~ f.canHear
    BY <1>3, FloorTyped DEF FloorControl
  <2>3. /\ member'[m] = f /\ \A n \in Members : n # m => member'[n] = member[n]
        /\ member' \in [Members -> MemberRecords \cup {Unused}]
    BY <2>1, <2>2 DEF MrfIInv, MrfTypeOK
  <2>4. member[m] # Unused /\ UNCHANGED <<conference, transcoding, portPool, outputPorts>>
    BY <1>3 DEF FloorControl
  <2>5. MrfTypeOK' /\ OnePlaceEach'
    BY <2>2, <2>3, <2>4, FloorKeepsPorts
  <2>6. StateExplainedByFlags'
    BY <2>2, <2>3, <2>4 DEF MrfIInv, StateExplainedByFlags
  <2> QED
    BY <2>5, <2>6 DEF MrfIInv
<1>4. ASSUME NEW k \in Conferences,
             UnmuteAll(k) \/ \E sparing \in BOOLEAN : MuteAll(k, sparing)
      PROVE  MrfIInv'
  <2>1. UNCHANGED <<conference, transcoding, portPool, outputPorts>>
    BY <1>4 DEF UnmuteAll, MuteAll
  <2>2. ASSUME NEW m \in Members
        PROVE  \/ member'[m] = member[m]
               \/ member[m] # Unused /\ member'[m] \in {MuteMember(m), UnmuteMember(m)}
    BY <1>4 DEF UnmuteAll, MuteAll, In
  <2>3. ASSUME NEW m \in Members, member'[m] # member[m]
        PROVE  /\ member[m] # Unused
               /\ member'[m] \in MemberRecords /\ member'[m] # Unused
               /\ member'[m].port = member[m].port /\ member'[m].conf = member[m].conf
               /\ member'[m].state = "muted" => ~ member'[m].canSpeak
               /\ member'[m].state = "deaf" => ~ member'[m].canHear
    BY <2>2, <2>3, FloorTyped
  <2>4. \E f : member' = [m \in Members |-> f[m]]
    <3>1. CASE UnmuteAll(k)
      <4> DEFINE f == [m \in Members |-> IF In(m, k) THEN UnmuteMember(m) ELSE member[m]]
      <4>1. member' = [m \in Members |-> f[m]]
        BY <3>1 DEF UnmuteAll
      <4> QED
        BY <4>1
    <3>2. ASSUME NEW sparing \in BOOLEAN, MuteAll(k, sparing)
          PROVE  \E f : member' = [m \in Members |-> f[m]]
      <4> DEFINE f == [m \in Members |-> IF In(m, k) /\ ~(sparing /\ member[m].moderator)
                                         THEN MuteMember(m) ELSE member[m]]
      <4>1. member' = [m \in Members |-> f[m]]
        BY <3>2 DEF MuteAll
      <4> QED
        BY <4>1
    <3> QED
      BY <1>4, <3>1, <3>2
  <2>5. member' \in [Members -> MemberRecords \cup {Unused}]
    BY <2>3, <2>4 DEF MrfIInv, MrfTypeOK
  <2>6. MrfTypeOK' /\ OnePlaceEach'
    <3>1. \A m \in Members : /\ member'[m] = Unused <=> member[m] = Unused
                             /\ member[m] # Unused => /\ member'[m].port = member[m].port
                                                      /\ member'[m].conf = member[m].conf
      BY <2>3
    <3> QED
      BY <2>1, <2>5, <3>1, FloorKeepsPorts
  <2>7. StateExplainedByFlags'
    BY <2>1, <2>3 DEF MrfIInv, StateExplainedByFlags
  <2> QED
    BY <2>6, <2>7 DEF MrfIInv
<1>5. CASE UNCHANGED mrfVars
  BY <1>5 DEF mrfVars, MrfIInv, MrfTypeOK, OnePlaceEach, StateExplainedByFlags, UsedMembers, UsedTranscodings
<1> QED
  BY <1>1, <1>2, <1>3, <1>4, <1>5, DestroyConferenceInv, AddMemberInv, RemoveMemberInv,
     CreateTranscodingInv, DeleteTranscodingInv DEF MrfNext

\* As many ports are held as there are members and sessions to hold them.
LEMMA HeldPortsCounted == MrfIInv => PortsAreAccountedFor
<1> SUFFICES ASSUME MrfIInv PROVE PortsAreAccountedFor
  OBVIOUS
<1> DEFINE rtp   == {member[m].port : m \in UsedMembers}
           input == {transcoding[t] : t \in UsedTranscodings}
           held  == rtp \cup input
<1>1. /\ \A m \in UsedMembers : member[m].port \in Ports
      /\ \A t \in UsedTranscodings : transcoding[t] \in Ports
      /\ portPool \subseteq Ports /\ outputPorts \subseteq Ports
  BY DEF MrfIInv, MrfTypeOK, UsedMembers, UsedTranscodings, MemberRecords
<1>2. /\ held \cap portPool = {} /\ outputPorts \cap (held \cup portPool) = {}
      /\ Ports = held \cup portPool \cup outputPorts /\ rtp \cap input = {}
  BY <1>1 DEF MrfIInv, OnePlaceEach
<1>3. IsFiniteSet(UsedMembers) /\ IsFiniteSet(UsedTranscodings)
  BY MrfAssumption, FS_Subset DEF UsedMembers, UsedTranscodings
<1>4. IsFiniteSet(rtp) /\ Cardinality(rtp) = Cardinality(UsedMembers)
  <2> DEFINE f == [m \in UsedMembers |-> member[m].port]
  <2>1. f \in Bijection(UsedMembers, rtp)
    BY DEF MrfIInv, OnePlaceEach, Bijection, Injection, Surjection, IsInjective
  <2> HIDE DEF f, rtp
  <2> QED
    BY <1>3, <2>1, FS_Bijection DEF ExistsBijection
<1>5. IsFiniteSet(input) /\ Cardinality(input) = Cardinality(UsedTranscodings)
  <2> DEFINE f == [t \in UsedTranscodings |-> transcoding[t]]
  <2>1. f \in Bijection(UsedTranscodings, input)
    BY DEF MrfIInv, OnePlaceEach, Bijection, Injection, Surjection, IsInjective
  <2> HIDE DEF f, input
  <2> QED
    BY <1>3, <2>1, FS_Bijection DEF ExistsBijection
<1>6. Cardinality(held) = Cardinality(UsedMembers) + Cardinality(UsedTranscodings)
  <2>1. Cardinality(held) = Cardinality(rtp) + Cardinality(input) - Cardinality(rtp \cap input)
    <3> HIDE DEF rtp, input
    <3> QED
      BY <1>4, <1>5, FS_Union
  <2>2. Cardinality(rtp \cap input) = 0
    BY <1>2, FS_EmptySet
  <2>3. Cardinality(UsedMembers) \in Nat /\ Cardinality(UsedTranscodings) \in Nat
    BY <1>3, FS_CardinalityType
  <2> HIDE DEF rtp, input
  <2> QED
    BY <1>4, <1>5, <2>1, <2>2, <2>3
<1> QED
  BY <1>2, <1>6 DEF PortsAreAccountedFor, UsedMembers, UsedTranscodings

-----------------------------------------------------------------------------
(* The whole.                                                               *)

\* What the groups' invariants say together.
CoreIInv ==
  /\ PduIInv
  /\ NrfTypeOK /\ OrderIsStrict
  /\ RegTypeOK /\ UdmViewsAgree
  /\ PcfTypeOK /\ RulesHaveTheirQos
  /\ BsfTypeOK /\ IndexPointsToHolders
  /\ ChfTypeOK /\ ChargesWithinUnits
  /\ AnswersItsRequest
  /\ MmeIInv /\ SgwIInv /\ PgwIInv
  /\ HssTypeOK /\ NumbersLeadToOwners
  /\ ScscfIInv
  /\ IcscfTypeOK /\ LoadCoversAssignments
  /\ PcscfTypeOK
  /\ MrfIInv

\* Every group starts with its invariant.
LEMMA CoreInitInv == Init => CoreIInv
BY PduInitInv, NrfInitInv, RegInitInv, PcfInitInv, BsfInitInv, ChfInitInv, NssfInitInv, MmeInitInv,
   SgwInitInv, PgwInitInv, HssInitInv, ScscfInitInv, IcscfInitInv, PcscfInv, MrfInitInv
   DEF Init, CoreIInv

\* A step of one group leaves the others' variables alone.
LEMMA GroupsTakeTurns ==
  ASSUME [Next]_vars
  PROVE  /\ [PduNext]_pduVars /\ [NrfNext]_nrfVars /\ [RegNext]_regVars /\ [PcfNext]_pcfVars
         /\ [BsfNext]_bsfVars /\ [ChfNext]_chfVars /\ [NssfNext]_nssfVars
         /\ [MmeNext]_mmeVars /\ [SgwNext]_sgwVars /\ [PgwNext]_pgwVars /\ [HssNext]_hssVars
         /\ [ScscfNext]_scscfVars /\ [IcscfNext]_icscfVars /\ [PcscfNext]_pcscfVars
         /\ [MrfNext]_mrfVars
<1>1. CASE Next
  BY <1>1 DEF Next, coreVars, epcVars, imsVars
<1>2. CASE UNCHANGED vars
  BY <1>2 DEF vars, coreVars, epcVars, imsVars
<1> QED
  BY <1>1, <1>2

\* So every step of the whole keeps every group's invariant.
LEMMA CoreNextInv == CoreIInv /\ [Next]_vars => CoreIInv'
<1> SUFFICES ASSUME CoreIInv, [Next]_vars PROVE CoreIInv'
  OBVIOUS
<1>1. PduIInv'
  BY GroupsTakeTurns, PduNextInv DEF CoreIInv
<1>2. NrfTypeOK' /\ OrderIsStrict'
  BY GroupsTakeTurns, NrfNextInv DEF CoreIInv
<1>3. RegTypeOK' /\ UdmViewsAgree'
  BY GroupsTakeTurns, RegNextInv DEF CoreIInv
<1>4. PcfTypeOK' /\ RulesHaveTheirQos'
  BY GroupsTakeTurns, PcfNextInv DEF CoreIInv
<1>5. BsfTypeOK' /\ IndexPointsToHolders'
  BY GroupsTakeTurns, BsfNextInv DEF CoreIInv
<1>6. ChfTypeOK' /\ ChargesWithinUnits'
  BY GroupsTakeTurns, ChfNextInv DEF CoreIInv
<1>7. AnswersItsRequest'
  BY GroupsTakeTurns, NssfNextInv DEF CoreIInv
<1>8. MmeIInv' /\ SgwIInv' /\ PgwIInv'
  BY GroupsTakeTurns, MmeNextInv, SgwNextInv, PgwNextInv DEF CoreIInv
<1>9. HssTypeOK' /\ NumbersLeadToOwners'
  BY GroupsTakeTurns, HssNextInv DEF CoreIInv
<1>10. ScscfIInv'
  BY GroupsTakeTurns, ScscfNextInv DEF CoreIInv
<1>11. IcscfTypeOK' /\ LoadCoversAssignments'
  BY GroupsTakeTurns, IcscfNextInv DEF CoreIInv
<1>12. PcscfTypeOK'
  BY GroupsTakeTurns, PcscfInv DEF CoreIInv
<1>13. MrfIInv'
  BY GroupsTakeTurns, MrfNextInv DEF CoreIInv
<1> QED
  BY <1>1, <1>2, <1>3, <1>4, <1>5, <1>6, <1>7, <1>8, <1>9, <1>10, <1>11, <1>12, <1>13 DEF CoreIInv

\* Whatever the constants, the invariant holds of every behaviour.
THEOREM CoreInvariance == Spec => []CoreIInv
BY CoreInitInv, CoreNextInv, PTL DEF Spec

\* The AMF, the SMF and the UPF agree on PDU sessions wherever no call was lost
\* (amf.py:656-728, smf.py:226-337, upf.py:220-330).
THEOREM SessionsAlwaysAgree == Spec => []SessionInv
<1>1. CoreIInv => SessionInv
  BY OrphansHaveACause DEF CoreIInv, PduIInv, SessionInv, SessionsAgree
<1> QED
  BY <1>1, CoreInvariance, PTL

\* The NRF finds exactly what may be found and ranks it, the NSSF selects slices its
\* consumer may use, and AUSF and UDM hold one view of a subscriber (nrf.py, nssf.py,
\* ausf.py, udm.py).
THEOREM RegistrationAlwaysSound == Spec => []RegistrationInv
<1>1. CoreIInv => RegistrationInv
  BY SearchIsSound, AnswersAreSound DEF CoreIInv, RegistrationInv
<1> QED
  BY <1>1, CoreInvariance, PTL

\* The tables of PCF, BSF and CHF hang together through any sequence of requests
\* (pcf.py:397-438, bsf.py:121-252, chf.py:434-436).
THEOREM PolicyTablesAlwaysAgree == Spec => []PolicyInv
<1>1. CoreIInv => PolicyInv
  BY HoldersFound, ChargesFollow DEF CoreIInv, PolicyInv, PolTypeOK
<1> QED
  BY <1>1, CoreInvariance, PTL

\* So do the tables of MME, SGW, PGW and HSS (mme.py, sgw.py, pgw.py, hss.py).
THEOREM EpcTablesAlwaysAgree == Spec => []EpcInv
<1>1. CoreIInv => GatewaysAgree
  <2>1. ASSUME CoreIInv PROVE GatewaysAgree
    <3>1. /\ \A b \in sgwBearer : b \in Bearers /\ b.session \in Live(sgwSession)
          /\ \A b \in pgwBearer : b \in Bearers /\ b.session \in Live(pgwSession)
          /\ sgwBearers = Cardinality(sgwBearer) + sgwStray
          /\ pgwBearers = Cardinality(pgwBearer) + pgwStray
      BY <2>1 DEF CoreIInv, SgwIInv, PgwIInv, Accounted
    <3>2. AddressesHeld /\ DefaultsKept
      BY <2>1 DEF CoreIInv, PgwIInv
    <3> QED
      BY <3>1, <3>2 DEF GatewaysAgree, AddressesHeld, DefaultsKept, Live
  <2> QED
    BY <2>1
<1>2. CoreIInv => EpcInv
  BY <1>1 DEF CoreIInv, MmeIInv, SgwIInv, PgwIInv, EpcTypeOK, EpcInv
<1> QED
  BY <1>2, CoreInvariance, PTL

\* S-CSCF and IMS HSS agree on who is registered wherever nothing is under way or lost, and
\* the I-CSCF's load covers its assignments (scscf.py, ims_hss.py, icscf.py).
THEOREM RegistrarsAlwaysAgree == Spec => []ImsInv
<1>1. CoreIInv => ImsTypeOK
  BY DEF CoreIInv, ScscfIInv, ScscfTypeOK, IcscfTypeOK, PcscfTypeOK, ImsTypeOK
<1>2. CoreIInv => ImsInv
  BY <1>1, ScscfAgrees DEF CoreIInv, ImsInv
<1> QED
  BY <1>2, CoreInvariance, PTL

\* No port of the MRF is in two places or lost (mrf.py).
THEOREM PortsAlwaysAccountedFor == Spec => []MediaInv
<1>1. CoreIInv => MediaInv
  BY HeldPortsCounted DEF CoreIInv, MrfIInv, MediaInv
<1> QED
  BY <1>1, CoreInvariance, PTL
=============================================================================
