------------------------- MODULE Orchestration_proofs -------------------------
(***************************************************************************)
(* What MCOrchestration checks on one small instance holds for all values  *)
(* of its constants.  A group that is not in focus rests in an initial     *)
(* state, where its invariant holds too: the invariants below are those of *)
(* the groups in every state, and a step of one group is a stutter of the  *)
(* others.                                                                 *)
(***************************************************************************)
EXTENDS MCOrchestration, FiniteSetTheorems, TLAPS

-----------------------------------------------------------------------------
(* A1 policies and enrichment information.                                  *)

\* What is true of the call c.
CallSound(c) ==
  LET k == a1Call[c]  p == k.policy IN
  k # NoPolicy =>
    /\ p \in used
    /\ k.ric = "sent" => k.near = "none"
    /\ k.ric = "waiting" => k.near # "none"
    /\ k.near = "sent" \/ k.ric = "waiting" => p \notin agreed
    /\ ~k.client /\ k.ric \in {"sent", "waiting"} => p \in disowned
    /\ k.alone => \A b \in On(p) : b = c
    /\ k.alone /\ k.ric = "waiting" =>
         /\ k.op # "delete" => /\ policies[p] # NoPolicy /\ policies[p].by = c
                               /\ policies[p].data = k.data
         /\ k.near = "handled" => a1Policies[p] = IF k.op = "delete" THEN NoPolicy ELSE k.data
    /\ k.op = "put" /\ k.client /\ p \notin disowned =>
         /\ p \notin managed /\ \A b \in On(p) : b = c
         /\ k.ric \in {"waiting", "done"} => policies[p] # NoPolicy

\* Both RICs say the same of the policy p.
SameAtBoth(p) ==
  /\ policies[p] = NoPolicy <=> a1Policies[p] = NoPolicy
  /\ policies[p] # NoPolicy => policies[p].status = "ENFORCED" /\ policies[p].data = a1Policies[p]

\* Its deletion is made, and the rApp has still to hear of it.
BeingDeleted(p) == \E c \in On(p) : a1Call[c].op = "delete" /\ a1Call[c].client /\ a1Call[c].ric = "done"

\* An active policy the rApp manages is at the Non-RT RIC or about to be gone; where the
\* last change ran alone and was answered, both RICs hold the same.
A1IInv ==
  /\ A1TypeOK /\ managed \subseteq used
  /\ \A c \in A1Calls : CallSound(c)
  /\ \A p \in agreed : SameAtBoth(p)
  /\ \A p \in managed \ disowned : policies[p] # NoPolicy \/ BeingDeleted(p)
-----------------------------------------------------------------------------
\* Nothing is managed and nothing is under way.
LEMMA A1InitInv == A1Init => A1IInv
BY A1Assumption DEF A1Init, A1IInv, A1TypeOK, CallSound, SameAtBoth, BeingDeleted, On

\* A step that changes one call, and the tables at no policy but the call's, disturbs the
\* invariant at that call and that policy only.
LEMMA OneCallMoves ==
  ASSUME A1IInv, NEW c \in A1Calls, NEW p \in Policies, NEW g \in A1CallType \cup {NoPolicy},
         a1Call[c] # NoPolicy, a1Call[c].policy = p, g # NoPolicy => g.policy = p,
         a1Call' = [a1Call EXCEPT ![c] = g], A1TypeOK', used' = used, managed' \subseteq used,
         \A q \in Policies \ {p} :
            /\ policies'[q] = policies[q] /\ a1Policies'[q] = a1Policies[q]
            /\ q \in agreed' <=> q \in agreed
            /\ q \in managed' <=> q \in managed
            /\ q \in disowned' <=> q \in disowned,
         disowned \subseteq disowned', p \in agreed' => p \in agreed \/ a1Call[c].alone,
         CallSound(c)', p \in agreed' => SameAtBoth(p)',
         p \in managed' \ disowned' => policies'[p] # NoPolicy \/ BeingDeleted(p)'
  PROVE  A1IInv'
<1>1. a1Call \in [A1Calls -> A1CallType \cup {NoPolicy}] /\ agreed' \subseteq Policies /\ managed' \subseteq Policies
  BY DEF A1IInv, A1TypeOK
<1>2. \A b \in A1Calls : a1Call'[b] = IF b = c THEN g ELSE a1Call[b]
  BY <1>1
<1>3. c \in On(p)
  BY DEF On
<1>4. ASSUME NEW b \in A1Calls, b # c  PROVE CallSound(b)'
  <2>1. CASE a1Call[b] = NoPolicy
    BY <2>1, <1>2, <1>4 DEF CallSound
  <2>2. CASE a1Call[b] # NoPolicy /\ a1Call[b].policy # p
    <3>1. a1Call[b].policy \in Policies /\ a1Call'[b] = a1Call[b]
      BY <2>2, <1>1, <1>2, <1>4 DEF A1CallType
    <3>2. On(a1Call[b].policy)' = On(a1Call[b].policy)
      BY <2>2, <1>2 DEF On
    <3>3. CallSound(b)
      BY DEF A1IInv
    <3> QED
      BY ONLY <3>1, <3>2, <3>3, <2>2, used' = used, disowned \subseteq disowned',
         \A q \in Policies \ {p} :
            /\ policies'[q] = policies[q] /\ a1Policies'[q] = a1Policies[q]
            /\ q \in agreed' <=> q \in agreed
            /\ q \in managed' <=> q \in managed
            /\ q \in disowned' <=> q \in disowned DEF CallSound
  <2>3. CASE a1Call[b] # NoPolicy /\ a1Call[b].policy = p
    <3>1. a1Call'[b] = a1Call[b] /\ b \in On(p) /\ b # c
      BY <2>3, <1>2, <1>4 DEF On
    <3>2. CallSound(b) /\ CallSound(c)
      BY DEF A1IInv
    <3>3. ~a1Call[b].alone /\ ~a1Call[c].alone
      BY <3>1, <3>2, <2>3, <1>3 DEF CallSound
    <3>4. ~(a1Call[b].op = "put" /\ a1Call[b].client /\ p \notin disowned)
      BY <3>1, <3>2, <2>3, <1>3 DEF CallSound
    <3> QED
      BY ONLY <3>1, <3>2, <3>3, <3>4, <2>3, used' = used, disowned \subseteq disowned',
              p \in agreed' => p \in agreed \/ a1Call[c].alone DEF CallSound
  <2> QED
    BY <2>1, <2>2, <2>3
<1>5. \A q \in agreed' : SameAtBoth(q)'
  BY <1>1 DEF A1IInv, SameAtBoth
<1>6. ASSUME NEW q \in managed' \ disowned', q # p
      PROVE  policies'[q] # NoPolicy \/ BeingDeleted(q)'
  <2>1. q \in Policies /\ q \in managed \ disowned
    BY <1>1, <1>6
  <2>2. CASE policies[q] # NoPolicy
    BY <2>1, <2>2, <1>6
  <2>3. CASE BeingDeleted(q)
    <3>1. PICK b \in On(q) : a1Call[b].op = "delete" /\ a1Call[b].client /\ a1Call[b].ric = "done"
      BY <2>3 DEF BeingDeleted
    <3>2. b # c /\ b \in On(q)'
      BY <3>1, <1>2, <1>6 DEF On
    <3> QED
      BY <3>1, <3>2, <1>2 DEF BeingDeleted, On
  <2> QED
    BY <2>1, <2>2, <2>3 DEF A1IInv
<1> QED
  BY <1>4, <1>5, <1>6 DEF A1IInv

\* A request the rApp sends is sound, and takes its policy off the ones that are agreed
\* on.
LEMMA CallBegins ==
  ASSUME A1IInv, NEW c \in A1Calls, NEW p \in Policies, NEW d \in PolicyData,
         NEW op \in {"put", "update", "delete"}, NEW client \in BOOLEAN, Begin(c, op, p, d, client),
         UNCHANGED <<managed, policies, a1Policies, agreed>>, A1TypeOK',
         used' = used \cup {p}, disowned \subseteq disowned', disowned' \subseteq disowned \cup {p},
         ~client => p \in disowned', client => p \in managed \/ (p \notin used /\ op = "put"),
         client /\ op = "put" => p \notin used
  PROVE  A1IInv'
<1> DEFINE f == [op |-> op, policy |-> p, data |-> d, client |-> client,
                 ric |-> "sent", near |-> "none", alone |-> On(p) = {}]
<1>1. a1Call \in [A1Calls -> A1CallType \cup {NoPolicy}] /\ managed \subseteq used
  BY DEF A1IInv, A1TypeOK
<1>2. a1Call'[c] = f /\ c \notin On(p)
  BY DEF Begin, On
<1>3. f \in A1CallType /\ f.op = op /\ f.policy = p /\ f.client = client /\ f.ric = "sent" /\ f.near = "none"
      /\ (f.alone <=> On(p) = {})
  BY DEF A1CallType
<1> HIDE DEF f
<1>4. f # NoPolicy
  BY <1>3, A1Assumption
<1>5. ASSUME NEW b \in A1Calls, b # c
      PROVE  /\ b \notin On(p) => a1Call'[b] = a1Call[b]
             /\ b \in On(p) => /\ a1Call'[b] = [a1Call[b] EXCEPT !.alone = FALSE]
                               /\ a1Call[b] \in A1CallType /\ a1Call'[b] \in A1CallType
                               /\ a1Call'[b] # NoPolicy /\ a1Call[b].policy = p /\ a1Call'[b].policy = p
                               /\ a1Call'[b].op = a1Call[b].op /\ a1Call'[b].client = a1Call[b].client
                               /\ a1Call'[b].ric = a1Call[b].ric /\ a1Call'[b].near = a1Call[b].near
                               /\ a1Call'[b].alone = FALSE
  <2>1. b \notin On(p) => a1Call'[b] = a1Call[b]
    BY <1>5 DEF Begin
  <2>2. ASSUME b \in On(p)  PROVE a1Call'[b] = [a1Call[b] EXCEPT !.alone = FALSE] /\ a1Call[b] \in A1CallType
                                  /\ a1Call[b].policy = p
    BY <1>5, <1>1, <2>2 DEF Begin, On
  <2>3. ASSUME b \in On(p)  PROVE /\ a1Call'[b] \in A1CallType /\ a1Call'[b].policy = p
                               /\ a1Call'[b].op = a1Call[b].op /\ a1Call'[b].client = a1Call[b].client
                               /\ a1Call'[b].ric = a1Call[b].ric /\ a1Call'[b].near = a1Call[b].near
                               /\ a1Call'[b].alone = FALSE
    BY <2>2, <2>3 DEF A1CallType
  <2> QED
    BY <2>1, <2>2, <2>3, A1Assumption
<1>6. On(p)' = On(p) \cup {c}
  BY <1>2, <1>3, <1>4, <1>5, ZenonT(30) DEF On
<1>7. \A q \in Policies \ {p} : On(q)' = On(q)
  <2> TAKE q \in Policies \ {p}
  <2>1. \A b \in A1Calls : b \in On(q)' <=> b \in On(q)
    <3> TAKE b \in A1Calls
    <3>1. CASE b = c
      BY <3>1, <1>2, <1>3, <1>4 DEF On, Begin
    <3>2. CASE b # c /\ b \in On(p)
      BY <3>2, <1>5 DEF On
    <3>3. CASE b # c /\ b \notin On(p)
      BY <3>3, <1>5 DEF On
    <3> QED
      BY <3>1, <3>2, <3>3
  <2> QED
    BY <2>1 DEF On
<1>8. CallSound(c)'
  <2>1. a1Call'[c].alone => \A b \in On(p)' : b = c
    BY <1>2, <1>3, <1>6
  <2>2. client /\ op = "put" => p \notin managed /\ On(p) = {}
    BY <1>1 DEF A1IInv, CallSound, On
  <2> QED
    BY ONLY <2>1, <2>2, <1>2, <1>3, <1>4, <1>6, used' = used \cup {p}, ~client => p \in disowned', managed' = managed
       DEF CallSound
<1>9. ASSUME NEW b \in A1Calls, b # c  PROVE CallSound(b)'
  <2>0. CallSound(b)
    BY DEF A1IInv
  <2>1. CASE b \in On(p)
    <3>1. ~(a1Call[b].op = "put" /\ a1Call[b].client /\ p \notin disowned')
      BY <2>0, <2>1, <1>1 DEF CallSound, On
    <3> QED
      BY ONLY <2>0, <2>1, <3>1, <1>5, <1>9, used' = used \cup {p}, disowned \subseteq disowned', agreed' = agreed
         DEF CallSound, On
  <2>2. CASE b \notin On(p)
    <3>1. a1Call'[b] = a1Call[b]
      BY <1>5, <1>9, <2>2
    <3>2. CASE a1Call[b] = NoPolicy
      BY <3>1, <3>2 DEF CallSound
    <3>3. CASE a1Call[b] # NoPolicy
      <4>1. PICK q \in Policies \ {p} : a1Call[b].policy = q
        BY <2>2, <3>3, <1>1 DEF On, A1CallType
      <4>2. On(q)' = On(q) /\ (q \in disowned' <=> q \in disowned) /\ (q \in used' <=> q \in used)
        BY <1>7
      <4> QED
        BY ONLY <2>0, <3>1, <3>3, <4>1, <4>2,
                UNCHANGED <<managed, policies, a1Policies, agreed>> DEF CallSound
    <3> QED
      BY <3>2, <3>3
  <2> QED
    BY <2>1, <2>2
<1>10. ASSUME NEW q \in managed' \ disowned'  PROVE policies'[q] # NoPolicy \/ BeingDeleted(q)'
  <2>1. q \in managed \ disowned
    BY <1>10
  <2>2. CASE BeingDeleted(q)
    <3>1. PICK b \in On(q) : a1Call[b].op = "delete" /\ a1Call[b].client /\ a1Call[b].ric = "done"
      BY <2>2 DEF BeingDeleted
    <3>2. b # c /\ b \in A1Calls
      BY <3>1 DEF On, Begin
    <3>3. b \in On(q)' /\ a1Call'[b].op = "delete" /\ a1Call'[b].client /\ a1Call'[b].ric = "done"
      <4>1. CASE b \in On(p)
        BY <3>1, <3>2, <4>1, <1>5 DEF On
      <4>2. CASE b \notin On(p)
        BY <3>1, <3>2, <4>2, <1>5 DEF On
      <4> QED
        BY <4>1, <4>2
    <3> QED
      BY <3>3 DEF BeingDeleted
  <2> QED
    BY <2>1, <2>2 DEF A1IInv
<1>11. \A q \in agreed' : SameAtBoth(q)'
  BY DEF A1IInv, SameAtBoth
<1> QED
  BY <1>8, <1>9, <1>10, <1>11, <1>1 DEF A1IInv
-----------------------------------------------------------------------------
\* The outcome of a call that is over is NoPolicy, of another the call itself.
LEMMA SlotOf ==
  ASSUME NEW k \in A1CallType
  PROVE  Slot(k) \in A1CallType \cup {NoPolicy} /\ (Slot(k) # NoPolicy => Slot(k) = k)
BY DEF Slot

\* So does the Non-RT RIC's conclusion, with the answer or without it.
LEMMA ConcludeKeeps ==
  ASSUME A1IInv, NEW c \in A1Calls, NEW answered \in BOOLEAN, Conclude(c, answered),
         a1Call[c] # NoPolicy, a1Call[c].ric = "waiting",
         UNCHANGED <<managed, used, rapp, toDelete, a1Policies, nearUp, disowned>>,
         agreed' = IF answered /\ a1Call[c].alone
                   THEN agreed \cup {a1Call[c].policy} ELSE agreed \ {a1Call[c].policy},
         answered => a1Call[c].near = "handled"
  PROVE  A1IInv'
<1>0. PICK k \in A1CallType : a1Call[c] = k
  BY DEF A1IInv, A1TypeOK
<1> DEFINE p == k.policy
           failed == k.op = "delete" /\ policies[p] = NoPolicy
           f == [k EXCEPT !.ric = IF failed THEN "refused" ELSE "done",
                          !.near = IF @ = "sent" /\ ~nearUp THEN "handled" ELSE @]
           g == Slot(f)
<1>1. p \in Policies /\ k # NoPolicy
  BY <1>0, A1Assumption DEF A1CallType
<1>2. f \in A1CallType
  BY <1>0 DEF A1CallType
<1>3. /\ f.policy = p /\ f.op = k.op /\ f.client = k.client /\ f.alone = k.alone /\ f.data = k.data
      /\ f.ric = IF failed THEN "refused" ELSE "done"
      /\ f.near = "sent" => k.near = "sent"
  BY <1>0 DEF A1CallType
<1>4. a1Call' = [a1Call EXCEPT ![c] = g]
  BY <1>0 DEF Conclude, Becomes
<1>5. g \in A1CallType \cup {NoPolicy} /\ (g # NoPolicy => g = f)
  BY <1>2, SlotOf
<1>6. g = NoPolicy => ~f.client
  BY <1>2, A1Assumption DEF Slot
<1>7. a1Call'[c] = g
  BY <1>4 DEF A1IInv, A1TypeOK
<1>8. CallSound(c) /\ policies \in [Policies -> PolicyRecords \cup {NoPolicy}]
  BY DEF A1IInv, A1TypeOK
<1>9. policies' \in [Policies -> PolicyRecords \cup {NoPolicy}]
      /\ \A q \in Policies \ {p} : policies'[q] = policies[q]
  <2>1. CASE k.op = "delete"
    BY <1>0, <1>1, <1>8, <2>1 DEF Conclude
  <2>2. CASE k.op # "delete" /\ policies[p] # NoPolicy /\ policies[p].by = c
    <3>1. policies' = [policies EXCEPT ![p].status = IF answered THEN "ENFORCED" ELSE "NOT_ENFORCED"]
      BY <1>0, <2>2 DEF Conclude
    <3>2. policies[p] \in PolicyRecords
      BY <1>1, <1>8, <2>2
    <3>3. [policies[p] EXCEPT !.status = IF answered THEN "ENFORCED" ELSE "NOT_ENFORCED"] \in PolicyRecords
      BY <3>2 DEF PolicyRecords
    <3> QED
      BY <3>1, <3>3, <1>1, <1>8
  <2>3. CASE k.op # "delete" /\ ~(policies[p] # NoPolicy /\ policies[p].by = c)
    BY <1>0, <1>8, <2>3 DEF Conclude
  <2> QED
    BY <2>1, <2>2, <2>3
<1>10. k.op = "delete" => policies'[p] = NoPolicy
  BY <1>0, <1>1, <1>8 DEF Conclude
<1>11. k.op # "delete" /\ policies[p] # NoPolicy =>
         /\ policies'[p] # NoPolicy /\ policies'[p].data = policies[p].data
         /\ policies[p].by = c /\ answered => policies'[p].status = "ENFORCED"
  <2> SUFFICES ASSUME k.op # "delete", policies[p] # NoPolicy
               PROVE  /\ policies'[p] # NoPolicy /\ policies'[p].data = policies[p].data
                      /\ policies[p].by = c /\ answered => policies'[p].status = "ENFORCED"
    OBVIOUS
  <2>1. policies[p] \in PolicyRecords
    BY <1>1, <1>8
  <2>2. CASE policies[p].by = c
    <3>1. policies' = [policies EXCEPT ![p].status = IF answered THEN "ENFORCED" ELSE "NOT_ENFORCED"]
      BY <1>0, <2>2 DEF Conclude
    <3>2. policies'[p] = [policies[p] EXCEPT !.status = IF answered THEN "ENFORCED" ELSE "NOT_ENFORCED"]
      BY <3>1, <1>1, <1>8
    <3>3. policies'[p] \in PolicyRecords /\ policies'[p].data = policies[p].data
          /\ (answered => policies'[p].status = "ENFORCED")
      BY <3>2, <2>1 DEF PolicyRecords
    <3> QED
      BY <3>3, A1Assumption
  <2>3. CASE policies[p].by # c
    BY <1>0, <2>3, <2>1 DEF Conclude
  <2> QED
    BY <2>2, <2>3
<1>12. A1TypeOK'
  BY <1>0, <1>1, <1>4, <1>5, <1>9 DEF A1IInv, A1TypeOK
<1>13. On(p)' \subseteq On(p)
  BY <1>0, <1>1, <1>3, <1>4, <1>5, <1>7 DEF On, A1IInv, A1TypeOK
<1> HIDE DEF f, g
<1>14. agreed' = IF answered /\ k.alone THEN agreed \cup {p} ELSE agreed \ {p}
  BY <1>0
<1>15. CallSound(c)'
  <2> SUFFICES ASSUME g # NoPolicy  PROVE CallSound(c)'
    BY <1>7 DEF CallSound
  <2>1. a1Call'[c] = f
    BY <1>5, <1>7
  <2>2. p \in used
    BY <1>0, <1>1, <1>8 DEF CallSound
  <2>3. f.near = "sent" => p \notin agreed'
    <3>1. f.near = "sent" => k.near = "sent" /\ ~answered
      BY <1>0, <1>3
    <3> QED
      BY <3>1, <1>0, <1>1, <1>8, <1>14 DEF CallSound
  <2>4. f.alone => \A b \in On(p)' : b = c
    BY <1>0, <1>1, <1>3, <1>8, <1>13 DEF CallSound
  <2>5. f.op = "put" /\ f.client /\ p \notin disowned =>
          p \notin managed /\ (\A b \in On(p)' : b = c) /\ policies'[p] # NoPolicy
    BY <1>0, <1>1, <1>3, <1>8, <1>11, <1>13 DEF CallSound
  <2>6. f.ric \in {"done", "refused"} /\ f.policy = p
    BY <1>3
  <2> HIDE DEF p, failed
  <2> QED
    BY ONLY <2>1, <2>2, <2>3, <2>4, <2>5, <2>6, UNCHANGED <<managed, used, disowned>> DEF CallSound
<1>16. p \in agreed' => SameAtBoth(p)'
  <2> SUFFICES ASSUME answered, k.alone  PROVE SameAtBoth(p)'
    BY <1>1, <1>14
  <2>1. /\ k.op # "delete" => policies[p] # NoPolicy /\ policies[p].by = c /\ policies[p].data = k.data
        /\ a1Policies[p] = IF k.op = "delete" THEN NoPolicy ELSE k.data
    BY <1>0, <1>1, <1>8 DEF CallSound
  <2>2. k.data # NoPolicy
    BY <1>0, A1Assumption DEF A1CallType
  <2>3. a1Policies' = a1Policies
    OBVIOUS
  <2> QED
    BY <2>1, <2>2, <2>3, <1>10, <1>11 DEF SameAtBoth
<1>17. p \in managed' \ disowned' => policies'[p] # NoPolicy \/ BeingDeleted(p)'
  <2> SUFFICES ASSUME p \in managed \ disowned  PROVE policies'[p] # NoPolicy \/ BeingDeleted(p)'
    OBVIOUS
  <2>1. CASE policies[p] # NoPolicy /\ k.op # "delete"
    BY <2>1, <1>11
  <2>2. CASE policies[p] # NoPolicy /\ k.op = "delete"
    <3>1. k.client
      BY <1>0, <1>1, <1>8 DEF CallSound
    <3>2. g = f /\ f.ric = "done"
      BY <3>1, <2>2, <1>3, <1>5, <1>6
    <3>3. f # NoPolicy
      BY <1>2, <1>5, <3>2, A1Assumption DEF f
    <3>4. c \in On(p)' /\ a1Call'[c] = f
      BY <3>2, <3>3, <1>3, <1>7 DEF On
    <3> QED
      BY <3>1, <3>2, <3>4, <2>2, <1>3 DEF BeingDeleted
  <2>3. CASE policies[p] = NoPolicy
    <3>1. BeingDeleted(p)
      BY <2>3 DEF A1IInv
    <3>2. PICK b \in On(p) : a1Call[b].op = "delete" /\ a1Call[b].client /\ a1Call[b].ric = "done"
      BY <3>1 DEF BeingDeleted
    <3>3. b # c /\ b \in A1Calls
      BY <3>2 DEF On
    <3>4. a1Call'[b] = a1Call[b]
      BY <3>3, <1>4 DEF A1IInv, A1TypeOK
    <3>5. b \in On(p)'
      BY <3>2, <3>4 DEF On
    <3> QED
      BY <3>2, <3>4, <3>5 DEF BeingDeleted
  <2> QED
    BY <2>1, <2>2, <2>3
<1>18. g # NoPolicy => g.policy = p
  BY <1>3, <1>5
<1>19. \A q \in Policies \ {p} : q \in agreed' <=> q \in agreed
  BY <1>14
<1>20. a1Call[c] # NoPolicy /\ a1Call[c].policy = p /\ (p \in agreed' => p \in agreed \/ a1Call[c].alone)
  BY <1>0, <1>1, <1>14
<1>21. managed' \subseteq used /\ used' = used /\ disowned' = disowned /\ managed' = managed /\ a1Policies' = a1Policies
  BY DEF A1IInv
<1> HIDE DEF p
<1> QED
  BY <1>1, <1>4, <1>5, <1>9, <1>12, <1>15, <1>16, <1>17, <1>18, <1>19, <1>20, <1>21, OneCallMoves

\* The Non-RT RIC takes a request.
LEMMA RicReceivesKeeps ==
  ASSUME A1IInv, NEW c \in A1Calls, RicReceives(c)
  PROVE  A1IInv'
<1>0. PICK k \in A1CallType : a1Call[c] = k
  BY DEF A1IInv, A1TypeOK, RicReceives
<1> DEFINE p == k.policy
           refused == k.op = "delete" /\ policies[p] = NoPolicy
           f == IF refused THEN [k EXCEPT !.ric = "refused"] ELSE [k EXCEPT !.ric = "waiting", !.near = "sent"]
           g == Slot(f)
<1>1. p \in Policies /\ k # NoPolicy /\ k.ric = "sent"
  BY <1>0, A1Assumption DEF A1CallType, RicReceives
<1>2. f \in A1CallType /\ f.policy = p /\ f.op = k.op /\ f.client = k.client /\ f.alone = k.alone /\ f.data = k.data
      /\ (refused => f.ric = "refused" /\ f.near = k.near) /\ (~refused => f.ric = "waiting" /\ f.near = "sent")
  BY <1>0 DEF A1CallType
<1>3. a1Call' = [a1Call EXCEPT ![c] = g]
  BY <1>0 DEF RicReceives, Becomes
<1>4. g \in A1CallType \cup {NoPolicy} /\ (g # NoPolicy => g = f)
  BY <1>2, SlotOf
<1>5. a1Call'[c] = g
  BY <1>3 DEF A1IInv, A1TypeOK
<1>6. CallSound(c) /\ policies \in [Policies -> PolicyRecords \cup {NoPolicy}]
  BY DEF A1IInv, A1TypeOK
<1> DEFINE rec == [data |-> k.data, status |-> "NOT_ENFORCED", by |-> c]
<1>7. rec \in PolicyRecords /\ rec # NoPolicy /\ rec.by = c /\ rec.data = k.data
  BY <1>0, A1Assumption DEF PolicyRecords, A1CallType
<1>8. policies' = IF k.op = "delete" THEN policies ELSE [policies EXCEPT ![p] = rec]
  BY <1>0 DEF RicReceives
<1>9. UNCHANGED <<managed, used, rapp, toDelete, a1Policies, nearUp, disowned>>
      /\ agreed' = IF refused THEN agreed ELSE agreed \ {p}
  BY <1>0 DEF RicReceives
<1> HIDE DEF rec
<1>10. policies' \in [Policies -> PolicyRecords \cup {NoPolicy}]
       /\ (\A q \in Policies \ {p} : policies'[q] = policies[q])
       /\ (k.op = "delete" => policies' = policies) /\ (k.op # "delete" => policies'[p] = rec)
  BY <1>1, <1>6, <1>7, <1>8
<1>11. A1TypeOK'
  BY <1>3, <1>4, <1>9, <1>10 DEF A1IInv, A1TypeOK
<1>12. On(p)' \subseteq On(p)
  BY <1>0, <1>1, <1>2, <1>3, <1>4, <1>5 DEF On, A1IInv, A1TypeOK
<1> HIDE DEF f, g
<1>13. CallSound(c)'
  <2> SUFFICES ASSUME g # NoPolicy  PROVE CallSound(c)'
    BY <1>5 DEF CallSound
  <2>1. a1Call'[c] = f
    BY <1>4, <1>5
  <2>2. p \in used /\ k.near = "none" /\ (~k.client => p \in disowned)
    BY <1>0, <1>1, <1>6 DEF CallSound
  <2>3. f.near = "sent" \/ f.ric = "waiting" => p \notin agreed'
    BY <1>2, <1>9, <2>2
  <2>4. f.alone => \A b \in On(p)' : b = c
    BY <1>0, <1>1, <1>2, <1>6, <1>12 DEF CallSound
  <2>5. f.op = "put" /\ f.client /\ p \notin disowned =>
          p \notin managed /\ (\A b \in On(p)' : b = c) /\ policies'[p] # NoPolicy
    BY <1>0, <1>1, <1>2, <1>6, <1>7, <1>10, <1>12 DEF CallSound
  <2>6. f.ric = "waiting" /\ f.op # "delete" => policies'[p] # NoPolicy /\ policies'[p].by = c /\ policies'[p].data = f.data
    BY <1>2, <1>7, <1>10
  <2>7. f.ric \in {"waiting", "refused"} /\ (f.ric = "waiting" => f.near = "sent") /\ (f.ric = "refused" => f.near = "none")
    BY <1>2, <2>2
  <2>8. f.policy = p /\ (~f.client => p \in disowned)
    BY <1>2, <2>2
  <2> HIDE DEF p, refused
  <2> QED
    BY ONLY <2>1, <2>2, <2>3, <2>4, <2>5, <2>6, <2>7, <2>8, <1>9 DEF CallSound
<1>14. p \in agreed' => SameAtBoth(p)'
  <2> SUFFICES ASSUME p \in agreed, refused  PROVE SameAtBoth(p)'
    BY <1>9
  <2> QED
    BY <1>9, <1>10 DEF A1IInv, SameAtBoth
<1>15. p \in managed' \ disowned' => policies'[p] # NoPolicy \/ BeingDeleted(p)'
  <2> SUFFICES ASSUME p \in managed \ disowned  PROVE policies'[p] # NoPolicy \/ BeingDeleted(p)'
    BY <1>9
  <2>1. CASE policies[p] # NoPolicy
    BY <2>1, <1>7, <1>10
  <2>2. CASE BeingDeleted(p)
    <3>1. PICK b \in On(p) : a1Call[b].op = "delete" /\ a1Call[b].client /\ a1Call[b].ric = "done"
      BY <2>2 DEF BeingDeleted
    <3>2. b # c /\ b \in A1Calls
      BY <3>1, <1>0, <1>1 DEF On
    <3>3. a1Call'[b] = a1Call[b]
      BY <3>2, <1>3 DEF A1IInv, A1TypeOK
    <3>4. b \in On(p)'
      BY <3>1, <3>3 DEF On
    <3> QED
      BY <3>1, <3>3, <3>4 DEF BeingDeleted
  <2> QED
    BY <2>1, <2>2 DEF A1IInv
<1>16. (g # NoPolicy => g.policy = p) /\ a1Call[c] # NoPolicy /\ a1Call[c].policy = p
       /\ (p \in agreed' => p \in agreed \/ a1Call[c].alone)
  BY <1>0, <1>1, <1>2, <1>4, <1>9
<1>17. \A q \in Policies \ {p} : q \in agreed' <=> q \in agreed
  BY <1>9
<1>18. managed' \subseteq used /\ used' = used /\ disowned' = disowned /\ managed' = managed /\ a1Policies' = a1Policies
  BY <1>9 DEF A1IInv
<1> HIDE DEF p
<1> QED
  BY <1>1, <1>3, <1>4, <1>10, <1>11, <1>13, <1>14, <1>15, <1>16, <1>17, <1>18, OneCallMoves

\* What only the Near-RT RIC or the network does to a request on its way.
LEMMA NearStepKeeps ==
  ASSUME A1IInv, NEW c \in A1Calls, NearHandles(c) \/ RequestLost(c)
  PROVE  A1IInv'
<1>0. PICK k \in A1CallType : a1Call[c] = k
  BY DEF A1IInv, A1TypeOK, NearHandles, RequestLost
<1> DEFINE p == k.policy
           f == [k EXCEPT !.near = "handled"]
           g == Slot(f)
<1>1. p \in Policies /\ k # NoPolicy /\ k.near = "sent"
  BY <1>0, A1Assumption DEF A1CallType, NearHandles, RequestLost
<1>2. f \in A1CallType /\ f.policy = p /\ f.op = k.op /\ f.client = k.client /\ f.alone = k.alone /\ f.data = k.data
      /\ f.ric = k.ric /\ f.near = "handled"
  BY <1>0 DEF A1CallType
<1>3. a1Call' = [a1Call EXCEPT ![c] = g]
  BY <1>0 DEF NearHandles, RequestLost, Becomes
<1>4. g \in A1CallType \cup {NoPolicy} /\ (g # NoPolicy => g = f) /\ (g = NoPolicy => ~f.client)
  BY <1>2, SlotOf, A1Assumption DEF Slot
<1>5. a1Call'[c] = g
  BY <1>3 DEF A1IInv, A1TypeOK
<1>6. CallSound(c) /\ a1Policies \in [Policies -> PolicyData \cup {NoPolicy}]
  BY DEF A1IInv, A1TypeOK
<1>9. UNCHANGED <<managed, used, rapp, toDelete, policies, nearUp, agreed, disowned>>
  BY <1>0 DEF NearHandles, RequestLost
<1>10. /\ a1Policies' \in [Policies -> PolicyData \cup {NoPolicy}]
       /\ \A q \in Policies \ {p} : a1Policies'[q] = a1Policies[q]
       /\ k.ric = "waiting" => a1Policies'[p] = IF k.op = "delete" THEN NoPolicy ELSE k.data
  <2>1. k.data \in PolicyData
    BY <1>0 DEF A1CallType
  <2>2. CASE NearHandles(c)
    BY <2>1, <2>2, <1>0, <1>1, <1>6 DEF NearHandles
  <2>3. CASE RequestLost(c)
    BY <2>3, <1>0, <1>6 DEF RequestLost
  <2> QED
    BY <2>2, <2>3
<1>11. A1TypeOK'
  BY <1>3, <1>4, <1>9, <1>10 DEF A1IInv, A1TypeOK
<1>12. On(p)' \subseteq On(p)
  BY <1>0, <1>1, <1>2, <1>3, <1>4, <1>5 DEF On, A1IInv, A1TypeOK
<1> HIDE DEF f, g
<1>13. CallSound(c)'
  <2> SUFFICES ASSUME g # NoPolicy  PROVE CallSound(c)'
    BY <1>5 DEF CallSound
  <2>1. a1Call'[c] = f
    BY <1>4, <1>5
  <2>2. p \in used /\ p \notin agreed /\ f.ric # "sent" /\ (~f.client /\ f.ric \in {"sent", "waiting"} => p \in disowned)
    BY <1>0, <1>1, <1>2, <1>6 DEF CallSound
  <2>4. f.alone => \A b \in On(p)' : b = c
    BY <1>0, <1>1, <1>2, <1>6, <1>12 DEF CallSound
  <2>5. f.op = "put" /\ f.client /\ p \notin disowned =>
          p \notin managed /\ (\A b \in On(p)' : b = c) /\ (f.ric \in {"waiting", "done"} => policies[p] # NoPolicy)
    BY <1>0, <1>1, <1>2, <1>6, <1>12 DEF CallSound
  <2>6. f.alone /\ f.ric = "waiting" /\ f.op # "delete" =>
          policies[p] # NoPolicy /\ policies[p].by = c /\ policies[p].data = f.data
    BY <1>0, <1>1, <1>2, <1>6 DEF CallSound
  <2>7. f.ric = "waiting" => a1Policies'[p] = IF f.op = "delete" THEN NoPolicy ELSE f.data
    BY <1>2, <1>10
  <2>8. f.policy = p /\ f.near = "handled"
    BY <1>2
  <2> HIDE DEF p
  <2> QED
    BY ONLY <2>1, <2>2, <2>4, <2>5, <2>6, <2>7, <2>8, <1>9 DEF CallSound
<1>14. p \notin agreed'
  BY <1>0, <1>1, <1>6, <1>9 DEF CallSound
<1>15. p \in managed' \ disowned' => policies'[p] # NoPolicy \/ BeingDeleted(p)'
  <2> SUFFICES ASSUME p \in managed \ disowned, BeingDeleted(p)  PROVE BeingDeleted(p)'
    BY <1>9 DEF A1IInv
  <2>1. PICK b \in On(p) : a1Call[b].op = "delete" /\ a1Call[b].client /\ a1Call[b].ric = "done"
    BY DEF BeingDeleted
  <2>2. CASE b = c
    <3>1. g = f /\ f # NoPolicy
      BY <2>1, <2>2, <1>0, <1>2, <1>4, A1Assumption
    <3> QED
      BY <3>1, <2>1, <2>2, <1>0, <1>2, <1>5 DEF BeingDeleted, On
  <2>3. CASE b # c
    <3>1. a1Call'[b] = a1Call[b]
      BY <2>1, <2>3, <1>3 DEF A1IInv, A1TypeOK, On
    <3> QED
      BY <3>1, <2>1 DEF BeingDeleted, On
  <2> QED
    BY <2>2, <2>3
<1>16. (g # NoPolicy => g.policy = p) /\ a1Call[c] # NoPolicy /\ a1Call[c].policy = p
  BY <1>0, <1>1, <1>2, <1>4
<1>18. managed' \subseteq used
  BY <1>9 DEF A1IInv
<1> HIDE DEF p
<1> QED
  BY <1>1, <1>3, <1>4, <1>9, <1>10, <1>11, <1>13, <1>14, <1>15, <1>16, <1>18, OneCallMoves

\* The rApp hears of its call, or gives up on it.
LEMMA ClientStepKeeps ==
  ASSUME A1IInv, NEW c \in A1Calls, ClientAnswered(c) \/ ClientTimesOut(c)
  PROVE  A1IInv'
<1>0. PICK k \in A1CallType : a1Call[c] = k
  BY DEF A1IInv, A1TypeOK, ClientAnswered, ClientTimesOut
<1> DEFINE p == k.policy
           f == [k EXCEPT !.client = FALSE]
           g == Slot(f)
<1>1. p \in Policies /\ k # NoPolicy /\ k.client
  BY <1>0, A1Assumption DEF A1CallType, ClientAnswered, ClientTimesOut
<1>2. f \in A1CallType /\ f.policy = p /\ f.op = k.op /\ f.client = FALSE /\ f.alone = k.alone /\ f.data = k.data
      /\ f.ric = k.ric /\ f.near = k.near
  BY <1>0 DEF A1CallType
<1>3. a1Call' = [a1Call EXCEPT ![c] = g]
  BY <1>0 DEF ClientAnswered, ClientTimesOut, Becomes
<1>4. g \in A1CallType \cup {NoPolicy} /\ (g # NoPolicy => g = f)
  BY <1>2, SlotOf
<1>5. a1Call'[c] = g
  BY <1>3 DEF A1IInv, A1TypeOK
<1>6. CallSound(c) /\ p \in used
  BY <1>0, <1>1 DEF A1IInv, CallSound
<1>7. UNCHANGED <<used, rapp, toDelete, policies, a1Policies, nearUp, agreed>>
      /\ disowned \subseteq disowned' /\ disowned' \subseteq disowned \cup {p}
  BY <1>0 DEF ClientAnswered, ClientTimesOut
<1>8. \/ k.ric \in {"done", "refused"} /\ disowned' = disowned
         /\ managed' = IF k.ric = "refused" \/ k.op = "update" THEN managed
                   ELSE IF k.op = "put" THEN managed \cup {p} ELSE managed \ {p}
      \/ p \in disowned' /\ managed' = managed
  BY <1>0, <1>1 DEF ClientAnswered, ClientTimesOut
<1>9. managed' \subseteq used /\ used \subseteq Policies /\ disowned' \subseteq Policies
      /\ \A q \in Policies \ {p} : (q \in managed' <=> q \in managed) /\ (q \in disowned' <=> q \in disowned)
  BY <1>1, <1>6, <1>7, <1>8 DEF A1IInv, A1TypeOK
<1>11. A1TypeOK'
  BY <1>3, <1>4, <1>7, <1>9 DEF A1IInv, A1TypeOK
<1>12. On(p)' \subseteq On(p)
  BY <1>0, <1>1, <1>2, <1>3, <1>4, <1>5 DEF On, A1IInv, A1TypeOK
<1> HIDE DEF f, g
<1>13. CallSound(c)'
  <2> SUFFICES ASSUME g # NoPolicy  PROVE CallSound(c)'
    BY <1>5 DEF CallSound
  <2>1. a1Call'[c] = f
    BY <1>4, <1>5
  <2>2. /\ (f.ric = "sent" => f.near = "none") /\ (f.ric = "waiting" => f.near # "none")
        /\ (f.near = "sent" \/ f.ric = "waiting" => p \notin agreed)
        /\ f.policy = p /\ ~f.client
    BY <1>0, <1>1, <1>2, <1>6 DEF CallSound
  <2>3. f.ric \in {"sent", "waiting"} => p \in disowned'
    BY <1>2, <1>8
  <2>4. f.alone => \A b \in On(p)' : b = c
    BY <1>0, <1>1, <1>2, <1>6, <1>12 DEF CallSound
  <2>6. f.alone /\ f.ric = "waiting" =>
          /\ f.op # "delete" => policies[p] # NoPolicy /\ policies[p].by = c /\ policies[p].data = f.data
          /\ f.near = "handled" => a1Policies[p] = IF f.op = "delete" THEN NoPolicy ELSE f.data
    BY <1>0, <1>1, <1>2, <1>6 DEF CallSound
  <2> HIDE DEF p
  <2> QED
    BY ONLY <2>1, <2>2, <2>3, <2>4, <2>6, <1>6, <1>7 DEF CallSound
<1>14. p \in agreed' => SameAtBoth(p)'
  BY <1>7 DEF A1IInv, SameAtBoth
<1>15. p \in managed' \ disowned' => policies'[p] # NoPolicy \/ BeingDeleted(p)'
  <2> SUFFICES ASSUME p \in managed' \ disowned'  PROVE policies[p] # NoPolicy \/ BeingDeleted(p)'
    BY <1>7
  <2>1. CASE p \notin managed
    <3>1. k.op = "put" /\ k.ric = "done"
      BY <2>1, <1>0, <1>8 DEF A1CallType
    <3> QED
      BY <3>1, <1>0, <1>1, <1>6, <1>7 DEF CallSound
  <2>2. CASE p \in managed /\ BeingDeleted(p)
    <3>1. PICK b \in On(p) : a1Call[b].op = "delete" /\ a1Call[b].client /\ a1Call[b].ric = "done"
      BY <2>2 DEF BeingDeleted
    <3>2. b # c
      BY <3>1, <1>0, <1>8
    <3>3. a1Call'[b] = a1Call[b]
      BY <3>1, <3>2, <1>3 DEF A1IInv, A1TypeOK, On
    <3> QED
      BY <3>3, <3>1 DEF BeingDeleted, On
  <2> QED
    BY <2>1, <2>2, <1>7 DEF A1IInv
<1>16. (g # NoPolicy => g.policy = p) /\ a1Call[c] # NoPolicy /\ a1Call[c].policy = p
  BY <1>0, <1>1, <1>2, <1>4
<1> HIDE DEF p
<1> QED
  BY <1>1, <1>3, <1>4, <1>7, <1>9, <1>11, <1>13, <1>14, <1>15, <1>16, OneCallMoves

\* The Near-RT RIC stops: nothing is agreed on, and no request reaches it.
LEMMA NearStopsKeeps == A1IInv /\ NearStops => A1IInv'
<1> SUFFICES ASSUME A1IInv, NearStops  PROVE A1IInv'
  OBVIOUS
<1>1. a1Call \in [A1Calls -> A1CallType \cup {NoPolicy}]
  BY DEF A1IInv, A1TypeOK
<1>2. ASSUME NEW b \in A1Calls, a1Call[b] # NoPolicy
      PROVE  \E f \in A1CallType :
               /\ a1Call'[b] = Slot(f)
               /\ f.policy = a1Call[b].policy /\ f.op = a1Call[b].op /\ f.client = a1Call[b].client
               /\ f.ric = a1Call[b].ric /\ f.alone = FALSE /\ f.near # "sent"
               /\ a1Call[b].near = "none" => f.near = "none"
               /\ a1Call[b].near # "none" => f.near # "none"
  <2>1. PICK k \in A1CallType : a1Call[b] = k
    BY <1>1, <1>2
  <2> DEFINE f == [k EXCEPT !.alone = FALSE, !.near = IF @ = "sent" THEN "handled" ELSE @]
  <2>2. a1Call'[b] = Slot(f)
    BY <1>2, <2>1 DEF NearStops
  <2>3. f \in A1CallType /\ f.policy = k.policy /\ f.op = k.op /\ f.client = k.client /\ f.ric = k.ric
        /\ f.alone = FALSE /\ f.near # "sent" /\ (k.near = "none" => f.near = "none")
        /\ (k.near # "none" => f.near # "none")
    BY <2>1 DEF A1CallType
  <2> HIDE DEF f
  <2> QED
    BY <2>1, <2>2, <2>3
<1>3. a1Call' \in [A1Calls -> A1CallType \cup {NoPolicy}]
      /\ \A b \in A1Calls : a1Call[b] = NoPolicy => a1Call'[b] = NoPolicy
  <2>1. a1Call' = [b \in A1Calls |-> a1Call'[b]] /\ \A b \in A1Calls : a1Call[b] = NoPolicy => a1Call'[b] = NoPolicy
    BY DEF NearStops
  <2>2. ASSUME NEW b \in A1Calls, a1Call[b] # NoPolicy  PROVE a1Call'[b] \in A1CallType \cup {NoPolicy}
    BY <1>2, <2>2, SlotOf
  <2> QED
    BY <2>1, <2>2
<1>4. UNCHANGED <<managed, used, rapp, toDelete, policies, disowned>> /\ agreed' = {} /\ nearUp' = FALSE
      /\ a1Policies' = [p \in Policies |-> NoPolicy]
  BY DEF NearStops
<1>5. A1TypeOK'
  BY <1>3, <1>4 DEF A1IInv, A1TypeOK
<1>6. ASSUME NEW b \in A1Calls, a1Call'[b] # NoPolicy
      PROVE  /\ a1Call[b] # NoPolicy /\ a1Call'[b].policy = a1Call[b].policy
             /\ a1Call'[b].op = a1Call[b].op /\ a1Call'[b].client = a1Call[b].client
             /\ a1Call'[b].ric = a1Call[b].ric /\ a1Call'[b].alone = FALSE /\ a1Call'[b].near # "sent"
             /\ (a1Call[b].near = "none" => a1Call'[b].near = "none")
             /\ (a1Call[b].near # "none" => a1Call'[b].near # "none")
  BY <1>2, <1>3, <1>6, SlotOf, ZenonT(30)
<1>7. ASSUME NEW b \in A1Calls  PROVE CallSound(b)'
  <2> SUFFICES ASSUME a1Call'[b] # NoPolicy  PROVE CallSound(b)'
    BY DEF CallSound
  <2>1. PICK p \in Policies : a1Call'[b].policy = p /\ a1Call[b].policy = p
    BY <1>1, <1>6 DEF A1CallType
  <2>2. On(p)' \subseteq On(p)
    BY <1>6 DEF On
  <2>3. CallSound(b)
    BY DEF A1IInv
  <2> QED
    BY ONLY <2>1, <2>2, <2>3, <1>4, <1>6, b \in A1Calls, a1Call'[b] # NoPolicy DEF CallSound
<1>8. ASSUME NEW q \in managed' \ disowned'  PROVE policies'[q] # NoPolicy \/ BeingDeleted(q)'
  <2> SUFFICES ASSUME BeingDeleted(q)  PROVE BeingDeleted(q)'
    BY <1>4, <1>8 DEF A1IInv
  <2>1. PICK b \in On(q) : a1Call[b].op = "delete" /\ a1Call[b].client /\ a1Call[b].ric = "done"
    BY DEF BeingDeleted
  <2>2. b \in A1Calls /\ a1Call[b] # NoPolicy
    BY <2>1 DEF On
  <2>3. PICK f \in A1CallType : a1Call'[b] = Slot(f) /\ f.policy = a1Call[b].policy /\ f.op = a1Call[b].op
                                /\ f.client = a1Call[b].client /\ f.ric = a1Call[b].ric
    BY <1>2, <2>2
  <2>4. a1Call'[b] = f /\ f # NoPolicy
    BY <2>1, <2>3, A1Assumption DEF Slot
  <2> QED
    BY <2>1, <2>2, <2>3, <2>4 DEF BeingDeleted, On
<1> QED
  BY <1>4, <1>5, <1>7, <1>8 DEF A1IInv

\* Every step of the three hops keeps the invariant.
LEMMA A1NextInv == A1IInv /\ [A1Next]_a1Vars => A1IInv'
<1> SUFFICES ASSUME A1IInv, [A1Next]_a1Vars  PROVE A1IInv'
  OBVIOUS
<1>0. AnyData \in PolicyData
  BY A1Assumption DEF AnyData
<1>a. ASSUME NEW c \in A1Calls, NEW p \in Policies, NEW d \in PolicyData,
             NEW op \in {"put", "update", "delete"}, NEW client \in BOOLEAN, Begin(c, op, p, d, client)
      PROVE  a1Call' \in [A1Calls -> A1CallType \cup {NoPolicy}]
  <2>1. [op |-> op, policy |-> p, data |-> d, client |-> client,
         ric |-> "sent", near |-> "none", alone |-> On(p) = {}] \in A1CallType
    BY DEF A1CallType
  <2>2. \A b \in On(p) : [a1Call[b] EXCEPT !.alone = FALSE] \in A1CallType
    BY DEF On, A1IInv, A1TypeOK, A1CallType
  <2>3. a1Call \in [A1Calls -> A1CallType \cup {NoPolicy}]
    BY DEF A1IInv, A1TypeOK
  <2> HIDE DEF A1CallType
  <2> QED
    BY <1>a, <2>1, <2>2, <2>3 DEF Begin
<1>1. ASSUME NEW c \in A1Calls, NEW p \in Policies, RappCreates(c, p)  PROVE A1IInv'
  <2>1. A1TypeOK'
    BY <1>0, <1>1, <1>a DEF RappCreates, A1IInv, A1TypeOK
  <2> QED
    BY <1>0, <1>1, <2>1, CallBegins DEF RappCreates
<1>2. ASSUME NEW c \in A1Calls, NEW p \in Policies, NEW d \in PolicyData, RappUpdates(c, p, d)  PROVE A1IInv'
  <2>1. A1TypeOK' /\ p \in used
    BY <1>2, <1>a DEF RappUpdates, A1IInv, A1TypeOK
  <2> QED
    BY <1>2, <2>1, CallBegins DEF RappUpdates
<1>3. ASSUME NEW c \in A1Calls, NEW p \in Policies, RappDeletes(c, p)  PROVE A1IInv'
  <2>1. toDelete' \subseteq toDelete
    BY <1>3 DEF RappDeletes
  <2>2. A1TypeOK' /\ p \in used
    BY <1>0, <1>3, <1>a, <2>1 DEF RappDeletes, A1IInv, A1TypeOK
  <2> QED
    BY <1>0, <1>3, <2>2, CallBegins DEF RappDeletes
<1>4. ASSUME NEW c \in A1Calls, NEW p \in Policies, NEW d \in PolicyData, NEW op \in {"put", "delete"},
             OperatorCalls(c, op, p, d)
      PROVE  A1IInv'
  <2>1. A1TypeOK'
    BY <1>4, <1>a DEF OperatorCalls, A1IInv, A1TypeOK
  <2> QED
    BY <1>4, <2>1, CallBegins DEF OperatorCalls
<1>5. ASSUME UNCHANGED <<managed, used, policies, a1Policies, a1Call, agreed, disowned>>, A1TypeOK'
      PROVE  A1IInv'
  BY <1>5 DEF A1IInv, CallSound, SameAtBoth, BeingDeleted, On
<1>6. ASSUME RappStops \/ RappStopped \/ (\E p \in Policies : RappSkips(p)) \/ NearStarts  PROVE A1IInv'
  <2>1. CASE RappStops
    BY <2>1, <1>5 DEF RappStops, A1IInv, A1TypeOK
  <2>2. CASE RappStopped
    BY <2>2, <1>5 DEF RappStopped, A1IInv, A1TypeOK
  <2>3. CASE \E p \in Policies : RappSkips(p)
    BY <2>3, <1>5 DEF RappSkips, A1IInv, A1TypeOK
  <2>4. CASE NearStarts
    BY <2>4, <1>5 DEF NearStarts, A1IInv, A1TypeOK
  <2> QED
    BY <1>6, <2>1, <2>2, <2>3, <2>4
<1>7. ASSUME NEW c \in A1Calls, RicAnswered(c)  PROVE A1IInv'
  BY <1>7, ConcludeKeeps DEF RicAnswered
<1>8. ASSUME NEW c \in A1Calls, RicUnanswered(c)  PROVE A1IInv'
  BY <1>8, ConcludeKeeps DEF RicUnanswered
<1>9. CASE UNCHANGED a1Vars
  BY <1>9, <1>5 DEF a1Vars, A1IInv, A1TypeOK
<1> QED
  BY <1>1, <1>2, <1>3, <1>4, <1>6, <1>7, <1>8, <1>9, RicReceivesKeeps, NearStepKeeps, ClientStepKeeps,
     NearStopsKeeps DEF A1Next

\* The invariant gives what the run checks.
LEMMA A1IInvImplies == A1IInv => A1TypeOK /\ PoliciesAgree
<1> SUFFICES ASSUME A1IInv, NEW p \in Policies, On(p) = {}
             PROVE  /\ p \in agreed => SameAtBoth(p)
                    /\ p \in managed \ disowned => policies[p] # NoPolicy
  BY DEF A1IInv, PoliciesAgree, SameAtBoth
<1> QED
  BY DEF A1IInv, BeingDeleted
-----------------------------------------------------------------------------
\* The enrichment side starts with its types.
LEMMA EiInitInv == EiInit => EiTypeOK
BY A1Assumption DEF EiInit, EiTypeOK

\* And keeps them.
LEMMA EiNextInv == EiTypeOK /\ [EiNext]_eiVars => EiTypeOK'
<1> SUFFICES ASSUME EiTypeOK, [EiNext]_eiVars  PROVE EiTypeOK'
  OBVIOUS
<1>1. ASSUME NEW t \in EiTypes, CreateEiType(t)  PROVE EiTypeOK'
  BY <1>1 DEF EiTypeOK, CreateEiType
<1>2. ASSUME NEW t \in EiTypes, NEW j \in EiJobs, CreateEiJob(j, t)  PROVE EiTypeOK'
  <2>1. [type |-> t, status |-> "ACTIVE"] \in EiJobRecords
    BY DEF EiJobRecords
  <2> QED
    BY <1>2, <2>1 DEF EiTypeOK, CreateEiJob
<1>3. ASSUME NEW j \in EiJobs, DeleteEiJob(j)  PROVE EiTypeOK'
  BY <1>3 DEF EiTypeOK, DeleteEiJob
<1>4. ASSUME NEW j \in EiJobs, Deliver(j)  PROVE EiTypeOK'
  <2>1. PICK k \in EiJobRecords : eiJobs[j] = k /\ k.type \in eiTypes
    BY <1>4 DEF EiTypeOK, Deliver
  <2> DEFINE f == [k EXCEPT !.status = "DELIVERING"]
  <2>2. f \in EiJobRecords /\ f.type = k.type
    BY <2>1 DEF EiJobRecords
  <2>3. eiJobs' = [eiJobs EXCEPT ![j] = f] /\ delivery' = delivery \cup {[job |-> j, type |-> k.type]}
    BY <1>4, <2>1 DEF Deliver
  <2> HIDE DEF f
  <2> QED
    BY <1>4, <2>1, <2>2, <2>3 DEF EiTypeOK, Deliver
<1>5. ASSUME NEW d \in delivery, Delivered(d)  PROVE EiTypeOK'
  BY <1>5 DEF EiTypeOK, Delivered
<1>6. ASSUME PeerComesOrGoes \/ Heartbeat \/ UNCHANGED eiVars  PROVE EiTypeOK'
  BY <1>6 DEF EiTypeOK, PeerComesOrGoes, Heartbeat, eiVars
<1> QED
  BY <1>1, <1>2, <1>3, <1>4, <1>5, <1>6 DEF EiNext

-----------------------------------------------------------------------------
(* The SMO workflow and the notification history.                           *)

\* What a request at each step has done, and what it has left to do.
Undecided(r) ==
  /\ r \notin policyOf
  /\ workflow[r] # None => workflow[r].policy = "none" /\ ~workflow[r].success

\* What the request r has done by the step it is at.
SoFar(r) ==
  /\ workflow[r] = None => Undecided(r)
  /\ workflow[r] # None =>
       /\ workflow[r] \in WorkflowRecord
       /\ workflow[r].at = "check" => workflow[r].call = "none" /\ Undecided(r)
       /\ workflow[r].at = "deploy" => workflow[r].call # "none" /\ Undecided(r)
       /\ workflow[r].at = "policy" =>
            workflow[r].call = "created" /\ workflow[r].deployment /\ Undecided(r)

\* Each request is where its step says, and each outcome is true.
OutcomeIInv ==
  /\ workflow \in [Requests -> WorkflowRecord \cup {None}]
  /\ policyOf \subseteq Requests /\ unheard \subseteq Requests
  /\ \A r \in Requests : SoFar(r)
  /\ OutcomeIsTrue
-----------------------------------------------------------------------------
\* The outcome of one request, which is what each step changes.
Outcome(r) ==
  workflow[r] # None /\ workflow[r].at = "ended" =>
    /\ workflow[r].success => workflow[r].call = "created" /\ workflow[r].deployment
    /\ workflow[r].policy = "success" => r \in policyOf
    /\ ~workflow[r].success => /\ r \notin policyOf
                               /\ workflow[r].call \in {"sent", "created"} => r \in unheard

\* The property, request by request.
LEMMA OutcomeOfEach == OutcomeIsTrue <=> \A r \in Requests : Outcome(r)
BY DEF OutcomeIsTrue, Outcome

\* A step of one request leaves what is known of the others.
LEMMA OthersAreUntouched ==
  ASSUME NEW r \in Requests, NEW f \in WorkflowRecord \cup {None}, OutcomeIInv,
         workflow' = [workflow EXCEPT ![r] = f],
         policyOf' \in {policyOf, policyOf \cup {r}},
         unheard' \in {unheard, unheard \cup {r}},
         SoFar(r)', Outcome(r)'
  PROVE  OutcomeIInv'
<1>1. workflow' \in [Requests -> WorkflowRecord \cup {None}]
  BY DEF OutcomeIInv
<1>2. policyOf' \subseteq Requests /\ unheard' \subseteq Requests
  BY DEF OutcomeIInv
<1>3. ASSUME NEW q \in Requests, q # r  PROVE SoFar(q)' /\ Outcome(q)'
  <2>1. workflow'[q] = workflow[q] /\ (q \in policyOf' <=> q \in policyOf)
                                   /\ (q \in unheard' <=> q \in unheard)
    BY <1>3 DEF OutcomeIInv
  <2>2. SoFar(q) /\ Outcome(q)
    BY OutcomeOfEach DEF OutcomeIInv
  <2> QED
    BY <2>1, <2>2 DEF SoFar, Outcome, Undecided
<1>4. \A q \in Requests : SoFar(q)' /\ Outcome(q)'
  BY <1>3
<1>5. OutcomeIsTrue'
  BY <1>4 DEF OutcomeIsTrue, Outcome
<1> QED
  BY <1>1, <1>2, <1>4, <1>5 DEF OutcomeIInv

\* No request has an outcome at the start.
LEMMA OutcomeInit == SmoInit => OutcomeIInv
BY NoWorkflowAssumption DEF SmoInit, OutcomeIInv, SoFar, Undecided, OutcomeIsTrue

\* Every step keeps each outcome true.
LEMMA OutcomeNext == OutcomeIInv /\ [SmoNext]_smoVars => OutcomeIInv'
<1> SUFFICES ASSUME OutcomeIInv, [SmoNext]_smoVars  PROVE OutcomeIInv'
  OBVIOUS
<1>0. ASSUME NEW r \in Requests, workflow[r] # None  PROVE workflow[r] \in WorkflowRecord /\ SoFar(r)
  BY <1>0 DEF OutcomeIInv
<1>1. ASSUME NEW r \in Requests, DeployNf(r)  PROVE OutcomeIInv'
  <2>1. PICK n \in 1..2, q \in BOOLEAN :
          workflow' = [workflow EXCEPT ![r] =
            [at |-> "check", replicas |-> n, qos |-> q, call |-> "none",
             deployment |-> FALSE, policy |-> "none", success |-> FALSE]]
    BY <1>1 DEF DeployNf, Goes
  <2> DEFINE f == [at |-> "check", replicas |-> n, qos |-> q, call |-> "none",
                   deployment |-> FALSE, policy |-> "none", success |-> FALSE]
  <2>2. f \in WorkflowRecord /\ f.at = "check" /\ f.call = "none" /\ f.policy = "none" /\ ~f.success
    BY DEF WorkflowRecord, Steps
  <2>3. workflow[r] = None /\ policyOf' = policyOf /\ unheard' = unheard
    BY <1>1 DEF DeployNf
  <2>4. workflow'[r] = f
    BY <2>1 DEF OutcomeIInv
  <2>5. r \notin policyOf
    BY <2>3 DEF OutcomeIInv, SoFar, Undecided
  <2> HIDE DEF f
  <2>6. SoFar(r)' /\ Outcome(r)'
    BY <2>2, <2>3, <2>4, <2>5, NoWorkflowAssumption DEF SoFar, Undecided, Outcome
  <2> QED
    BY <2>1, <2>2, <2>3, <2>6, OthersAreUntouched DEF f
<1>2. ASSUME NEW r \in Requests, CheckResources(r)  PROVE OutcomeIInv'
  <2>1. workflow[r] # None /\ workflow[r].at = "check" /\ policyOf' = policyOf /\ unheard' = unheard
    BY <1>2 DEF CheckResources
  <2>2. PICK f : /\ f \in {[workflow[r] EXCEPT !.at = "deploy", !.call = "sent"],
                            [workflow[r] EXCEPT !.at = "ended"]}
                 /\ workflow' = [workflow EXCEPT ![r] = f]
    BY <1>2 DEF CheckResources, Goes
  <2>3. f \in WorkflowRecord /\ workflow'[r] = f
    BY <1>0, <2>1, <2>2 DEF WorkflowRecord, Steps, OutcomeIInv
  <2>4. r \notin policyOf /\ workflow[r].call = "none" /\ workflow[r].policy = "none" /\ ~workflow[r].success
    BY <1>0, <2>1 DEF SoFar, Undecided
  <2>5. /\ f.policy = "none" /\ ~f.success
        /\ \/ f.at = "deploy" /\ f.call = "sent"
           \/ f.at = "ended" /\ f.call = "none"
    BY <1>0, <2>1, <2>2, <2>4 DEF WorkflowRecord, Steps
  <2>6. SoFar(r)' /\ Outcome(r)'
    BY <2>1, <2>3, <2>4, <2>5, NoWorkflowAssumption DEF SoFar, Undecided, Outcome
  <2> QED
    BY <2>1, <2>2, <2>3, <2>6, OthersAreUntouched
<1>3. ASSUME NEW r \in Requests, DmsHandles(r)  PROVE OutcomeIInv'
  <2>1. workflow[r] # None /\ workflow[r].call = "sent" /\ policyOf' = policyOf /\ unheard' = unheard
    BY <1>3 DEF DmsHandles
  <2>2. PICK c \in {"created", "rejected"} : workflow' = [workflow EXCEPT ![r] = [workflow[r] EXCEPT !.call = c]]
    BY <1>3 DEF DmsHandles, Goes
  <2>3. workflow'[r] = [workflow[r] EXCEPT !.call = c] /\ workflow'[r] \in WorkflowRecord
    BY <1>0, <2>1, <2>2 DEF WorkflowRecord, OutcomeIInv
  <2>4. workflow'[r].call = c /\ workflow'[r].at = workflow[r].at /\ workflow'[r].success = workflow[r].success
                              /\ workflow'[r].policy = workflow[r].policy
                              /\ workflow'[r].deployment = workflow[r].deployment
    BY <1>0, <2>1, <2>3 DEF WorkflowRecord
  <2>5. workflow[r].at \in {"deploy", "ended"} /\ SoFar(r) /\ Outcome(r)
    BY <1>0, <2>1, OutcomeOfEach DEF SoFar, WorkflowRecord, Steps, OutcomeIInv
  <2>6. SoFar(r)' /\ Outcome(r)'
    BY <2>1, <2>2, <2>3, <2>4, <2>5, NoWorkflowAssumption DEF SoFar, Undecided, Outcome
  <2> QED
    BY <2>1, <2>2, <2>3, <2>6, OthersAreUntouched
<1>4. ASSUME NEW r \in Requests, DeployAnswered(r)  PROVE OutcomeIInv'
  <2>1. workflow[r] # None /\ workflow[r].at = "deploy" /\ workflow[r].call \in {"created", "rejected"}
        /\ policyOf' = policyOf /\ unheard' = unheard
    BY <1>4 DEF DeployAnswered
  <2>2. PICK f : /\ f = IF workflow[r].call = "created"
                         THEN [workflow[r] EXCEPT !.at = "policy", !.deployment = TRUE]
                         ELSE [workflow[r] EXCEPT !.at = "ended"]
                 /\ workflow' = [workflow EXCEPT ![r] = f]
    BY <1>4 DEF DeployAnswered, Goes
  <2>3. f \in WorkflowRecord /\ workflow'[r] = f
    BY <1>0, <2>1, <2>2 DEF WorkflowRecord, Steps, OutcomeIInv
  <2>4. r \notin policyOf /\ workflow[r].policy = "none" /\ ~workflow[r].success
    BY <1>0, <2>1 DEF SoFar, Undecided
  <2>5. /\ f.policy = "none" /\ ~f.success
        /\ \/ f.at = "policy" /\ f.call = "created" /\ f.deployment
           \/ f.at = "ended" /\ f.call = "rejected"
    BY <1>0, <2>1, <2>2, <2>4 DEF WorkflowRecord, Steps
  <2>6. SoFar(r)' /\ Outcome(r)'
    BY <2>1, <2>3, <2>4, <2>5, NoWorkflowAssumption DEF SoFar, Undecided, Outcome
  <2> QED
    BY <2>1, <2>2, <2>3, <2>6, OthersAreUntouched
<1>5. ASSUME NEW r \in Requests, DeployUnanswered(r)  PROVE OutcomeIInv'
  <2>1. workflow[r] # None /\ workflow[r].at = "deploy" /\ policyOf' = policyOf /\ unheard' = unheard \cup {r}
    BY <1>5 DEF DeployUnanswered
  <2>2. PICK f : f = [workflow[r] EXCEPT !.at = "ended"] /\ workflow' = [workflow EXCEPT ![r] = f]
    BY <1>5 DEF DeployUnanswered, Goes
  <2>3. f \in WorkflowRecord /\ workflow'[r] = f
    BY <1>0, <2>1, <2>2 DEF WorkflowRecord, Steps, OutcomeIInv
  <2>4. r \notin policyOf /\ workflow[r].policy = "none" /\ ~workflow[r].success
    BY <1>0, <2>1 DEF SoFar, Undecided
  <2>5. f.policy = "none" /\ ~f.success /\ f.at = "ended"
    BY <1>0, <2>1, <2>2, <2>4 DEF WorkflowRecord
  <2>6. SoFar(r)' /\ Outcome(r)'
    BY <2>1, <2>3, <2>4, <2>5, NoWorkflowAssumption DEF SoFar, Undecided, Outcome
  <2> QED
    BY <2>1, <2>2, <2>3, <2>6, OthersAreUntouched
<1>6. ASSUME NEW r \in Requests, CreatePolicy(r)  PROVE OutcomeIInv'
  <2>1. workflow[r] # None /\ workflow[r].at = "policy" /\ unheard' = unheard
    BY <1>6 DEF CreatePolicy
  <2>2. PICK s \in {"success", "failed", "unheard", "skipped"} :
          /\ workflow' = [workflow EXCEPT ![r] =
               [workflow[r] EXCEPT !.at = "ended", !.policy = s, !.success = TRUE]]
          /\ policyOf' \in {policyOf, policyOf \cup {r}}
          /\ s = "success" => policyOf' = policyOf \cup {r}
    BY <1>6 DEF CreatePolicy, Goes
  <2> DEFINE f == [workflow[r] EXCEPT !.at = "ended", !.policy = s, !.success = TRUE]
  <2>3. f \in WorkflowRecord /\ workflow'[r] = f
    BY <1>0, <2>1, <2>2 DEF WorkflowRecord, Steps, OutcomeIInv
  <2>4. workflow[r].call = "created" /\ workflow[r].deployment
    BY <1>0, <2>1 DEF SoFar
  <2>5. f.at = "ended" /\ f.success /\ f.policy = s /\ f.call = "created" /\ f.deployment
    BY <1>0, <2>1, <2>4 DEF WorkflowRecord
  <2> HIDE DEF f
  <2>6. SoFar(r)' /\ Outcome(r)'
    BY <2>2, <2>3, <2>5, NoWorkflowAssumption DEF SoFar, Undecided, Outcome
  <2> QED
    BY <2>1, <2>2, <2>3, <2>6, OthersAreUntouched DEF f
<1>7. ASSUME UNCHANGED <<workflow, policyOf, unheard>>  PROVE OutcomeIInv'
  BY <1>7 DEF OutcomeIInv, SoFar, Undecided, OutcomeIsTrue
<1>8. ASSUME NEW r \in Requests, Terminate(r) \/ \E n \in 1..2 : ScaleNf(r, n)  PROVE OutcomeIInv'
  BY <1>7, <1>8 DEF Terminate, ScaleNf
<1> QED
  BY <1>1, <1>2, <1>3, <1>4, <1>5, <1>6, <1>7, <1>8 DEF SmoNext, smoVars
-----------------------------------------------------------------------------
\* The replicas of one deployment.
ReplicasOf(r, n) == {<<r, i>> : i \in 1..n}

\* There are as many as the deployment was asked for.
LEMMA ReplicasCounted ==
  ASSUME NEW r, NEW n \in 1..2
  PROVE  IsFiniteSet(ReplicasOf(r, n)) /\ Cardinality(ReplicasOf(r, n)) = n
<1>1. CASE n = 1
  <2>1. ReplicasOf(r, n) = {<<r, 1>>}
    BY <1>1 DEF ReplicasOf
  <2> QED
    BY <2>1, <1>1, FS_Singleton
<1>2. CASE n = 2
  <2>1. ReplicasOf(r, n) = {<<r, 1>>} \cup {<<r, 2>>} /\ <<r, 2>> \notin {<<r, 1>>}
    BY <1>2 DEF ReplicasOf
  <2> DEFINE one == {<<r, 1>>}
             x   == <<r, 2>>
  <2>2. IsFiniteSet(one) /\ Cardinality(one) = 1
    BY FS_Singleton
  <2>3. ReplicasOf(r, n) = one \cup {x} /\ x \notin one
    BY <2>1
  <2> HIDE DEF one, x
  <2>4. IsFiniteSet(one \cup {x}) /\ Cardinality(one \cup {x}) = 2
    BY <2>2, <2>3, FS_AddElement
  <2> QED
    BY <2>3, <2>4, <1>2
<1> QED
  BY <1>1, <1>2

\* What the O-Cloud runs can be counted.
LEMMA ReplicasFinite == IsFiniteSet(Replicas) /\ Used \in Nat
<1>1. IsFiniteSet(1..2)
  <2>1. 1 \in Int /\ 2 \in Int
    OBVIOUS
  <2> QED
    BY ONLY <2>1, FS_Interval
<1>2. IsFiniteSet(Requests \X (1..2))
  BY <1>1, NoWorkflowAssumption, FS_Product
<1>3. Replicas \subseteq Requests \X (1..2)
  BY DEF Replicas
<1>4. IsFiniteSet(Replicas)
  BY <1>2, <1>3, FS_Subset
<1> QED
  BY <1>4, FS_CardinalityType DEF Used

\* The DMS: replicas of each deployment, within the O-Cloud's capacity.
DmsTypeOK == dms \in [Requests -> 1..2 \cup {None}] /\ Used <= Capacity

\* What is created or scaled fits into what is left.
LEMMA DmsNext ==
  ASSUME DmsTypeOK, workflow \in [Requests -> WorkflowRecord \cup {None}], [SmoNext]_smoVars
  PROVE  DmsTypeOK'
<1>1. ASSUME NEW r \in Requests, NEW n \in 1..2, dms' = [dms EXCEPT ![r] = n],
             dms[r] # None => Used - dms[r] + n <= Capacity,
             dms[r] = None => Used + n <= Capacity
      PROVE  DmsTypeOK'
  <2>1. dms' \in [Requests -> 1..2 \cup {None}]
    BY <1>1 DEF DmsTypeOK
  <2>2. dms'[r] = n /\ n # None /\ \A q \in Requests : q # r => dms'[q] = dms[q]
    BY <1>1, NoWorkflowAssumption DEF DmsTypeOK
  <2> DEFINE old == {x \in Replicas : x[1] = r}
  <2>3. Replicas' = (Replicas \ old) \cup ReplicasOf(r, n)
    BY <2>2 DEF Replicas, ReplicasOf
  <2>4. (Replicas \ old) \cap ReplicasOf(r, n) = {}
    BY DEF Replicas, ReplicasOf
  <2>5. old = IF dms[r] = None THEN {} ELSE ReplicasOf(r, dms[r])
    BY DEF Replicas, ReplicasOf, DmsTypeOK
  <2>6. old \subseteq Replicas
    OBVIOUS
  <2>7. IsFiniteSet(old) /\ Cardinality(old) = IF dms[r] = None THEN 0 ELSE dms[r]
    <3>1. CASE dms[r] = None
      BY <3>1, <2>5, FS_EmptySet
    <3>2. CASE dms[r] # None
      <4>1. dms[r] \in 1..2
        BY <3>2 DEF DmsTypeOK
      <4> QED
        BY <3>2, <4>1, <2>5, ReplicasCounted
    <3> QED
      BY <3>1, <3>2
  <2> HIDE DEF old
  <2>8. old \cap Replicas = old
    BY <2>6
  <2>9. IsFiniteSet(Replicas \ old) /\ Cardinality(Replicas \ old) = Used - Cardinality(old)
    <3>1. Replicas \cap old = old
      BY <2>6
    <3> QED
      BY <3>1, ReplicasFinite, FS_Difference DEF Used
  <2>10. IsFiniteSet(ReplicasOf(r, n)) /\ Cardinality(ReplicasOf(r, n)) = n
    BY ReplicasCounted
  <2>11. Cardinality(Replicas') = Cardinality(Replicas \ old) + n
    <3> DEFINE rest == Replicas \ old
               new  == ReplicasOf(r, n)
    <3>1. IsFiniteSet(rest) /\ IsFiniteSet(new) /\ rest \cap new = {} /\ Replicas' = rest \cup new
          /\ Cardinality(new) = n
      BY <2>3, <2>4, <2>9, <2>10
    <3> HIDE DEF rest, new
    <3>2. Cardinality(rest \cup new) = Cardinality(rest) + Cardinality(new) - Cardinality(rest \cap new)
      BY <3>1, FS_Union
    <3>3. Cardinality(rest \cap new) = 0 /\ Cardinality(rest) \in Nat
      BY <3>1, FS_EmptySet, FS_CardinalityType
    <3> QED
      BY <3>1, <3>2, <3>3 DEF rest
  <2>12. Used' = Used - Cardinality(old) + n
    BY <2>9, <2>11 DEF Used
  <2>13. Used' <= Capacity
    <3>1. CASE dms[r] = None
      BY <3>1, <1>1, <2>7, <2>12, ReplicasFinite
    <3>2. CASE dms[r] # None
      BY <3>2, <1>1, <2>7, <2>12
    <3> QED
      BY <3>1, <3>2
  <2> QED
    BY <2>1, <2>13 DEF DmsTypeOK
<1>2. ASSUME UNCHANGED dms  PROVE DmsTypeOK'
  BY <1>2 DEF DmsTypeOK, Used, Replicas
<1>3. ASSUME NEW r \in Requests, DmsHandles(r)  PROVE DmsTypeOK'
  <2>1. PICK w \in WorkflowRecord : workflow[r] = w
    BY <1>3 DEF DmsHandles
  <2>2. w.replicas \in 1..2
    BY DEF WorkflowRecord
  <2>3. CASE Used + w.replicas <= Capacity
    <3>1. dms' = [dms EXCEPT ![r] = w.replicas]
      BY <1>3, <2>1, <2>3 DEF DmsHandles
    <3>2. dms[r] # None => Used - dms[r] + w.replicas <= Capacity
      BY <2>2, <2>3, ReplicasFinite, SmoAssumption DEF DmsTypeOK
    <3> QED
      BY <3>1, <3>2, <2>2, <2>3, <1>1
  <2>4. CASE ~(Used + w.replicas <= Capacity)
    BY <1>2, <1>3, <2>1, <2>4 DEF DmsHandles
  <2> QED
    BY <2>3, <2>4
<1>4. ASSUME NEW r \in Requests, NEW n \in 1..2, ScaleNf(r, n)  PROVE DmsTypeOK'
  BY <1>1, <1>4 DEF ScaleNf
<1>5. ASSUME NEW r \in Requests, Terminate(r)  PROVE DmsTypeOK'
  <2>1. dms' \in [Requests -> 1..2 \cup {None}] /\ Replicas' \subseteq Replicas
    BY <1>5 DEF Terminate, DmsTypeOK, Replicas
  <2>2. Used' <= Used /\ Used' \in Nat
    BY <2>1, ReplicasFinite, FS_Subset, FS_CardinalityType DEF Used
  <2> QED
    BY <2>1, <2>2, ReplicasFinite, SmoAssumption DEF DmsTypeOK
<1>6. ASSUME NEW r \in Requests,
             DeployNf(r) \/ CheckResources(r) \/ DeployAnswered(r) \/ DeployUnanswered(r) \/ CreatePolicy(r)
      PROVE  DmsTypeOK'
  BY <1>2, <1>6 DEF DeployNf, CheckResources, DeployAnswered, DeployUnanswered, CreatePolicy
<1> QED
  BY <1>2, <1>3, <1>4, <1>5, <1>6 DEF SmoNext, smoVars

\* The workflow and the O-Cloud it deploys to.
SmoIInv == OutcomeIInv /\ DmsTypeOK

\* Both start with their invariant.
LEMMA SmoInitInv == SmoInit => SmoIInv
<1> SUFFICES ASSUME SmoInit  PROVE SmoIInv
  OBVIOUS
<1>1. Replicas = {}
  BY DEF SmoInit, Replicas
<1>2. Used = 0
  BY <1>1, FS_EmptySet DEF Used
<1> QED
  BY <1>2, OutcomeInit, SmoAssumption DEF SmoInit, SmoIInv, DmsTypeOK

\* Both keep it.
LEMMA SmoNextInv == SmoIInv /\ [SmoNext]_smoVars => SmoIInv'
BY OutcomeNext, DmsNext DEF SmoIInv, OutcomeIInv

\* It gives what the run checks.
LEMMA SmoIInvImplies == SmoIInv => SmoTypeOK /\ OutcomeIsTrue
BY DEF SmoIInv, OutcomeIInv, DmsTypeOK, SmoTypeOK
-----------------------------------------------------------------------------
\* An event as the history keeps it.
HistoryRecord == [id : Nat, matched : SUBSET OSubs, delivered : SUBSET OSubs]

\* The history with its types.
OcnIInv == published \in Nat /\ history \in Seq(HistoryRecord) /\ HistoryIsTheNewest

\* The history starts empty.
LEMMA OcnInitInv == OcnInit => OcnIInv
BY SmoAssumption DEF OcnInit, OcnIInv, HistoryIsTheNewest

\* What is published last stands last, and the oldest goes when the limit is reached.
LEMMA OcnNextInv == OcnIInv /\ [OcnNext]_ocnVars => OcnIInv'
<1> SUFFICES ASSUME OcnIInv, [OcnNext]_ocnVars  PROVE OcnIInv'
  OBVIOUS
<1>1. ASSUME UNCHANGED <<history, published>>  PROVE OcnIInv'
  BY <1>1 DEF OcnIInv, HistoryIsTheNewest
<1>2. ASSUME NEW kind \in EventKinds, PublishEvent(kind)  PROVE OcnIInv'
  <2>1. PICK reached \in SUBSET {s \in OSubs : Matches(s, kind)} :
          history' = Trimmed(Append(history,
            [id |-> published + 1, matched |-> {s \in OSubs : Matches(s, kind)}, delivered |-> reached]))
    BY <1>2 DEF PublishEvent
  <2> DEFINE e == [id |-> published + 1, matched |-> {s \in OSubs : Matches(s, kind)}, delivered |-> reached]
             h == Append(history, e)
  <2>2. e \in HistoryRecord /\ e.id = published + 1 /\ e.delivered \subseteq e.matched
    BY DEF HistoryRecord, OcnIInv
  <2>3. published' = published + 1
    BY <1>2 DEF PublishEvent
  <2> HIDE DEF e
  <2>4. h \in Seq(HistoryRecord) /\ Len(h) = Len(history) + 1 /\ h[Len(h)] = e
        /\ \A i \in 1..Len(history) : h[i] = history[i]
    BY <2>2 DEF OcnIInv
  <2>5. \A i \in 1..Len(h) : h[i].id = published + 1 - Len(h) + i /\ h[i].delivered \subseteq h[i].matched
    <3> TAKE i \in 1..Len(h)
    <3>1. CASE i = Len(h)
      BY <3>1, <2>2, <2>4 DEF OcnIInv
    <3>2. CASE i # Len(h)
      <4>1. i \in 1..Len(history)
        BY <3>2, <2>4 DEF OcnIInv
      <4> QED
        BY <4>1, <2>4 DEF OcnIInv, HistoryIsTheNewest
    <3> QED
      BY <3>1, <3>2
  <2> HIDE DEF h
  <2>6. Len(h) = (IF published < MaxHistory THEN published ELSE MaxHistory) + 1
    BY <2>4 DEF OcnIInv, HistoryIsTheNewest
  <2>7. history' = Trimmed(h)
    BY <2>1 DEF h, e
  <2>8. CASE Len(h) > MaxHistory
    <3>1. Len(h) = MaxHistory + 1 /\ ~(published + 1 < MaxHistory)
      BY <2>6, <2>8, SmoAssumption DEF OcnIInv
    <3>2. history' = SubSeq(h, 2, MaxHistory + 1)
      BY <2>7, <2>8, <3>1, SmoAssumption DEF Trimmed
    <3>3. history' \in Seq(HistoryRecord) /\ Len(history') = MaxHistory
          /\ \A i \in 1..MaxHistory : history'[i] = h[i + 1]
      BY <3>1, <3>2, <2>4, SmoAssumption
    <3>4. ASSUME NEW i \in 1..MaxHistory
          PROVE  history'[i].id = published + 1 - MaxHistory + i /\ history'[i].delivered \subseteq history'[i].matched
      <4>1. i + 1 \in 1..Len(h)
        BY <3>1, SmoAssumption
      <4>2. h[i + 1].id = published + 1 - Len(h) + (i + 1) /\ h[i + 1].delivered \subseteq h[i + 1].matched
        BY <4>1, <2>5
      <4>3. published + 1 - Len(h) + (i + 1) = published + 1 - MaxHistory + i
        BY <3>1, SmoAssumption DEF OcnIInv
      <4> QED
        BY <4>2, <4>3, <3>3
    <3>5. Len(history') = IF published' < MaxHistory THEN published' ELSE MaxHistory
      BY <2>3, <3>1, <3>3
    <3>6. \A i \in 1..Len(history') : /\ history'[i].id = published' - Len(history') + i
                                      /\ history'[i].delivered \subseteq history'[i].matched
      <4> SUFFICES ASSUME NEW i \in 1..Len(history')
                   PROVE  /\ history'[i].id = published' - Len(history') + i
                          /\ history'[i].delivered \subseteq history'[i].matched
        OBVIOUS
      <4>1. i \in 1..MaxHistory /\ Len(history') = MaxHistory
        BY <3>3
      <4>2. history'[i].id = published + 1 - MaxHistory + i /\ history'[i].delivered \subseteq history'[i].matched
        BY <4>1, <3>4
      <4> QED
        BY <4>1, <4>2, <2>3, SmoAssumption DEF OcnIInv
    <3>7. published' \in Nat
      BY <2>3 DEF OcnIInv
    <3> QED
      BY <3>3, <3>5, <3>6, <3>7 DEF OcnIInv, HistoryIsTheNewest
  <2>9. CASE ~(Len(h) > MaxHistory)
    <3>1. history' = h
      BY <2>7, <2>9 DEF Trimmed
    <3>2. Len(h) = IF published + 1 < MaxHistory THEN published + 1 ELSE MaxHistory
      BY <2>6, <2>9, SmoAssumption DEF OcnIInv
    <3> QED
      BY <2>3, <2>4, <2>5, <3>1, <3>2 DEF OcnIInv, HistoryIsTheNewest
  <2> QED
    BY <2>8, <2>9
<1>3. ASSUME NEW a \in Alarms, CreateAlarm(a) \/ \E k, l \in BOOLEAN : PatchAlarm(a, k, l)  PROVE OcnIInv'
  BY <1>1, <1>3 DEF CreateAlarm, PatchAlarm
<1>4. ASSUME NEW s \in OSubs, DeleteSubscription(s) \/ \E kinds \in SUBSET EventKinds : CreateSubscription(s, kinds)
      PROVE  OcnIInv'
  BY <1>1, <1>4 DEF DeleteSubscription, CreateSubscription
<1>5. CASE UNCHANGED ocnVars
  BY <1>1, <1>5 DEF ocnVars
<1> QED
  BY <1>2, <1>3, <1>4, <1>5 DEF OcnNext

-----------------------------------------------------------------------------
(* Service assurance.                                                       *)

\* An open anomaly.
AnomalyRecord == [severity : {"critical", "major", "warning"}, saw : (SUBSET Kqis) \cup {NotYet}]

\* Service assurance with its types; an anomaly saw nothing before it was analysed.
AssIInv ==
  /\ window \in [Kqis -> Totals]
  /\ cachedKqi \in [Kqis -> Nat \cup {NotYet}]
  /\ toCheck \subseteq Checked /\ toAnalyze \subseteq Kqis
  /\ averages \in [Kqis -> Seq(Nat \cup {NotYet})] /\ \A k \in Kqis : Len(averages[k]) <= Window
  /\ violations \in [DOMAIN violations -> (SUBSET Kqis) \cup {NotYet}]
  /\ DOMAIN violations \subseteq Slas \X Kqis
  /\ anomalies \in [DOMAIN anomalies -> AnomalyRecord]
  /\ DOMAIN anomalies \subseteq Kqis \X {"SPIKE", "DROP"}
  /\ AnalysesSeeTheirTrigger

\* Nothing has been measured at the start.
LEMMA AssInitInv == AssInit => AssIInv
BY AssuranceAssumption DEF AssInit, AssIInv, AnalysesSeeTheirTrigger, Absent

\* The value of a KQI is a number, whatever was counted.
LEMMA KqiValueIsANumber ==
  ASSUME NEW k \in Kqis, NEW total \in Totals
  PROVE  ValueOf(k, total) \in Nat
<1>1. PICK base \in Nat, counted \in Nat : total = <<base, counted>>
  BY AssuranceAssumption
<1>2. CASE base = 0
  BY <1>1, <1>2 DEF ValueOf
<1>3. CASE base # 0
  <2>1. ValueOf(k, total) = (counted * 100) \div base
    BY <1>1, <1>3 DEF ValueOf
  <2>2. counted * 100 \in Nat /\ base \in Nat \ {0}
    BY <1>1, <1>3
  <2>3. \A m \in Nat, n \in Nat \ {0} : m \div n \in Nat
    OBVIOUS
  <2> QED
    BY <2>1, <2>2, <2>3
<1> QED
  BY <1>2, <1>3

\* What a root-cause analysis names are KQIs.
LEMMA AffectedAreKqis ==
  ASSUME NEW open \in SUBSET (Slas \X Kqis), NEW odd \in SUBSET (Kqis \X {"SPIKE", "DROP"})
  PROVE  /\ AffectedMetrics(open, odd) \in SUBSET Kqis /\ AffectedMetrics(open, odd) # NotYet
         /\ \A key \in open : key[2] \in AffectedMetrics(open, odd)
         /\ \A key \in odd : key[1] \in AffectedMetrics(open, odd)
BY AssuranceAssumption DEF AffectedMetrics

\* Every step of the two monitors and of who registers keeps the invariant.
LEMMA AssNextInv == AssIInv /\ [AssNext]_assVars => AssIInv'
<1> SUFFICES ASSUME AssIInv, [AssNext]_assVars  PROVE AssIInv'
  OBVIOUS
<1>a. \A k \in Kqis, total \in Totals : ValueOf(k, total) \in Nat
  BY KqiValueIsANumber
<1>0. \A k \in Kqis : KqiValue(k) \in Nat
  BY <1>a DEF AssIInv, KqiValue
<1>1. ASSUME NEW k \in Kqis, Collect(k)  PROVE AssIInv'
  BY <1>1 DEF Collect, AssIInv, AnalysesSeeTheirTrigger
<1>2. CASE ComputeAll
  BY <1>0, <1>2 DEF ComputeAll, AssIInv, AnalysesSeeTheirTrigger
<1>b. ASSUME NEW k \in Kqis, NEW total \in Totals, ComputeOver(k, total)  PROVE AssIInv'
  BY <1>a, <1>b DEF ComputeOver, AssIInv, AnalysesSeeTheirTrigger
<1>3. CASE SlaRoundStarts
  BY <1>3 DEF SlaRoundStarts, AssIInv, AnalysesSeeTheirTrigger
<1>4. CASE AnomalyRoundStarts
  BY <1>0, <1>4 DEF AnomalyRoundStarts, AssIInv, AnalysesSeeTheirTrigger
<1>5. ASSUME NEW c \in toCheck, CheckThreshold(c)  PROVE AssIInv'
  <2>1. c \in Checked
    BY DEF AssIInv
  <2>2. PICK sla \in Slas, t \in UNION {s.thresholds : s \in Slas} : c = <<sla, t>> /\ t \in sla.thresholds
    BY <2>1 DEF Checked, Checks
  <2> DEFINE k == t.kqi
             key == <<sla, k>>
             value == IF cachedKqi[k] = NotYet THEN KqiValue(k) ELSE cachedKqi[k]
             open == DOMAIN violations \cup {key}
             seen == IF sla.severity \in {"critical", "major"}
                     THEN AffectedMetrics(open, DOMAIN anomalies) ELSE NotYet
  <2>3. k \in Kqis /\ key \in Slas \X Kqis
    BY <2>2, AssuranceAssumption
  <2>4. value \in Nat /\ cachedKqi' = [cachedKqi EXCEPT ![k] = value]
    <3>1. value \in Nat
      BY <1>0, <2>3 DEF AssIInv
    <3> QED
      BY <3>1, <1>5, <2>2 DEF CheckThreshold
  <2>5. open \in SUBSET (Slas \X Kqis) /\ DOMAIN anomalies \in SUBSET (Kqis \X {"SPIKE", "DROP"})
    BY <2>3 DEF AssIInv
  <2>6. seen \in (SUBSET Kqis) \cup {NotYet}
        /\ (sla.severity \in {"critical", "major"} => seen # NotYet /\ k \in seen)
    <3> DEFINE am == AffectedMetrics(open, DOMAIN anomalies)
    <3>1. key \in open /\ key[2] = k
      OBVIOUS
    <3> HIDE DEF key, open
    <3>2. am \in SUBSET Kqis /\ am # NotYet /\ \A x \in open : x[2] \in am
      BY ONLY <2>5, AffectedAreKqis
    <3>3. key[2] \in am
      BY <3>1, <3>2
    <3>4. seen = IF sla.severity \in {"critical", "major"} THEN am ELSE NotYet
      OBVIOUS
    <3> HIDE DEF am, seen
    <3>5. CASE sla.severity \in {"critical", "major"}
      <4>1. seen = am
        BY <3>4, <3>5
      <4> QED
        BY ONLY <4>1, <3>1, <3>2, <3>3
    <3>6. CASE sla.severity \notin {"critical", "major"}
      <4>1. seen = NotYet
        BY <3>4, <3>6
      <4> QED
        BY ONLY <4>1, <3>6
    <3> QED
      BY <3>5, <3>6
  <2>7. violations' = IF ~Breaches(t, value)
                      THEN [x \in DOMAIN violations \ {key} |-> violations[x]]
                      ELSE IF key \in DOMAIN violations THEN violations
                      ELSE Opened(violations, key, seen)
    BY <1>5, <2>2 DEF CheckThreshold
  <2>8. UNCHANGED <<window, toAnalyze, averages, anomalies>> /\ toCheck' \subseteq toCheck
    BY <1>5 DEF CheckThreshold
  <2> HIDE DEF value, seen
  <2>9. CASE ~Breaches(t, value)
    BY <2>4, <2>7, <2>8, <2>9, <2>3 DEF AssIInv, AnalysesSeeTheirTrigger
  <2>10. CASE Breaches(t, value) /\ key \in DOMAIN violations
    BY <2>4, <2>7, <2>8, <2>10, <2>3 DEF AssIInv, AnalysesSeeTheirTrigger
  <2>11. CASE Breaches(t, value) /\ key \notin DOMAIN violations
    <3>1. violations' = [x \in DOMAIN violations \cup {key} |-> IF x \in DOMAIN violations THEN violations[x] ELSE seen]
      BY <2>7, <2>11 DEF Opened
    <3> QED
      BY <3>1, <2>3, <2>4, <2>6, <2>8 DEF AssIInv, AnalysesSeeTheirTrigger
  <2> QED
    BY <2>9, <2>10, <2>11
<1>6. ASSUME NEW k \in Kqis, AnalyzeKqi(k)  PROVE AssIInv'
  <2> DEFINE recent == averages[k] \o <<cachedKqi[k]>>
             values == IF Len(recent) > Window THEN Tail(recent) ELSE recent
             key == <<k, AnomalyType(values)>>
             found == Severity(values)
             odd == DOMAIN anomalies \cup {key}
             seen == IF found = "critical" THEN AffectedMetrics(DOMAIN violations, odd) ELSE NotYet
  <2>1. values \in Seq(Nat \cup {NotYet}) /\ Len(values) <= Window
    <3>1. recent \in Seq(Nat \cup {NotYet}) /\ Len(recent) = Len(averages[k]) + 1
      BY DEF AssIInv
    <3>2. Len(averages[k]) <= Window /\ Len(averages[k]) \in Nat
      BY DEF AssIInv
    <3> HIDE DEF recent
    <3> QED
      BY <3>1, <3>2, AssuranceAssumption
  <2>2. key \in Kqis \X {"SPIKE", "DROP"}
    BY DEF AnomalyType
  <2>3. found \in {"none", "critical", "major", "warning"}
    BY DEF Severity
  <2>4. UNCHANGED <<window, cachedKqi, toCheck, violations>> /\ toAnalyze' \subseteq toAnalyze
        /\ averages' = [averages EXCEPT ![k] = values]
    BY <1>6 DEF AnalyzeKqi
  <2>5. anomalies' =
          IF found = "none" THEN anomalies
          ELSE IF key \in DOMAIN anomalies
          THEN [anomalies EXCEPT ![key].severity = IF WordAfter(found, @) THEN found ELSE @]
          ELSE Opened(anomalies, key, [severity |-> found, saw |-> seen])
    BY <1>6 DEF AnalyzeKqi
  <2>6. seen \in (SUBSET Kqis) \cup {NotYet} /\ (seen # NotYet => key[1] \in seen)
    <3>1. odd \in SUBSET (Kqis \X {"SPIKE", "DROP"}) /\ DOMAIN violations \in SUBSET (Slas \X Kqis)
      BY <2>2 DEF AssIInv
    <3> DEFINE am == AffectedMetrics(DOMAIN violations, odd)
    <3>2. key \in odd
      OBVIOUS
    <3>3. seen = IF found = "critical" THEN am ELSE NotYet
      OBVIOUS
    <3> HIDE DEF key, odd, found
    <3>4. am \in SUBSET Kqis /\ \A x \in odd : x[1] \in am
      BY ONLY <3>1, AffectedAreKqis
    <3> HIDE DEF am, seen
    <3>5. CASE found = "critical"
      <4>1. seen = am
        BY <3>3, <3>5
      <4> QED
        BY ONLY <4>1, <3>2, <3>4
    <3>6. CASE found # "critical"
      <4>1. seen = NotYet
        BY <3>3, <3>6
      <4> QED
        BY ONLY <4>1
    <3> QED
      BY <3>5, <3>6
  <2> HIDE DEF values, found, seen, key
  <2>7. averages' \in [Kqis -> Seq(Nat \cup {NotYet})] /\ \A q \in Kqis : Len(averages'[q]) <= Window
    BY <2>1, <2>4 DEF AssIInv
  <2>8. /\ anomalies' \in [DOMAIN anomalies' -> AnomalyRecord]
        /\ DOMAIN anomalies' \subseteq Kqis \X {"SPIKE", "DROP"}
        /\ \A x \in DOMAIN anomalies' : anomalies'[x].saw # NotYet => x[1] \in anomalies'[x].saw
    <3>1. CASE found = "none"
      BY <3>1, <2>5 DEF AssIInv, AnalysesSeeTheirTrigger
    <3>2. CASE found # "none" /\ key \in DOMAIN anomalies
      <4>1. PICK a \in AnomalyRecord : anomalies[key] = a
        BY <3>2 DEF AssIInv
      <4>2. PICK s \in {"critical", "major", "warning"} : s = IF WordAfter(found, a.severity) THEN found ELSE a.severity
        BY <4>1, <3>2, <2>3 DEF AnomalyRecord
      <4>3. anomalies' = [anomalies EXCEPT ![key] = [a EXCEPT !.severity = s]]
        BY <4>1, <4>2, <3>2, <2>5
      <4>4. [a EXCEPT !.severity = s] \in AnomalyRecord /\ [a EXCEPT !.severity = s].saw = a.saw
        BY DEF AnomalyRecord
      <4> QED
        BY <4>1, <4>3, <4>4, <3>2 DEF AssIInv, AnalysesSeeTheirTrigger
    <3>3. CASE found # "none" /\ key \notin DOMAIN anomalies
      <4> DEFINE new == [severity |-> found, saw |-> seen]
      <4>1. new \in AnomalyRecord /\ new.saw = seen
        BY <3>3, <2>3, <2>6 DEF AnomalyRecord
      <4> HIDE DEF new
      <4>2. anomalies' = [x \in DOMAIN anomalies \cup {key} |-> IF x \in DOMAIN anomalies THEN anomalies[x] ELSE new]
        BY <2>5, <3>3 DEF Opened, new
      <4> QED
        BY <4>1, <4>2, <2>2, <2>6 DEF AssIInv, AnalysesSeeTheirTrigger
    <3> QED
      BY <3>1, <3>2, <3>3
  <2> QED
    BY <2>4, <2>7, <2>8 DEF AssIInv, AnalysesSeeTheirTrigger
<1>7. CASE UNCHANGED assVars
  BY <1>7 DEF assVars, AssIInv, AnalysesSeeTheirTrigger
<1> QED
  BY <1>1, <1>2, <1>b, <1>3, <1>4, <1>5, <1>6, <1>7 DEF AssNext

\* It gives what the run checks.
LEMMA AssIInvImplies == AssIInv => AssTypeOK /\ AnalysesSeeTheirTrigger
BY DEF AssIInv, AssTypeOK

-----------------------------------------------------------------------------
(* The xApp SDK and its RIC.                                                *)

\* Before start() has the list of nodes.
Early    == owner \in {"new", "registering", "listing"}

\* Once stop() is called.
Stopping == owner \in {"stopping", "unregistering", "stopped"}

\* The RIC has unregistered the xApp.
Gone == xappKnown /\ ~ricKnows

\* Nodes not subscribed to yet, or just about to be.
Fresh == 1..nodesLeft \cup {i \in SubIds : sdkCall.kind = "subscribe" /\ sdkCall.id = i}

\* Which call belongs to which state of the owner.
CallsFitTheOwner ==
  /\ sdkCall.kind = "register"    <=> owner = "registering"
  /\ sdkCall.kind = "unregister"  <=> owner = "unregistering"
  /\ sdkCall.kind = "subscribe"   => owner = "subscribing" /\ sdkCall.id = nodesLeft + 1
  /\ sdkCall.kind = "unsubscribe" => owner = "stopping" /\ sdkCall.id \in SubIds

\* The requests that may still reach the RIC.
LateCalls ==
  \A c \in late :
    /\ c.kind = "register"    => ~xappKnown /\ owner \notin {"new", "registering"}
    /\ c.kind = "unregister"  => xappKnown /\ owner = "stopped"
    /\ c.kind = "subscribe"   => c.id \in lost
    /\ c.kind = "unsubscribe" => c.id \in unseen

\* Who knows of the registration.
Registration ==
  /\ owner \in {"new", "registering"} => ~xappKnown
  /\ sdkCall.kind = "register" /\ sdkCall.seen => ricKnows
  /\ owner = "unregistering" => xappKnown
  /\ Gone => owner \in {"unregistering", "stopped"} /\ ricSubs \subseteq cleanup \cup afterwards
  /\ cleanup # {} => Gone

\* The dictionary fills once and empties once.
Dictionary ==
  /\ Early => sdkSubs = <<>> /\ nodesLeft = 0 /\ \A r \in Rounds : round[r].owed = {}
  /\ ~Stopping => \A n \in DOMAIN sdkSubs : sdkSubs[n] # Deleted
  /\ Len(sdkSubs) + nodesLeft + (IF sdkCall.kind = "subscribe" THEN 1 ELSE 0) <= MaxSubs
  /\ Listed \cap Fresh = {} /\ \A r \in Rounds : round[r].owed \cap Fresh = {}

\* The two sides agree up to the call that is being answered.
BothSides ==
  /\ Listed \subseteq ricSubs \cup unseen \cup (IF Gone THEN SubIds ELSE {})
       \cup {i \in SubIds : sdkCall.kind = "unsubscribe" /\ sdkCall.id = i /\ sdkCall.seen /\ sdkCall.ok}
  /\ ricSubs \subseteq Listed \cup lost
       \cup {i \in SubIds : sdkCall.kind = "subscribe" /\ sdkCall.id = i /\ sdkCall.seen /\ sdkCall.ok}
  /\ sdkCall.kind = "subscribe" /\ sdkCall.seen /\ sdkCall.ok =>
       sdkCall.id \in ricSubs \cup unseen \/ Gone
  /\ sdkCall.kind = "unsubscribe" /\ sdkCall.seen /\ sdkCall.ok => sdkCall.id \notin ricSubs \/ sdkCall.id \in lost

\* A round under way has sent to, or has still before it, what it owes.
RoundGoesOn(r) ==
  /\ round[r].next <= Len(sdkSubs) + 1
  /\ round[r].at = "sending" =>
       \A i \in round[r].owed \cap Listed :
         i \in round[r].sent \/ \E n \in DOMAIN sdkSubs : n >= round[r].next /\ sdkSubs[n] = i
  /\ round[r].at = "done" => round[r].owed \cap Listed \subseteq round[r].sent

\* The xApp and the RIC, and each round of controls.
SdkIInv ==
  /\ SdkTypeOK /\ CallsFitTheOwner /\ LateCalls /\ Registration /\ Dictionary /\ BothSides
  /\ \A r \in Rounds : RoundGoesOn(r)

\* A finite set of numbers that is not empty has a least one.
LEMMA NatSetHasLeast ==
  ASSUME NEW S \in SUBSET Nat, IsFiniteSet(S), S # {}
  PROVE  \E m \in S : \A j \in S : m <= j
<1> DEFINE Below(x) == {y \in S : y < x}
           T == {Below(x) : x \in S}
<1>1. T # {} /\ T \subseteq FiniteSubsetsOf(S)
  <2>1. PICK x \in S : TRUE
    OBVIOUS
  <2>2. Below(x) \in T
    BY <2>1
  <2>3. \A V \in T : \A y \in V : y \in S
    OBVIOUS
  <2>4. T \subseteq SUBSET S
    BY <2>3
  <2> QED
    BY <2>2, <2>4, FS_FiniteSubsetsOfFinite
<1>2. PICK U \in T : \A V \in T : <<V, U>> \notin StrictSubsetOrdering(S)
  <2> HIDE DEF T
  <2> QED
    BY <1>1, WFMin, FS_StrictSubsetOrderingWellFounded
<1>3. PICK m \in S : U = Below(m)
  BY <1>2
<1>4. ASSUME NEW j \in S, j < m
      PROVE  FALSE
  <2>0. j \in Nat /\ m \in Nat /\ j < m /\ \A y \in S : y \in Nat
    BY <1>4
  <2>1. Below(j) \subseteq Below(m) /\ j \in Below(m) /\ j \notin Below(j)
    <3>1. j \in Below(m) /\ j \notin Below(j)
      BY <2>0
    <3>2. ASSUME NEW y \in Below(j)
          PROVE  y \in Below(m)
      <4>1. y \in S /\ y \in Nat /\ y < j
        BY <2>0
      <4> QED
        BY <2>0, <4>1
    <3> QED
      BY <3>1, <3>2
  <2>2. <<Below(j), U>> \in StrictSubsetOrdering(S)
    BY <1>3, <2>1 DEF StrictSubsetOrdering
  <2>3. Below(j) \in T
    BY <1>4
  <2> QED
    BY <1>2, <2>2, <2>3
<1> QED
  <2>1. \A j \in S : ~(j < m)
    BY <1>4
  <2> QED
    BY <2>1

-----------------------------------------------------------------------------
\* The dictionary lists nodes, and no more than there are.
LEMMA ListedAreNodes ==
  ASSUME SdkTypeOK
  PROVE  Listed \subseteq SubIds /\ Cardinality(Listed) \in 0..MaxSubs
<1>1. Listed \subseteq SubIds
  BY DEF SdkTypeOK, Listed, Range
<1>2. IsFiniteSet(1..MaxSubs) /\ Cardinality(1..MaxSubs) = MaxSubs
  <2>1. MaxSubs \in Nat \ {0}
    BY XappSdkAssumption
  <2>2. 1 \in Int /\ MaxSubs \in Int /\ ~(1 > MaxSubs) /\ MaxSubs - 1 + 1 = MaxSubs
    BY <2>1
  <2> QED
    BY ONLY <2>2, FS_Interval
<1>3. Cardinality(Listed) \in Nat /\ Cardinality(Listed) <= MaxSubs
  <2>1. IsFiniteSet(Listed) /\ Cardinality(Listed) <= Cardinality(1..MaxSubs)
    BY <1>1, <1>2, FS_Subset DEF SubIds
  <2> QED
    BY <1>2, <2>1, FS_CardinalityType
<1> QED
  BY <1>1, <1>3, XappSdkAssumption

\* The xApp starts unknown to the RIC.
LEMMA SdkInitInv == SdkInit => SdkIInv
<1> SUFFICES ASSUME SdkInit  PROVE SdkIInv
  OBVIOUS
<1> USE XappSdkAssumption DEF SdkInit
<1>1. Listed = {} /\ Len(sdkSubs) = 0
  BY DEF Listed, Range
<1>2. Idle \in RoundStates
  BY DEF Idle, RoundStates
<1>3. SdkTypeOK
  <2>1. round \in [Rounds -> RoundStates] /\ sdkSubs \in Seq(SubIds \cup {Deleted}) /\ victims \in Seq(SubIds)
    BY <1>2
  <2>2. {ricSubs, cleanup, lost, unseen, afterwards} \subseteq SUBSET SubIds
    OBVIOUS
  <2>3. 0 \in 0..MaxSubs /\ Len(sdkSubs) <= MaxSubs
    BY <1>1
  <2>4. /\ owner = "new" /\ xappKnown = FALSE /\ ricKnows = FALSE /\ nodesLeft = 0 /\ late = {}
        /\ sdkCall = NoCall
    OBVIOUS
  <2> QED
    BY ONLY <2>1, <2>2, <2>3, <2>4 DEF SdkTypeOK
<1>4. CallsFitTheOwner /\ LateCalls /\ Registration
  BY DEF CallsFitTheOwner, LateCalls, Registration, NoCall, Gone
<1>5. \A r \in Rounds : round[r].owed = {} /\ round[r].at = "idle" /\ round[r].next = 1
  BY DEF Idle
<1>6. Dictionary
  BY <1>1, <1>5 DEF Dictionary, Early, Stopping, NoCall
<1>7. BothSides
  BY <1>1 DEF BothSides, NoCall
<1>8. \A r \in Rounds : RoundGoesOn(r)
  BY <1>1, <1>5 DEF RoundGoesOn
<1> QED
  BY <1>3, <1>4, <1>6, <1>7, <1>8 DEF SdkIInv

\* What the handling of a request does, by its kind.
LEMMA HandledByKind ==
  ASSUME SdkTypeOK, NEW c \in SdkCalls, NEW ok \in BOOLEAN, Handled(c, ok),
         c.kind \in {"subscribe", "unsubscribe"} => c.id \in SubIds
  PROVE  /\ ricSubs' \subseteq SubIds /\ ricKnows' \in BOOLEAN
         /\ cleanup' \subseteq SubIds /\ afterwards' \subseteq SubIds
         /\ c.kind = "register" => ok /\ ricKnows' /\ UNCHANGED <<ricSubs, cleanup, afterwards>>
         /\ c.kind = "subscribe" =>
              /\ ricSubs' = IF ok THEN ricSubs \cup {c.id} ELSE ricSubs
              /\ afterwards \subseteq afterwards'
              /\ ok /\ owner \in {"unregistering", "stopped"} /\ ~ricKnows => c.id \in afterwards'
              /\ UNCHANGED <<ricKnows, cleanup>>
         /\ c.kind = "unsubscribe" =>
              ok = (c.id \in ricSubs) /\ ricSubs' = ricSubs \ {c.id} /\ UNCHANGED <<ricKnows, cleanup, afterwards>>
         /\ c.kind = "unregister" =>
              /\ ~ricKnows' /\ UNCHANGED <<ricSubs, afterwards>>
              /\ cleanup' = IF ricKnows /\ xappKnown THEN cleanup \cup ricSubs ELSE cleanup
<1>1. CASE c.kind = "register"
  BY <1>1 DEF SdkTypeOK, Handled
<1>2. CASE c.kind = "subscribe"
  BY <1>2 DEF SdkTypeOK, Handled
<1>3. CASE c.kind = "unsubscribe"
  BY <1>3 DEF SdkTypeOK, Handled
<1>4. CASE c.kind = "unregister"
  BY <1>4 DEF SdkTypeOK, Handled, UnregisterXapp
<1> QED
  BY <1>1, <1>2, <1>3, <1>4 DEF SdkCalls

\* Every step of the owner, of the RIC, of the network and of a round keeps the invariant.
LEMMA SdkNextInv == SdkIInv /\ [SdkNext]_sdkVars => SdkIInv'
<1> SUFFICES ASSUME SdkIInv, [SdkNext]_sdkVars  PROVE SdkIInv'
  OBVIOUS
<1> USE XappSdkAssumption
<1>1. ASSUME Start  PROVE SdkIInv'
  <2>1. SdkTypeOK'
    BY <1>1 DEF SdkIInv, SdkTypeOK, Start, ricSide, Called, SdkCalls, NoCall, Resumed, SubIds
  <2>2. CallsFitTheOwner'
    BY <1>1 DEF SdkIInv, SdkTypeOK, CallsFitTheOwner, Start, ricSide, Called, SdkCalls, NoCall, Resumed, SubIds
  <2>3. LateCalls'
    BY <1>1 DEF SdkIInv, SdkTypeOK, CallsFitTheOwner, LateCalls, Registration, Start, ricSide, Called, SdkCalls, NoCall, Resumed
  <2>4. Registration'
    BY <1>1 DEF SdkIInv, SdkTypeOK, CallsFitTheOwner, LateCalls, Registration, Gone, Start, ricSide, Called, SdkCalls, NoCall, Resumed
  <2>5. Dictionary'
    BY <1>1 DEF SdkIInv, SdkTypeOK, CallsFitTheOwner, Dictionary, Listed, Fresh, Early, Stopping, Start, ricSide, Called, SdkCalls, NoCall, Resumed
  <2>6. BothSides'
    BY <1>1 DEF SdkIInv, SdkTypeOK, CallsFitTheOwner, LateCalls, Registration, BothSides, Gone, Listed, Start, ricSide, Called, SdkCalls, NoCall, Resumed
  <2>7. ASSUME NEW q \in Rounds  PROVE RoundGoesOn(q)'
    BY <1>1 DEF SdkIInv, RoundGoesOn, Listed, Start, ricSide
  <2> QED
    BY <2>1, <2>2, <2>3, <2>4, <2>5, <2>6, <2>7 DEF SdkIInv
<1>2. ASSUME ListNodes  PROVE SdkIInv'
  <2>1. SdkTypeOK'
    BY <1>2 DEF SdkIInv, SdkTypeOK, ListNodes, ricSide, Called, SdkCalls, NoCall, Resumed, SubIds
  <2>2. CallsFitTheOwner'
    BY <1>2 DEF SdkIInv, SdkTypeOK, CallsFitTheOwner, ListNodes, ricSide, Called, SdkCalls, NoCall, Resumed, SubIds
  <2>3. LateCalls'
    BY <1>2 DEF SdkIInv, SdkTypeOK, CallsFitTheOwner, LateCalls, Registration, ListNodes, ricSide, Called, SdkCalls, NoCall, Resumed
  <2>4. Registration'
    BY <1>2 DEF SdkIInv, SdkTypeOK, CallsFitTheOwner, LateCalls, Registration, Gone, ListNodes, ricSide, Called, SdkCalls, NoCall, Resumed
  <2>5. Dictionary'
    <3>1. sdkSubs' = <<>> /\ (\A r \in Rounds : round'[r].owed = {}) /\ nodesLeft' \in 0..MaxSubs
          /\ sdkCall' = NoCall /\ owner' = "subscribing"
      BY <1>2 DEF ListNodes, SdkIInv, Dictionary, Early
    <3>2. Listed' = {} /\ Len(sdkSubs') = 0 /\ DOMAIN sdkSubs' = {}
      BY <3>1 DEF Listed, Range
    <3>3. Len(sdkSubs') + nodesLeft' + (IF sdkCall'.kind = "subscribe" THEN 1 ELSE 0) <= MaxSubs
      <4>1. sdkCall'.kind = "none"
        BY ONLY <3>1 DEF NoCall
      <4>2. MaxSubs \in Nat
        BY ONLY XappSdkAssumption
      <4>3. nodesLeft' \in 0..MaxSubs
        BY ONLY <3>1
      <4>4. (IF sdkCall'.kind = "subscribe" THEN 1 ELSE 0) = 0
        BY ONLY <4>1
      <4>5. PICK k \in Int : nodesLeft' = k /\ k <= MaxSubs
        BY ONLY <4>2, <4>3
      <4>6. 0 + k + 0 = k
        OBVIOUS
      <4> QED
        BY ONLY <3>2, <4>4, <4>5, <4>6, Zenon
    <3>4. ~Early'
      BY ONLY <3>1 DEF Early
    <3> QED
      BY ONLY <3>1, <3>2, <3>3, <3>4 DEF Dictionary
  <2>6. BothSides'
    BY <1>2 DEF SdkIInv, SdkTypeOK, CallsFitTheOwner, LateCalls, Registration, BothSides, Gone, Listed, ListNodes, ricSide, Called, SdkCalls, NoCall, Resumed
  <2>7. ASSUME NEW q \in Rounds  PROVE RoundGoesOn(q)'
    BY <1>2 DEF SdkIInv, RoundGoesOn, Listed, ListNodes, ricSide
  <2> QED
    BY <2>1, <2>2, <2>3, <2>4, <2>5, <2>6, <2>7 DEF SdkIInv
<1>3. ASSUME Subscribe  PROVE SdkIInv'
  <2>1. SdkTypeOK'
    BY <1>3 DEF SdkIInv, SdkTypeOK, Subscribe, ricSide, Called, SdkCalls, NoCall, Resumed, SubIds
  <2>2. CallsFitTheOwner'
    BY <1>3 DEF SdkIInv, SdkTypeOK, CallsFitTheOwner, Subscribe, ricSide, Called, SdkCalls, NoCall, Resumed, SubIds
  <2>3. LateCalls'
    BY <1>3 DEF SdkIInv, SdkTypeOK, CallsFitTheOwner, LateCalls, Registration, Subscribe, ricSide, Called, SdkCalls, NoCall, Resumed
  <2>4. Registration'
    BY <1>3 DEF SdkIInv, SdkTypeOK, CallsFitTheOwner, LateCalls, Registration, Gone, Subscribe, ricSide, Called, SdkCalls, NoCall, Resumed
  <2>5. Dictionary'
    BY <1>3 DEF SdkIInv, SdkTypeOK, CallsFitTheOwner, Dictionary, Listed, Fresh, Early, Stopping, Subscribe, ricSide, Called, SdkCalls, NoCall, Resumed
  <2>6. BothSides'
    BY <1>3 DEF SdkIInv, SdkTypeOK, CallsFitTheOwner, LateCalls, Registration, BothSides, Gone, Listed, Subscribe, ricSide, Called, SdkCalls, NoCall, Resumed
  <2>7. ASSUME NEW q \in Rounds  PROVE RoundGoesOn(q)'
    BY <1>3 DEF SdkIInv, RoundGoesOn, Listed, Subscribe, ricSide
  <2> QED
    BY <2>1, <2>2, <2>3, <2>4, <2>5, <2>6, <2>7 DEF SdkIInv
<1>4. ASSUME Started  PROVE SdkIInv'
  <2>1. SdkTypeOK'
    BY <1>4 DEF SdkIInv, SdkTypeOK, Started, ricSide, Called, SdkCalls, NoCall, Resumed, SubIds
  <2>2. CallsFitTheOwner'
    BY <1>4 DEF SdkIInv, SdkTypeOK, CallsFitTheOwner, Started, ricSide, Called, SdkCalls, NoCall, Resumed, SubIds
  <2>3. LateCalls'
    BY <1>4 DEF SdkIInv, SdkTypeOK, CallsFitTheOwner, LateCalls, Registration, Started, ricSide, Called, SdkCalls, NoCall, Resumed
  <2>4. Registration'
    BY <1>4 DEF SdkIInv, SdkTypeOK, CallsFitTheOwner, LateCalls, Registration, Gone, Started, ricSide, Called, SdkCalls, NoCall, Resumed
  <2>5. Dictionary'
    BY <1>4 DEF SdkIInv, SdkTypeOK, CallsFitTheOwner, Dictionary, Listed, Fresh, Early, Stopping, Started, ricSide, Called, SdkCalls, NoCall, Resumed
  <2>6. BothSides'
    BY <1>4 DEF SdkIInv, SdkTypeOK, CallsFitTheOwner, LateCalls, Registration, BothSides, Gone, Listed, Started, ricSide, Called, SdkCalls, NoCall, Resumed
  <2>7. ASSUME NEW q \in Rounds  PROVE RoundGoesOn(q)'
    BY <1>4 DEF SdkIInv, RoundGoesOn, Listed, Started, ricSide
  <2> QED
    BY <2>1, <2>2, <2>3, <2>4, <2>5, <2>6, <2>7 DEF SdkIInv
<1>5. ASSUME Stop  PROVE SdkIInv'
  <2>1. SdkTypeOK'
    <3>1. sdkSubs \in Seq(SubIds)
      <4>1. Len(sdkSubs) \in Nat /\ DOMAIN sdkSubs = 1..Len(sdkSubs)
            /\ \A n \in 1..Len(sdkSubs) : sdkSubs[n] \in SubIds
        BY <1>5 DEF Stop, SdkIInv, SdkTypeOK, Dictionary, Stopping
      <4>2. sdkSubs = [n \in 1..Len(sdkSubs) |-> sdkSubs[n]]
        BY <4>1 DEF SdkIInv, SdkTypeOK
      <4> QED
        BY <4>1, <4>2
    <3> QED
      BY <1>5, <3>1 DEF SdkIInv, SdkTypeOK, Stop, ricSide
  <2>2. CallsFitTheOwner'
    BY <1>5 DEF SdkIInv, SdkTypeOK, CallsFitTheOwner, Stop, ricSide, Called, SdkCalls, NoCall, Resumed, SubIds
  <2>3. LateCalls'
    BY <1>5 DEF SdkIInv, SdkTypeOK, CallsFitTheOwner, LateCalls, Registration, Stop, ricSide, Called, SdkCalls, NoCall, Resumed
  <2>4. Registration'
    BY <1>5 DEF SdkIInv, SdkTypeOK, CallsFitTheOwner, LateCalls, Registration, Gone, Stop, ricSide, Called, SdkCalls, NoCall, Resumed
  <2>5. Dictionary'
    BY <1>5 DEF SdkIInv, SdkTypeOK, CallsFitTheOwner, Dictionary, Listed, Fresh, Early, Stopping, Stop, ricSide, Called, SdkCalls, NoCall, Resumed
  <2>6. BothSides'
    BY <1>5 DEF SdkIInv, SdkTypeOK, CallsFitTheOwner, LateCalls, Registration, BothSides, Gone, Listed, Stop, ricSide, Called, SdkCalls, NoCall, Resumed
  <2>7. ASSUME NEW q \in Rounds  PROVE RoundGoesOn(q)'
    BY <1>5 DEF SdkIInv, RoundGoesOn, Listed, Stop, ricSide
  <2> QED
    BY <2>1, <2>2, <2>3, <2>4, <2>5, <2>6, <2>7 DEF SdkIInv
<1>6. ASSUME Unsubscribe  PROVE SdkIInv'
  <2>1. SdkTypeOK'
    BY <1>6 DEF SdkIInv, SdkTypeOK, Unsubscribe, ricSide, Called, SdkCalls, NoCall, Resumed, SubIds
  <2>2. CallsFitTheOwner'
    BY <1>6 DEF SdkIInv, SdkTypeOK, CallsFitTheOwner, Unsubscribe, ricSide, Called, SdkCalls, NoCall, Resumed, SubIds
  <2>3. LateCalls'
    BY <1>6 DEF SdkIInv, SdkTypeOK, CallsFitTheOwner, LateCalls, Registration, Unsubscribe, ricSide, Called, SdkCalls, NoCall, Resumed
  <2>4. Registration'
    BY <1>6 DEF SdkIInv, SdkTypeOK, CallsFitTheOwner, LateCalls, Registration, Gone, Unsubscribe, ricSide, Called, SdkCalls, NoCall, Resumed
  <2>5. Dictionary'
    BY <1>6 DEF SdkIInv, SdkTypeOK, CallsFitTheOwner, Dictionary, Listed, Fresh, Early, Stopping, Unsubscribe, ricSide, Called, SdkCalls, NoCall, Resumed
  <2>6. BothSides'
    BY <1>6 DEF SdkIInv, SdkTypeOK, CallsFitTheOwner, LateCalls, Registration, BothSides, Gone, Listed, Unsubscribe, ricSide, Called, SdkCalls, NoCall, Resumed
  <2>7. ASSUME NEW q \in Rounds  PROVE RoundGoesOn(q)'
    BY <1>6 DEF SdkIInv, RoundGoesOn, Listed, Unsubscribe, ricSide
  <2> QED
    BY <2>1, <2>2, <2>3, <2>4, <2>5, <2>6, <2>7 DEF SdkIInv
<1>7. ASSUME Unregister  PROVE SdkIInv'
  <2>1. SdkTypeOK'
    <3>1. CASE xappKnown
      <4>1. [kind |-> "unregister", id |-> 0, seen |-> FALSE, ok |-> FALSE] \in SdkCalls
        BY DEF SdkCalls
      <4> QED
        BY <1>7, <3>1, <4>1 DEF SdkIInv, SdkTypeOK, Unregister, ricSide, Called
    <3>2. CASE ~xappKnown
      BY <1>7, <3>2 DEF SdkIInv, SdkTypeOK, Unregister, ricSide
    <3> QED
      BY <3>1, <3>2
  <2>2. CallsFitTheOwner'
    BY <1>7 DEF SdkIInv, SdkTypeOK, CallsFitTheOwner, Unregister, ricSide, Called, SdkCalls, NoCall, Resumed, SubIds
  <2>3. LateCalls'
    BY <1>7 DEF SdkIInv, SdkTypeOK, CallsFitTheOwner, LateCalls, Registration, Unregister, ricSide, Called, SdkCalls, NoCall, Resumed
  <2>4. Registration'
    BY <1>7 DEF SdkIInv, SdkTypeOK, CallsFitTheOwner, LateCalls, Registration, Gone, Unregister, ricSide, Called, SdkCalls, NoCall, Resumed
  <2>5. Dictionary'
    BY <1>7 DEF SdkIInv, SdkTypeOK, CallsFitTheOwner, Dictionary, Listed, Fresh, Early, Stopping, Unregister, ricSide, Called, SdkCalls, NoCall, Resumed
  <2>6. BothSides'
    BY <1>7 DEF SdkIInv, SdkTypeOK, CallsFitTheOwner, LateCalls, Registration, BothSides, Gone, Listed, Unregister, ricSide, Called, SdkCalls, NoCall, Resumed
  <2>7. ASSUME NEW q \in Rounds  PROVE RoundGoesOn(q)'
    BY <1>7 DEF SdkIInv, RoundGoesOn, Listed, Unregister, ricSide
  <2> QED
    BY <2>1, <2>2, <2>3, <2>4, <2>5, <2>6, <2>7 DEF SdkIInv
<1>8. ASSUME SdkAnswered  PROVE SdkIInv'
  <2> DEFINE k == sdkCall.kind
             i == sdkCall.id
  <2>a. PICK c \in SdkCalls : sdkCall = c /\ c.seen
    BY <1>8 DEF SdkAnswered, SdkIInv, SdkTypeOK, NoCall
  <2>b. sdkCall' = NoCall /\ owner' = Resumed /\ xappKnown' = (xappKnown \/ c.kind = "register")
        /\ UNCHANGED <<nodesLeft, victims, late, round, ricSubs, ricKnows, cleanup, afterwards, lost, unseen>>
    BY <1>8, <2>a DEF SdkAnswered, ricSide
  <2>c. /\ c.kind = "subscribe" /\ c.ok => sdkSubs' = Append(sdkSubs, c.id)
        /\ c.kind = "unsubscribe" /\ c.ok =>
             sdkSubs' = [n \in DOMAIN sdkSubs |-> IF sdkSubs[n] = c.id THEN Deleted ELSE sdkSubs[n]]
        /\ ~(c.kind \in {"subscribe", "unsubscribe"} /\ c.ok) => sdkSubs' = sdkSubs
    BY <1>8, <2>a DEF SdkAnswered
  <2>d. owner' \in {"new", "registering", "listing", "subscribing", "started", "stopping", "unregistering", "stopped"}
        /\ (c.kind = "register" => owner' = "listing") /\ (c.kind = "unregister" => owner' = "stopped")
        /\ (c.kind \in {"subscribe", "unsubscribe"} => owner' = owner)
        /\ owner' # "registering" /\ owner' # "unregistering"
    BY <2>a, <2>b DEF Resumed, SdkIInv, SdkTypeOK, CallsFitTheOwner
  <2>e. sdkSubs \in Seq(SubIds \cup {Deleted}) /\ Len(sdkSubs) \in Nat /\ nodesLeft \in Nat
        /\ Len(sdkSubs) + nodesLeft + (IF c.kind = "subscribe" THEN 1 ELSE 0) <= MaxSubs
    BY <2>a DEF SdkIInv, SdkTypeOK, Dictionary
  <2>f. c.kind \in {"subscribe", "unsubscribe"} => c.id \in SubIds
    BY <2>a, <2>e DEF SdkIInv, CallsFitTheOwner, SubIds
  <2>g. /\ sdkSubs' \in Seq(SubIds \cup {Deleted})
        /\ Len(sdkSubs') = IF c.kind = "subscribe" /\ c.ok THEN Len(sdkSubs) + 1 ELSE Len(sdkSubs)
        /\ c.kind = "subscribe" /\ c.ok =>
             Listed' = Listed \cup {c.id} /\ sdkSubs'[Len(sdkSubs) + 1] = c.id
             /\ \A n \in 1..Len(sdkSubs) : sdkSubs'[n] = sdkSubs[n]
        /\ c.kind = "unsubscribe" /\ c.ok =>
             Listed' = Listed \ {c.id} /\ \A n \in 1..Len(sdkSubs) : sdkSubs[n] # c.id => sdkSubs'[n] = sdkSubs[n]
        /\ ~(c.kind \in {"subscribe", "unsubscribe"} /\ c.ok) => Listed' = Listed
    <3>1. CASE c.kind = "subscribe" /\ c.ok
      <4>1. sdkSubs' = Append(sdkSubs, c.id) /\ c.id \in SubIds /\ c.id # Deleted
        BY <3>1, <2>c, <2>f DEF SubIds
      <4>2. sdkSubs' \in Seq(SubIds \cup {Deleted}) /\ Len(sdkSubs') = Len(sdkSubs) + 1
            /\ DOMAIN sdkSubs' = 1..Len(sdkSubs) + 1 /\ DOMAIN sdkSubs = 1..Len(sdkSubs)
            /\ sdkSubs'[Len(sdkSubs) + 1] = c.id /\ \A n \in 1..Len(sdkSubs) : sdkSubs'[n] = sdkSubs[n]
        BY <4>1, <2>e
      <4>3. Range(sdkSubs)' = Range(sdkSubs) \cup {c.id}
        BY <4>2, <2>e DEF Range
      <4> QED
        BY <4>1, <4>2, <4>3, <3>1 DEF Listed
    <3>2. CASE c.kind = "unsubscribe" /\ c.ok
      <4>1. sdkSubs' = [n \in 1..Len(sdkSubs) |-> IF sdkSubs[n] = c.id THEN Deleted ELSE sdkSubs[n]]
        BY <3>2, <2>c, <2>e
      <4>2. sdkSubs' \in Seq(SubIds \cup {Deleted}) /\ Len(sdkSubs') = Len(sdkSubs)
        BY <4>1, <2>e
      <4>3. Listed' = Listed \ {c.id}
        BY <4>1, <2>e DEF Listed, Range
      <4> QED
        BY <4>1, <4>2, <4>3, <3>2
    <3>3. CASE ~(c.kind \in {"subscribe", "unsubscribe"} /\ c.ok)
      BY <3>3, <2>c, <2>e DEF Listed
    <3> QED
      BY <3>1, <3>2, <3>3
  <2>1. SdkTypeOK'
    <3>1. xappKnown' \in BOOLEAN /\ Len(sdkSubs') <= MaxSubs
      BY <2>b, <2>e, <2>g DEF SdkIInv, SdkTypeOK
    <3> QED
      BY <2>b, <2>d, <2>g, <3>1 DEF SdkIInv, SdkTypeOK
  <2>2. CallsFitTheOwner'
    BY <2>b, <2>d DEF CallsFitTheOwner, NoCall
  <2>3. LateCalls'
    <3>1. c.kind = "register" <=> owner = "registering"
      BY <2>a DEF SdkIInv, CallsFitTheOwner
    <3>2. owner' \in {"new", "registering"} => owner = "new"
      BY <2>b, <2>d, <3>1 DEF Resumed
    <3>3. owner = "stopped" => owner' = "stopped"
      BY <2>b DEF Resumed
    <3> QED
      BY <2>b, <3>1, <3>2, <3>3 DEF SdkIInv, LateCalls
  <2>4. Registration'
    <3>1. (c.kind = "register" <=> owner = "registering") /\ (c.kind = "register" => ricKnows)
      BY <2>a DEF SdkIInv, CallsFitTheOwner, Registration
    <3>2. owner' \in {"new", "registering"} => owner = "new"
      BY <2>b, <2>d, <3>1 DEF Resumed
    <3>3. owner \in {"unregistering", "stopped"} => owner' = "stopped"
      BY <2>b DEF Resumed
    <3>4. Gone' => Gone
      BY <2>b, <3>1 DEF Gone
    <3>5. Gone => Gone'
      BY <2>b DEF Gone
    <3> QED
      BY <2>b, <2>d, <3>1, <3>2, <3>3, <3>4, <3>5 DEF SdkIInv, Registration, NoCall
  <2>5. Dictionary'
    <3>1. Fresh' = 1..nodesLeft
      BY <2>b DEF Fresh, NoCall
    <3>2. 1..nodesLeft \subseteq Fresh /\ (c.kind = "subscribe" => c.id = nodesLeft + 1 /\ c.id \notin 1..nodesLeft)
      BY <2>a, <2>e DEF SdkIInv, CallsFitTheOwner, Fresh
    <3>3. Listed \cap Fresh = {} /\ \A r \in Rounds : round[r].owed \cap Fresh = {}
      BY DEF SdkIInv, Dictionary
    <3>4. Listed' \cap Fresh' = {}
      BY <2>g, <3>1, <3>2, <3>3
    <3>5. \A r \in Rounds : round'[r].owed \cap Fresh' = {}
      BY <2>b, <3>1, <3>2, <3>3
    <3>6. Early' => Early /\ c.kind \notin {"subscribe", "unsubscribe"}
      BY <2>a, <2>d, <2>b DEF Early, SdkIInv, CallsFitTheOwner, Resumed
    <3>7. Early' => sdkSubs' = <<>> /\ nodesLeft' = 0 /\ \A r \in Rounds : round'[r].owed = {}
      BY <2>b, <2>c, <3>6 DEF SdkIInv, Dictionary
    <3>8. ~Stopping' => ~Stopping /\ c.kind # "unsubscribe"
      BY <2>a, <2>b, <2>d DEF Stopping, SdkIInv, CallsFitTheOwner, Resumed
    <3>9. ~Stopping' => \A n \in DOMAIN sdkSubs' : sdkSubs'[n] # Deleted
      <4>1. CASE c.kind = "subscribe" /\ c.ok
        <5>1. DOMAIN sdkSubs' = 1..Len(sdkSubs) + 1 /\ DOMAIN sdkSubs = 1..Len(sdkSubs)
          BY <4>1, <2>c, <2>e, <2>f
        <5>2. c.id # Deleted
          BY <4>1, <2>f DEF SubIds
        <5> QED
          BY <5>1, <5>2, <4>1, <3>8, <2>g, <2>e DEF SdkIInv, Dictionary
      <4>2. CASE ~(c.kind = "subscribe" /\ c.ok)
        BY <4>2, <3>8, <2>c DEF SdkIInv, Dictionary
      <4> QED
        BY <4>1, <4>2
    <3>10. Len(sdkSubs') + nodesLeft' + (IF sdkCall'.kind = "subscribe" THEN 1 ELSE 0) <= MaxSubs
      BY <2>b, <2>e, <2>g DEF NoCall
    <3> QED
      BY <3>4, <3>5, <3>7, <3>9, <3>10 DEF Dictionary
  <2>6. BothSides'
    <3>1. Gone => Gone'
      BY <2>b DEF Gone
    <3>2. Listed' \subseteq ricSubs' \cup unseen' \cup (IF Gone' THEN SubIds ELSE {})
      <4>1. CASE c.kind = "subscribe" /\ c.ok
        <5>1. c.id \in ricSubs \cup unseen \/ Gone
          BY <4>1, <2>a DEF SdkIInv, BothSides
        <5>2. Listed \subseteq ricSubs \cup unseen \cup (IF Gone THEN SubIds ELSE {})
          BY <4>1, <2>a DEF SdkIInv, BothSides
        <5> QED
          BY <5>1, <5>2, <4>1, <2>b, <2>f, <2>g, <3>1
      <4>2. CASE c.kind = "unsubscribe" /\ c.ok
        <5>1. Listed \subseteq ricSubs \cup unseen \cup (IF Gone THEN SubIds ELSE {}) \cup {c.id}
          BY <4>2, <2>a DEF SdkIInv, BothSides
        <5> QED
          BY <5>1, <4>2, <2>b, <2>g, <3>1
      <4>3. CASE ~(c.kind \in {"subscribe", "unsubscribe"} /\ c.ok)
        <5>1. Listed \subseteq ricSubs \cup unseen \cup (IF Gone THEN SubIds ELSE {})
          BY <4>3, <2>a DEF SdkIInv, BothSides
        <5> QED
          BY <5>1, <4>3, <2>b, <2>g, <3>1
      <4> QED
        BY <4>1, <4>2, <4>3
    <3>3. ricSubs' \subseteq Listed' \cup lost'
      <4>1. CASE c.kind = "subscribe" /\ c.ok
        <5>1. ricSubs \subseteq Listed \cup lost \cup {c.id}
          BY <4>1, <2>a DEF SdkIInv, BothSides
        <5> QED
          BY <5>1, <4>1, <2>b, <2>g
      <4>2. CASE c.kind = "unsubscribe" /\ c.ok
        <5>1. ricSubs \subseteq Listed \cup lost /\ (c.id \notin ricSubs \/ c.id \in lost)
          BY <4>2, <2>a DEF SdkIInv, BothSides
        <5> QED
          BY <5>1, <4>2, <2>b, <2>g
      <4>3. CASE ~(c.kind \in {"subscribe", "unsubscribe"} /\ c.ok)
        <5>1. ricSubs \subseteq Listed \cup lost
          BY <4>3, <2>a DEF SdkIInv, BothSides
        <5> QED
          BY <5>1, <4>3, <2>b, <2>g
      <4> QED
        BY <4>1, <4>2, <4>3
    <3> QED
      BY <3>2, <3>3, <2>b DEF BothSides, NoCall
  <2>7. ASSUME NEW q \in Rounds  PROVE RoundGoesOn(q)'
    <3>1. PICK w \in RoundStates : round[q] = w /\ round'[q] = w
      BY <2>b DEF SdkIInv, SdkTypeOK
    <3>2. RoundGoesOn(q)
      BY DEF SdkIInv
    <3>3. DOMAIN sdkSubs = 1..Len(sdkSubs) /\ DOMAIN sdkSubs' = 1..Len(sdkSubs') /\ Len(sdkSubs) <= Len(sdkSubs')
          /\ Len(sdkSubs') \in Nat
      BY <2>e, <2>g
    <3>4. ASSUME NEW j \in w.owed, j \in Listed'  PROVE j \in Listed /\ (c.kind = "unsubscribe" /\ c.ok => j # c.id)
      <4>1. c.kind = "subscribe" => j # c.id
        BY <3>1, <2>a, <2>f DEF SdkIInv, Dictionary, Fresh
      <4> QED
        BY <3>4, <4>1, <2>g
    <3>5. w.next \in Nat
      BY DEF RoundStates
    <3>6. w.next <= Len(sdkSubs') + 1
      BY <3>1, <3>2, <3>3, <3>5, <2>e DEF RoundGoesOn
    <3>7. ASSUME w.at = "sending", NEW j \in w.owed, j \in Listed', j \notin w.sent
          PROVE  \E n \in DOMAIN sdkSubs' : n >= w.next /\ sdkSubs'[n] = j
      <4>1. PICK n \in DOMAIN sdkSubs : n >= w.next /\ sdkSubs[n] = j
        BY <3>1, <3>2, <3>4, <3>7 DEF RoundGoesOn
      <4>2. sdkSubs'[n] = j
        BY <4>1, <3>3, <3>4, <3>7, <2>c, <2>g
      <4>3. n \in DOMAIN sdkSubs'
        BY <3>3, <2>e
      <4> QED
        BY <4>1, <4>2, <4>3
    <3>8. w.at = "done" => w.owed \cap Listed' \subseteq w.sent
      BY <3>1, <3>2, <3>4 DEF RoundGoesOn
    <3> QED
      BY <3>1, <3>6, <3>7, <3>8 DEF RoundGoesOn
  <2> QED
    BY <2>1, <2>2, <2>3, <2>4, <2>5, <2>6, <2>7 DEF SdkIInv
<1>9. ASSUME SdkTimesOut  PROVE SdkIInv'
  <2>0. PICK c \in SdkCalls : sdkCall = c
    BY <1>9 DEF SdkTimesOut, SdkIInv, SdkTypeOK
  <2>b. nodesLeft \in Nat /\ nodesLeft + (IF c.kind = "subscribe" THEN 1 ELSE 0) <= MaxSubs
    BY <2>0 DEF SdkIInv, SdkTypeOK, Dictionary
  <2>c. c.kind \in {"subscribe", "unsubscribe"} => c.id \in SubIds
    BY <2>0, <2>b DEF SdkIInv, CallsFitTheOwner, SubIds
  <2>d. owner' \in {"new", "registering", "listing", "subscribing", "started", "stopping", "unregistering", "stopped"}
    BY <1>9 DEF SdkIInv, SdkTypeOK, SdkTimesOut, Resumed
  <2>1. SdkTypeOK'
    <3>1. lost' \subseteq SubIds /\ unseen' \subseteq SubIds /\ late' \subseteq SdkCalls /\ sdkCall' = NoCall
      BY <1>9, <2>0, <2>c DEF SdkTimesOut, SdkIInv, SdkTypeOK
    <3>2. UNCHANGED <<xappKnown, nodesLeft, sdkSubs, victims, round, ricSubs, ricKnows, cleanup, afterwards>>
      BY <1>9 DEF SdkTimesOut, ricSide
    <3> QED
      BY <2>d, <3>1, <3>2 DEF SdkIInv, SdkTypeOK
  <2>2. CallsFitTheOwner'
    BY <1>9 DEF SdkIInv, SdkTypeOK, CallsFitTheOwner, SdkTimesOut, ricSide, Called, SdkCalls, NoCall, Resumed, SubIds
  <2>3. LateCalls'
    BY <1>9 DEF SdkIInv, SdkTypeOK, CallsFitTheOwner, LateCalls, Registration, SdkTimesOut, ricSide, Called, SdkCalls, NoCall, Resumed
  <2>4. Registration'
    BY <1>9 DEF SdkIInv, SdkTypeOK, CallsFitTheOwner, LateCalls, Registration, Gone, SdkTimesOut, ricSide, Called, SdkCalls, NoCall, Resumed
  <2>5. Dictionary'
    <3>1. UNCHANGED <<nodesLeft, sdkSubs, round>> /\ sdkCall' = NoCall /\ owner' = Resumed
      BY <1>9 DEF SdkTimesOut
    <3>2. Fresh' \subseteq Fresh /\ Listed' = Listed
      BY <3>1 DEF Fresh, Listed, NoCall
    <3>3. (Early' => Early) /\ (~Stopping' => ~Stopping)
      BY <2>0, <3>1 DEF Early, Stopping, Resumed
    <3>4. Len(sdkSubs) \in Nat
      BY DEF SdkIInv, SdkTypeOK
    <3>5. Len(sdkSubs) + nodesLeft <= MaxSubs
      BY <2>b, <3>4 DEF SdkIInv, Dictionary
    <3>6. Listed' \cap Fresh' = {} /\ \A r \in Rounds : round'[r].owed \cap Fresh' = {}
      BY <3>1, <3>2 DEF SdkIInv, Dictionary
    <3>7. Early' => sdkSubs' = <<>> /\ nodesLeft' = 0 /\ \A r \in Rounds : round'[r].owed = {}
      BY <3>1, <3>3 DEF SdkIInv, Dictionary
    <3>8. ~Stopping' => \A n \in DOMAIN sdkSubs' : sdkSubs'[n] # Deleted
      BY <3>1, <3>3 DEF SdkIInv, Dictionary
    <3> QED
      BY <2>b, <3>1, <3>4, <3>5, <3>6, <3>7, <3>8 DEF Dictionary, NoCall
  <2>6. BothSides'
    BY <1>9 DEF SdkIInv, SdkTypeOK, CallsFitTheOwner, LateCalls, Registration, BothSides, Gone, Listed, SdkTimesOut, ricSide, Called, SdkCalls, NoCall, Resumed
  <2>7. ASSUME NEW q \in Rounds  PROVE RoundGoesOn(q)'
    BY <1>9 DEF SdkIInv, RoundGoesOn, Listed, SdkTimesOut, ricSide
  <2> QED
    BY <2>1, <2>2, <2>3, <2>4, <2>5, <2>6, <2>7 DEF SdkIInv
<1>10. ASSUME RicHandlesCall  PROVE SdkIInv'
  <2>0. PICK c \in SdkCalls : sdkCall = c /\ ~c.seen
    BY <1>10 DEF RicHandlesCall, SdkIInv, SdkTypeOK
  <2>b. PICK ok \in BOOLEAN : Handled(c, ok) /\ sdkCall' = [c EXCEPT !.seen = TRUE, !.ok = ok]
    BY <1>10, <2>0 DEF RicHandlesCall
  <2>c. c.kind \in {"subscribe", "unsubscribe"} => c.id \in SubIds
    <3>1. nodesLeft \in Nat /\ nodesLeft + (IF c.kind = "subscribe" THEN 1 ELSE 0) <= MaxSubs
      BY <2>0 DEF SdkIInv, SdkTypeOK, Dictionary
    <3> QED
      BY <2>0, <3>1 DEF SdkIInv, CallsFitTheOwner, SubIds
  <2>d. UNCHANGED <<owner, xappKnown, nodesLeft, sdkSubs, victims, late, round, lost, unseen>>
    BY <1>10 DEF RicHandlesCall
  <2>e. SdkTypeOK
    BY DEF SdkIInv
  <2>f. sdkCall' \in SdkCalls /\ sdkCall'.kind = c.kind /\ sdkCall'.id = c.id /\ sdkCall'.seen /\ (sdkCall'.ok <=> ok)
    BY <2>b DEF SdkCalls
  <2>1. SdkTypeOK'
    <3>1. ricSubs' \subseteq SubIds /\ ricKnows' \in BOOLEAN /\ cleanup' \subseteq SubIds /\ afterwards' \subseteq SubIds
      BY <2>0, <2>b, <2>c, <2>e, HandledByKind
    <3> QED
      BY <1>10, <2>d, <2>e, <2>f, <3>1 DEF RicHandlesCall, SdkTypeOK
  <2>g. /\ c.kind = "register" => ok /\ ricKnows' /\ UNCHANGED <<ricSubs, cleanup, afterwards>>
        /\ c.kind = "subscribe" =>
              /\ ricSubs' = IF ok THEN ricSubs \cup {c.id} ELSE ricSubs
              /\ afterwards \subseteq afterwards'
              /\ ok /\ owner \in {"unregistering", "stopped"} /\ ~ricKnows => c.id \in afterwards'
              /\ UNCHANGED <<ricKnows, cleanup>>
        /\ c.kind = "unsubscribe" =>
              ok = (c.id \in ricSubs) /\ ricSubs' = ricSubs \ {c.id} /\ UNCHANGED <<ricKnows, cleanup, afterwards>>
        /\ c.kind = "unregister" =>
              /\ ~ricKnows' /\ UNCHANGED <<ricSubs, afterwards>>
              /\ cleanup' = IF ricKnows /\ xappKnown THEN cleanup \cup ricSubs ELSE cleanup
    BY <2>0, <2>b, <2>c, <2>e, HandledByKind
  <2>h. c.kind \in {"register", "subscribe", "unsubscribe", "unregister"}
    BY <2>0 DEF SdkCalls
  <2>2. CallsFitTheOwner'
    BY <1>10 DEF SdkIInv, SdkTypeOK, CallsFitTheOwner, RicHandlesCall, ricSide, Called, SdkCalls, NoCall, Resumed, SubIds
  <2>3. LateCalls'
    BY <1>10 DEF SdkIInv, SdkTypeOK, CallsFitTheOwner, LateCalls, Registration, RicHandlesCall, ricSide, Called, SdkCalls, NoCall, Resumed
  <2>4. Registration'
    <3>1. Registration /\ CallsFitTheOwner /\ LateCalls
      BY DEF SdkIInv
    <3>2. c.kind = "register" => ~xappKnown
      BY <2>0, <3>1 DEF Registration, CallsFitTheOwner, LateCalls
    <3>3. c.kind = "unregister" => xappKnown /\ owner \in {"unregistering", "stopped"}
      BY <2>0, <3>1 DEF Registration, CallsFitTheOwner, LateCalls
    <3>4. sdkCall'.kind = "register" /\ sdkCall'.seen => ricKnows'
      BY <2>f, <2>g
    <3>5. Gone' => /\ owner \in {"unregistering", "stopped"}
                   /\ ricSubs' \subseteq cleanup' \cup afterwards'
      <4>1. CASE c.kind = "register"
        BY <4>1, <2>g, <2>d DEF Gone
      <4>2. CASE c.kind = "subscribe"
        BY <4>2, <2>g, <2>d, <3>1 DEF Gone, Registration
      <4>3. CASE c.kind = "unsubscribe"
        BY <4>3, <2>g, <2>d, <3>1 DEF Gone, Registration
      <4>4. CASE c.kind = "unregister"
        BY <4>4, <2>g, <2>d, <3>1, <3>3 DEF Gone, Registration
      <4> QED
        BY <2>h, <4>1, <4>2, <4>3, <4>4
    <3>6. cleanup' # {} => Gone'
      <4>1. CASE c.kind = "register"
        BY <4>1, <2>g, <2>d, <3>1, <3>2 DEF Gone, Registration
      <4>2. CASE c.kind \in {"subscribe", "unsubscribe"}
        BY <4>2, <2>g, <2>d, <3>1 DEF Gone, Registration
      <4>4. CASE c.kind = "unregister"
        BY <4>4, <2>g, <2>d, <3>3 DEF Gone
      <4> QED
        BY <2>h, <4>1, <4>2, <4>4
    <3> QED
      BY <3>1, <3>4, <3>5, <3>6, <2>d DEF Registration
  <2>5. Dictionary'
    BY <1>10 DEF SdkIInv, SdkTypeOK, CallsFitTheOwner, Dictionary, Listed, Fresh, Early, Stopping, RicHandlesCall, ricSide, Called, SdkCalls, NoCall, Resumed
  <2>6. BothSides'
    <3>1. BothSides /\ Registration /\ CallsFitTheOwner
      BY DEF SdkIInv
    <3>2. Listed' = Listed /\ unseen' = unseen /\ lost' = lost
      BY <2>d DEF Listed
    <3>3. Listed \subseteq ricSubs \cup unseen \cup (IF Gone THEN SubIds ELSE {}) /\ ricSubs \subseteq Listed \cup lost
      BY <2>0, <3>1 DEF BothSides
    <3>4. Gone => Gone'
      <4>1. c.kind = "register" => ~xappKnown
        BY <2>0, <3>1 DEF Registration, CallsFitTheOwner
      <4> QED
        BY <4>1, <2>d, <2>g, <2>h DEF Gone
    <3>5. CASE c.kind = "subscribe"
      BY <3>5, <2>c, <2>f, <2>g, <3>2, <3>3, <3>4 DEF BothSides
    <3>6. CASE c.kind = "unsubscribe"
      BY <3>6, <2>c, <2>f, <2>g, <3>2, <3>3, <3>4 DEF BothSides
    <3>7. CASE c.kind \in {"register", "unregister"}
      BY <3>7, <2>f, <2>g, <3>2, <3>3, <3>4 DEF BothSides
    <3> QED
      BY <2>h, <3>5, <3>6, <3>7
  <2>7. ASSUME NEW q \in Rounds  PROVE RoundGoesOn(q)'
    BY <1>10 DEF SdkIInv, RoundGoesOn, Listed, RicHandlesCall, ricSide
  <2> QED
    BY <2>1, <2>2, <2>3, <2>4, <2>5, <2>6, <2>7 DEF SdkIInv
<1>11. ASSUME NEW c \in late, RicHandlesLate(c)  PROVE SdkIInv'
  <2>0. c \in SdkCalls /\ c \in late
    BY <1>11 DEF SdkIInv, SdkTypeOK
  <2>b. PICK ok \in BOOLEAN : Handled(c, ok)
    BY <1>11, <2>0 DEF RicHandlesLate
  <2>c. c.kind \in {"subscribe", "unsubscribe"} => c.id \in SubIds
    BY <2>0 DEF SdkIInv, LateCalls, SdkTypeOK
  <2>d. UNCHANGED <<owner, xappKnown, nodesLeft, sdkSubs, victims, sdkCall, round, lost, unseen>>
    BY <1>11 DEF RicHandlesLate
  <2>e. SdkTypeOK
    BY DEF SdkIInv
  <2>f. late' \subseteq late
    BY <1>11 DEF RicHandlesLate
  <2>1. SdkTypeOK'
    <3>1. ricSubs' \subseteq SubIds /\ ricKnows' \in BOOLEAN /\ cleanup' \subseteq SubIds /\ afterwards' \subseteq SubIds
      BY <2>0, <2>b, <2>c, <2>e, HandledByKind
    <3> QED
      BY <1>11, <2>d, <2>e, <2>f, <3>1 DEF RicHandlesLate, SdkTypeOK
  <2>g. /\ c.kind = "register" => ok /\ ricKnows' /\ UNCHANGED <<ricSubs, cleanup, afterwards>>
        /\ c.kind = "subscribe" =>
              /\ ricSubs' = IF ok THEN ricSubs \cup {c.id} ELSE ricSubs
              /\ afterwards \subseteq afterwards'
              /\ ok /\ owner \in {"unregistering", "stopped"} /\ ~ricKnows => c.id \in afterwards'
              /\ UNCHANGED <<ricKnows, cleanup>>
        /\ c.kind = "unsubscribe" =>
              ok = (c.id \in ricSubs) /\ ricSubs' = ricSubs \ {c.id} /\ UNCHANGED <<ricKnows, cleanup, afterwards>>
        /\ c.kind = "unregister" =>
              /\ ~ricKnows' /\ UNCHANGED <<ricSubs, afterwards>>
              /\ cleanup' = IF ricKnows /\ xappKnown THEN cleanup \cup ricSubs ELSE cleanup
    BY <2>0, <2>b, <2>c, <2>e, HandledByKind
  <2>h. c.kind \in {"register", "subscribe", "unsubscribe", "unregister"}
    BY <2>0 DEF SdkCalls
  <2>2. CallsFitTheOwner'
    BY <1>11 DEF SdkIInv, SdkTypeOK, CallsFitTheOwner, RicHandlesLate, ricSide, Called, SdkCalls, NoCall, Resumed, SubIds
  <2>3. LateCalls'
    BY <1>11 DEF SdkIInv, SdkTypeOK, CallsFitTheOwner, LateCalls, Registration, RicHandlesLate, ricSide, Called, SdkCalls, NoCall, Resumed
  <2>4. Registration'
    <3>1. Registration /\ CallsFitTheOwner /\ LateCalls
      BY DEF SdkIInv
    <3>2. c.kind = "register" => ~xappKnown
      BY <2>0, <3>1 DEF Registration, CallsFitTheOwner, LateCalls
    <3>3. c.kind = "unregister" => xappKnown /\ owner \in {"unregistering", "stopped"}
      BY <2>0, <3>1 DEF Registration, CallsFitTheOwner, LateCalls
    <3>4. sdkCall'.kind = "register" /\ sdkCall'.seen => ricKnows'
      BY <2>d, <2>g, <2>h, <3>1, <3>3 DEF Registration, CallsFitTheOwner
    <3>5. Gone' => /\ owner \in {"unregistering", "stopped"}
                   /\ ricSubs' \subseteq cleanup' \cup afterwards'
      <4>1. CASE c.kind = "register"
        BY <4>1, <2>g, <2>d DEF Gone
      <4>2. CASE c.kind = "subscribe"
        BY <4>2, <2>g, <2>d, <3>1 DEF Gone, Registration
      <4>3. CASE c.kind = "unsubscribe"
        BY <4>3, <2>g, <2>d, <3>1 DEF Gone, Registration
      <4>4. CASE c.kind = "unregister"
        BY <4>4, <2>g, <2>d, <3>1, <3>3 DEF Gone, Registration
      <4> QED
        BY <2>h, <4>1, <4>2, <4>3, <4>4
    <3>6. cleanup' # {} => Gone'
      <4>1. CASE c.kind = "register"
        BY <4>1, <2>g, <2>d, <3>1, <3>2 DEF Gone, Registration
      <4>2. CASE c.kind \in {"subscribe", "unsubscribe"}
        BY <4>2, <2>g, <2>d, <3>1 DEF Gone, Registration
      <4>4. CASE c.kind = "unregister"
        BY <4>4, <2>g, <2>d, <3>3 DEF Gone
      <4> QED
        BY <2>h, <4>1, <4>2, <4>4
    <3> QED
      BY <3>1, <3>4, <3>5, <3>6, <2>d DEF Registration
  <2>5. Dictionary'
    BY <1>11 DEF SdkIInv, SdkTypeOK, CallsFitTheOwner, Dictionary, Listed, Fresh, Early, Stopping, RicHandlesLate, ricSide, Called, SdkCalls, NoCall, Resumed
  <2>6. BothSides'
    <3>1. BothSides /\ LateCalls
      BY DEF SdkIInv
    <3>2. Listed' = Listed /\ unseen' = unseen /\ lost' = lost /\ sdkCall' = sdkCall
      BY <2>d DEF Listed
    <3>3. Gone => Gone'
      BY <2>0, <2>d, <2>g, <2>h, <3>1 DEF Gone, LateCalls
    <3>5. CASE c.kind = "subscribe"
      <4>1. c.id \in lost
        BY <2>0, <3>1, <3>5 DEF LateCalls
      <4> QED
        BY <4>1, <3>5, <2>g, <3>1, <3>2, <3>3 DEF BothSides
    <3>6. CASE c.kind = "unsubscribe"
      <4>1. c.id \in unseen
        BY <2>0, <3>1, <3>6 DEF LateCalls
      <4> QED
        BY <4>1, <3>6, <2>g, <3>1, <3>2, <3>3 DEF BothSides
    <3>7. CASE c.kind \in {"register", "unregister"}
      BY <3>7, <2>g, <3>1, <3>2, <3>3 DEF BothSides
    <3> QED
      BY <2>h, <3>5, <3>6, <3>7
  <2>7. ASSUME NEW q \in Rounds  PROVE RoundGoesOn(q)'
    BY <1>11 DEF SdkIInv, RoundGoesOn, Listed, RicHandlesLate, ricSide
  <2> QED
    BY <2>1, <2>2, <2>3, <2>4, <2>5, <2>6, <2>7 DEF SdkIInv
<1>12. ASSUME NEW c \in late, RequestNeverArrives(c)  PROVE SdkIInv'
  <2>1. SdkTypeOK'
    BY <1>12 DEF SdkIInv, SdkTypeOK, RequestNeverArrives, ricSide, Called, SdkCalls, NoCall, Resumed, SubIds
  <2>2. CallsFitTheOwner'
    BY <1>12 DEF SdkIInv, SdkTypeOK, CallsFitTheOwner, RequestNeverArrives, ricSide, Called, SdkCalls, NoCall, Resumed, SubIds
  <2>3. LateCalls'
    BY <1>12 DEF SdkIInv, SdkTypeOK, CallsFitTheOwner, LateCalls, Registration, RequestNeverArrives, ricSide, Called, SdkCalls, NoCall, Resumed
  <2>4. Registration'
    BY <1>12 DEF SdkIInv, SdkTypeOK, CallsFitTheOwner, LateCalls, Registration, Gone, RequestNeverArrives, ricSide, Called, SdkCalls, NoCall, Resumed
  <2>5. Dictionary'
    BY <1>12 DEF SdkIInv, SdkTypeOK, CallsFitTheOwner, Dictionary, Listed, Fresh, Early, Stopping, RequestNeverArrives, ricSide, Called, SdkCalls, NoCall, Resumed
  <2>6. BothSides'
    BY <1>12 DEF SdkIInv, SdkTypeOK, CallsFitTheOwner, LateCalls, Registration, BothSides, Gone, Listed, RequestNeverArrives, ricSide, Called, SdkCalls, NoCall, Resumed
  <2>7. ASSUME NEW q \in Rounds  PROVE RoundGoesOn(q)'
    BY <1>12 DEF SdkIInv, RoundGoesOn, Listed, RequestNeverArrives, ricSide
  <2> QED
    BY <2>1, <2>2, <2>3, <2>4, <2>5, <2>6, <2>7 DEF SdkIInv
<1>13. ASSUME NEW i \in cleanup, CleansUp(i)  PROVE SdkIInv'
  <2>1. SdkTypeOK'
    BY <1>13 DEF SdkIInv, SdkTypeOK, CleansUp, ricSide, Called, SdkCalls, NoCall, Resumed, SubIds
  <2>2. CallsFitTheOwner'
    BY <1>13 DEF SdkIInv, SdkTypeOK, CallsFitTheOwner, CleansUp, ricSide, Called, SdkCalls, NoCall, Resumed, SubIds
  <2>3. LateCalls'
    BY <1>13 DEF SdkIInv, SdkTypeOK, CallsFitTheOwner, LateCalls, Registration, CleansUp, ricSide, Called, SdkCalls, NoCall, Resumed
  <2>4. Registration'
    BY <1>13 DEF SdkIInv, SdkTypeOK, CallsFitTheOwner, LateCalls, Registration, Gone, CleansUp, ricSide, Called, SdkCalls, NoCall, Resumed
  <2>5. Dictionary'
    BY <1>13 DEF SdkIInv, SdkTypeOK, CallsFitTheOwner, Dictionary, Listed, Fresh, Early, Stopping, CleansUp, ricSide, Called, SdkCalls, NoCall, Resumed
  <2>6. BothSides'
    BY <1>13 DEF SdkIInv, SdkTypeOK, CallsFitTheOwner, LateCalls, Registration, BothSides, Gone, Listed, CleansUp, ricSide, Called, SdkCalls, NoCall, Resumed
  <2>7. ASSUME NEW q \in Rounds  PROVE RoundGoesOn(q)'
    BY <1>13 DEF SdkIInv, RoundGoesOn, Listed, CleansUp, ricSide
  <2> QED
    BY <2>1, <2>2, <2>3, <2>4, <2>5, <2>6, <2>7 DEF SdkIInv
<1>14. ASSUME NEW r \in Rounds, IndicationArrives(r)  PROVE SdkIInv'
  <2>a. UNCHANGED <<owner, xappKnown, nodesLeft, sdkSubs, victims, sdkCall, late, ricSubs, ricKnows, cleanup,
                   afterwards, lost, unseen>>
    BY <1>14 DEF IndicationArrives, ricSide
  <2>b. PICK w \in RoundStates : round[r] = w
    BY DEF SdkIInv, SdkTypeOK
  <2>c. sdkSubs \in Seq(SubIds \cup {Deleted}) /\ Len(sdkSubs) \in Nat /\ DOMAIN sdkSubs = 1..Len(sdkSubs)
        /\ Len(sdkSubs) <= MaxSubs
    BY DEF SdkIInv, SdkTypeOK
  <2>d. RoundGoesOn(r)
    BY DEF SdkIInv
  <2> DEFINE v == [at |-> "sending", next |-> 1, size |-> Cardinality(Listed), owed |-> Listed, sent |-> {}]
  <2>e. v \in RoundStates /\ round' = [round EXCEPT ![r] = v] /\ v.next = 1 /\ v.at = "sending" /\ v.owed = Listed
    <3>1. Listed \subseteq SubIds /\ Cardinality(Listed) \in 0..MaxSubs
      BY ListedAreNodes DEF SdkIInv
    <3>2. 1 \in 1..MaxSubs + 1
      OBVIOUS
    <3>3. v \in RoundStates
      BY <3>1, <3>2 DEF RoundStates
    <3> QED
      BY <1>14, <3>3 DEF IndicationArrives
  <2> HIDE DEF v
  <2>f. round' \in [Rounds -> RoundStates] /\ round'[r] = v /\ \A q \in Rounds : q # r => round'[q] = round[q]
    BY <2>e DEF SdkIInv, SdkTypeOK
  <2>1. SdkTypeOK'
    BY <2>a, <2>f DEF SdkIInv, SdkTypeOK
  <2>2. CallsFitTheOwner' /\ LateCalls' /\ Registration'
    BY <2>a DEF SdkIInv, CallsFitTheOwner, LateCalls, Registration, Gone
  <2>3. Listed' = Listed /\ Fresh' = Fresh /\ (Early' <=> Early) /\ (Stopping' <=> Stopping)
    BY <2>a DEF Listed, Fresh, Early, Stopping
  <2>4. BothSides'
    BY <2>a, <2>3 DEF SdkIInv, BothSides, Gone
  <2>5. Dictionary'
    <3>1. v.owed \cap Fresh = {} /\ (Early => v.owed = {})
      <4>1. Early => Listed = {}
        BY DEF SdkIInv, Dictionary, Listed, Range
      <4> QED
        BY <2>e, <4>1 DEF SdkIInv, Dictionary
    <3>2. \A q \in Rounds : round'[q].owed \cap Fresh' = {} /\ (Early' => round'[q].owed = {})
      BY <2>3, <2>f, <3>1 DEF SdkIInv, Dictionary
    <3> QED
      BY <2>a, <2>3, <3>2 DEF SdkIInv, Dictionary
  <2>6. RoundGoesOn(r)'
    <3>1. \A i \in Listed : \E n \in DOMAIN sdkSubs : n >= 1 /\ sdkSubs[n] = i
      BY <2>c DEF Listed, Range
    <3> QED
      BY <2>a, <2>c, <2>e, <2>f, <2>3, <3>1 DEF RoundGoesOn
  <2>7. ASSUME NEW q \in Rounds, q # r  PROVE RoundGoesOn(q)'
    BY <2>a, <2>3, <2>7, <2>f DEF SdkIInv, RoundGoesOn
  <2> QED
    BY <2>1, <2>2, <2>4, <2>5, <2>6, <2>7 DEF SdkIInv
<1>15. ASSUME NEW r \in Rounds, NextControl(r)  PROVE SdkIInv'
  <2>a. UNCHANGED <<owner, xappKnown, nodesLeft, sdkSubs, victims, sdkCall, late, ricSubs, ricKnows, cleanup,
                   afterwards, lost, unseen>>
    BY <1>15 DEF NextControl, ricSide
  <2>b. PICK w \in RoundStates : round[r] = w
    BY DEF SdkIInv, SdkTypeOK
  <2>c. sdkSubs \in Seq(SubIds \cup {Deleted}) /\ Len(sdkSubs) \in Nat /\ DOMAIN sdkSubs = 1..Len(sdkSubs)
        /\ Len(sdkSubs) <= MaxSubs
    BY DEF SdkIInv, SdkTypeOK
  <2>d. RoundGoesOn(r)
    BY DEF SdkIInv
  <2> DEFINE e == EntryAt(w.next)
  <2>g. w.at = "sending" /\ w.next \in 1..Len(sdkSubs) + 1
        /\ \A i \in w.owed \cap Listed :
              i \in w.sent \/ \E n \in DOMAIN sdkSubs : n >= w.next /\ sdkSubs[n] = i
    BY <1>15, <2>b, <2>c, <2>d DEF NextControl, RoundGoesOn, RoundStates
  <2>h. /\ e.id = Deleted => \A n \in w.next..Len(sdkSubs) : sdkSubs[n] = Deleted
        /\ e.id # Deleted => \E k \in w.next..Len(sdkSubs) :
             /\ e.id = sdkSubs[k] /\ e.next = k + 1
             /\ \A n \in w.next..Len(sdkSubs) : n < k => sdkSubs[n] = Deleted
    <3> DEFINE rest == {k \in w.next..Len(sdkSubs) : sdkSubs[k] # Deleted}
               k == CHOOSE k \in rest : \A j \in rest : k <= j
    <3>1. CASE rest = {}
      BY <3>1 DEF EntryAt
    <3>2. CASE rest # {}
      <4>a. w.next \in Nat /\ w.next \in Int /\ Len(sdkSubs) \in Int
        BY <2>b, <2>c, XappSdkAssumption DEF RoundStates
      <4>0. IsFiniteSet(w.next..Len(sdkSubs)) /\ w.next \in Nat
        BY ONLY <4>a, FS_Interval
      <4>1. rest \in SUBSET Nat /\ IsFiniteSet(rest) /\ rest # {}
        BY <3>2, <4>0, FS_Subset
      <4> HIDE DEF rest
      <4>2. \E m \in rest : \A j \in rest : m <= j
        BY <4>1, NatSetHasLeast
      <4>3. k \in rest /\ \A j \in rest : k <= j
        BY <4>2
      <4> HIDE DEF k
      <4>4. e.id = sdkSubs[k] /\ e.next = k + 1
        BY <3>2 DEF EntryAt, rest, k
      <4>5. k \in w.next..Len(sdkSubs) /\ sdkSubs[k] # Deleted
        BY <4>3 DEF rest
      <4>6. ASSUME NEW n \in w.next..Len(sdkSubs), n < k  PROVE sdkSubs[n] = Deleted
        <5>1. n \notin rest
          BY <4>1, <4>3, <4>5, <4>6, <2>c, <2>g
        <5> QED
          BY <5>1 DEF rest
      <4> QED
        BY <4>4, <4>5, <4>6
    <3> QED
      BY <3>1, <3>2
  <2> HIDE DEF e
  <2>i. PICK v : /\ round' = [round EXCEPT ![r] = v]
                 /\ \/ v = [w EXCEPT !.at = "raised"]
                    \/ e.id = Deleted /\ v = [w EXCEPT !.at = "done"]
                    \/ e.id # Deleted /\ v = [w EXCEPT !.sent = w.sent \cup {e.id}, !.next = e.next]
    <3>1. CASE SizeChanged(r)
      BY <3>1, <1>15, <2>b DEF NextControl, e
    <3>2. CASE ~SizeChanged(r) /\ e.id = Deleted
      BY <3>2, <1>15, <2>b DEF NextControl, e
    <3>3. CASE ~SizeChanged(r) /\ e.id # Deleted
      <4>1. round' = [round EXCEPT ![r] = [round[r] EXCEPT !.sent = round[r].sent \cup {e.id}, !.next = e.next]]
        BY <3>3, <1>15, <2>b DEF NextControl, e
      <4>2. round' = [round EXCEPT ![r] = [w EXCEPT !.sent = w.sent \cup {e.id}, !.next = e.next]]
        BY <4>1, <2>b
      <4> QED
        BY <4>2, <3>3
    <3> QED
      BY <3>1, <3>2, <3>3
  <2>e. /\ round' = [round EXCEPT ![r] = v] /\ v \in RoundStates /\ v.owed = w.owed
        /\ v.next \in 1..Len(sdkSubs) + 1
        /\ v.at = "sending" => \A i \in v.owed \cap Listed :
              i \in v.sent \/ \E n \in DOMAIN sdkSubs : n >= v.next /\ sdkSubs[n] = i
        /\ v.at = "done" => v.owed \cap Listed \subseteq v.sent
    <3>1. CASE v = [w EXCEPT !.at = "raised"]
      <4>1. v \in RoundStates /\ v.owed = w.owed /\ v.at = "raised" /\ v.next = w.next
        BY <3>1 DEF RoundStates
      <4> QED
        BY <4>1, <2>i, <2>g
    <3>2. CASE e.id = Deleted /\ v = [w EXCEPT !.at = "done"]
      <4>1. v \in RoundStates /\ v.owed = w.owed /\ v.at = "done" /\ v.next = w.next /\ v.sent = w.sent
        BY <3>2 DEF RoundStates
      <4>2. \A i \in w.owed \cap Listed : i \in w.sent
        BY <3>2, <2>c, <2>g, <2>h DEF Listed
      <4> QED
        BY <4>1, <4>2, <2>i, <2>g
    <3>3. CASE e.id # Deleted /\ v = [w EXCEPT !.sent = w.sent \cup {e.id}, !.next = e.next]
      <4>1. PICK k \in w.next..Len(sdkSubs) :
              /\ e.id = sdkSubs[k] /\ e.next = k + 1
              /\ \A n \in w.next..Len(sdkSubs) : n < k => sdkSubs[n] = Deleted
        BY <3>3, <2>h
      <4>2. e.id \in SubIds /\ e.next \in 1..MaxSubs + 1 /\ e.next \in 1..Len(sdkSubs) + 1
        BY <3>3, <4>1, <2>c, <2>g
      <4>3. v \in RoundStates /\ v.owed = w.owed /\ v.at = "sending" /\ v.next = e.next /\ v.sent = w.sent \cup {e.id}
        BY <3>3, <4>2, <2>g DEF RoundStates
      <4>4. ASSUME NEW i \in w.owed \cap Listed, i \notin v.sent
            PROVE  \E n \in DOMAIN sdkSubs : n >= v.next /\ sdkSubs[n] = i
        <5>1. PICK n \in DOMAIN sdkSubs : n >= w.next /\ sdkSubs[n] = i
          BY <4>3, <4>4, <2>g
        <5>2. i # Deleted /\ i # e.id
          BY <4>3, <4>4 DEF Listed
        <5>3. n # k /\ ~(n < k)
          BY <5>1, <5>2, <4>1, <2>c, <2>g
        <5> QED
          BY <5>1, <5>3, <4>1, <4>3, <2>c, <2>g
      <4> QED
        BY <4>2, <4>3, <4>4, <2>i
    <3> QED
      BY <2>i, <3>1, <3>2, <3>3
  <2>f. round' \in [Rounds -> RoundStates] /\ round'[r] = v /\ \A q \in Rounds : q # r => round'[q] = round[q]
    BY <2>e DEF SdkIInv, SdkTypeOK
  <2>1. SdkTypeOK'
    BY <2>a, <2>f DEF SdkIInv, SdkTypeOK
  <2>2. CallsFitTheOwner' /\ LateCalls' /\ Registration'
    BY <2>a DEF SdkIInv, CallsFitTheOwner, LateCalls, Registration, Gone
  <2>3. Listed' = Listed /\ Fresh' = Fresh /\ (Early' <=> Early) /\ (Stopping' <=> Stopping)
    BY <2>a DEF Listed, Fresh, Early, Stopping
  <2>4. BothSides'
    BY <2>a, <2>3 DEF SdkIInv, BothSides, Gone
  <2>5. Dictionary'
    <3>1. v.owed \cap Fresh = {} /\ (Early => v.owed = {})
      BY <2>b, <2>e DEF SdkIInv, Dictionary
    <3>2. \A q \in Rounds : round'[q].owed \cap Fresh' = {} /\ (Early' => round'[q].owed = {})
      BY <2>3, <2>f, <3>1 DEF SdkIInv, Dictionary
    <3> QED
      BY <2>a, <2>3, <3>2 DEF SdkIInv, Dictionary
  <2>6. RoundGoesOn(r)'
    BY <2>a, <2>c, <2>e, <2>f, <2>3 DEF RoundGoesOn
  <2>7. ASSUME NEW q \in Rounds, q # r  PROVE RoundGoesOn(q)'
    BY <2>a, <2>3, <2>7, <2>f DEF SdkIInv, RoundGoesOn
  <2> QED
    BY <2>1, <2>2, <2>4, <2>5, <2>6, <2>7 DEF SdkIInv
<1>16. ASSUME NEW r \in Rounds, RoundOver(r)  PROVE SdkIInv'
  <2>a. UNCHANGED <<owner, xappKnown, nodesLeft, sdkSubs, victims, sdkCall, late, ricSubs, ricKnows, cleanup,
                   afterwards, lost, unseen>>
    BY <1>16 DEF RoundOver, ricSide
  <2>b. PICK w \in RoundStates : round[r] = w
    BY DEF SdkIInv, SdkTypeOK
  <2>c. sdkSubs \in Seq(SubIds \cup {Deleted}) /\ Len(sdkSubs) \in Nat /\ DOMAIN sdkSubs = 1..Len(sdkSubs)
        /\ Len(sdkSubs) <= MaxSubs
    BY DEF SdkIInv, SdkTypeOK
  <2>d. RoundGoesOn(r)
    BY DEF SdkIInv
  <2> DEFINE v == Idle
  <2>e. v \in RoundStates /\ round' = [round EXCEPT ![r] = v] /\ v.next = 1 /\ v.at = "idle" /\ v.owed = {}
    <3>1. 1 \in 1..MaxSubs + 1 /\ 0 \in 0..MaxSubs
      OBVIOUS
    <3>2. v \in RoundStates
      BY <3>1 DEF Idle, RoundStates
    <3> QED
      BY <1>16, <3>2 DEF RoundOver, Idle
  <2> HIDE DEF v
  <2>f. round' \in [Rounds -> RoundStates] /\ round'[r] = v /\ \A q \in Rounds : q # r => round'[q] = round[q]
    BY <2>e DEF SdkIInv, SdkTypeOK
  <2>1. SdkTypeOK'
    BY <2>a, <2>f DEF SdkIInv, SdkTypeOK
  <2>2. CallsFitTheOwner' /\ LateCalls' /\ Registration'
    BY <2>a DEF SdkIInv, CallsFitTheOwner, LateCalls, Registration, Gone
  <2>3. Listed' = Listed /\ Fresh' = Fresh /\ (Early' <=> Early) /\ (Stopping' <=> Stopping)
    BY <2>a DEF Listed, Fresh, Early, Stopping
  <2>4. BothSides'
    BY <2>a, <2>3 DEF SdkIInv, BothSides, Gone
  <2>5. Dictionary'
    <3>1. v.owed \cap Fresh = {} /\ (Early => v.owed = {})
      BY <2>e
    <3>2. \A q \in Rounds : round'[q].owed \cap Fresh' = {} /\ (Early' => round'[q].owed = {})
      BY <2>3, <2>f, <3>1 DEF SdkIInv, Dictionary
    <3> QED
      BY <2>a, <2>3, <3>2 DEF SdkIInv, Dictionary
  <2>6. RoundGoesOn(r)'
    BY <2>a, <2>c, <2>e, <2>f DEF RoundGoesOn
  <2>7. ASSUME NEW q \in Rounds, q # r  PROVE RoundGoesOn(q)'
    BY <2>a, <2>3, <2>7, <2>f DEF SdkIInv, RoundGoesOn
  <2> QED
    BY <2>1, <2>2, <2>4, <2>5, <2>6, <2>7 DEF SdkIInv
<1>17. CASE UNCHANGED sdkVars
  BY <1>17 DEF sdkVars, ricSide, SdkIInv, SdkTypeOK, CallsFitTheOwner, LateCalls, Registration, Dictionary, BothSides,
     RoundGoesOn, Early, Stopping, Gone, Fresh, Listed
<1> QED
  BY <1>1, <1>2, <1>3, <1>4, <1>5, <1>6, <1>7, <1>8, <1>9, <1>10, <1>11, <1>12, <1>13, <1>14, <1>15, <1>16, <1>17 DEF SdkNext, SdkProgress

\* It gives what the run checks.
LEMMA SdkIInvImplies ==
  SdkIInv => SdkTypeOK /\ SdkAndRicAgree /\ RoundsReachTheirSubscriptions /\ StopLeavesNothing
<1> SUFFICES ASSUME SdkIInv
             PROVE  SdkTypeOK /\ SdkAndRicAgree /\ RoundsReachTheirSubscriptions /\ StopLeavesNothing
  OBVIOUS
<1>1. SdkTypeOK /\ RoundsReachTheirSubscriptions
  BY DEF SdkIInv, RoundGoesOn, RoundsReachTheirSubscriptions
<1>2. SdkAndRicAgree
  BY DEF SdkIInv, BothSides, Gone, SdkAndRicAgree
<1>3. StopLeavesNothing
  BY DEF SdkIInv, Registration, Gone, StopLeavesNothing
<1> QED
  BY <1>1, <1>2, <1>3

-----------------------------------------------------------------------------
(* Slices and subnets.                                                      *)

\* Each subnet's parent lists it.
ParentsListThem ==
  \A s \in DOMAIN nssi : nssi[s] # NoSlice => nsi[nssi[s]] # NoSlice /\ s \in nsi[nssi[s]].subnets

\* Slices and subnets with their types.
SliceIInv ==
  /\ nsi \in [Nsis -> NsiRecords \cup {NoSlice}]
  /\ nssi \in [DOMAIN nssi -> Nsis \cup {NoSlice}] /\ DOMAIN nssi \subseteq Nssis
  /\ ParentsListThem

\* The seeds of the manager.
LEMMA SliceInitInv == SliceInit => SliceIInv
<1> SUFFICES ASSUME SliceInit  PROVE SliceIInv
  OBVIOUS
<1> DEFINE seeded == UNION {Seeds[n].subnets : n \in DOMAIN Seeds}
           parent(s) == CHOOSE n \in DOMAIN Seeds : s \in Seeds[n].subnets
<1>1. nsi = [n \in Nsis |-> IF n \in DOMAIN Seeds THEN Seeds[n] ELSE NoSlice]
      /\ nssi = [s \in seeded |-> parent(s)]
  BY DEF SliceInit
<1>2. ASSUME NEW s \in seeded  PROVE parent(s) \in DOMAIN Seeds /\ s \in Seeds[parent(s)].subnets
  BY DEF SliceInit
<1>3. seeded \subseteq Nssis
  BY SlicingAssumption DEF NsiRecords
<1>4. nsi \in [Nsis -> NsiRecords \cup {NoSlice}] /\ \A n \in DOMAIN Seeds : nsi[n] = Seeds[n] /\ nsi[n] # NoSlice
  BY <1>1, SlicingAssumption
<1> HIDE DEF seeded, parent
<1> QED
  BY <1>1, <1>2, <1>3, <1>4, SlicingAssumption DEF SliceIInv, ParentsListThem

\* Every operation on slices and subnets keeps it.
LEMMA SliceNextInv == SliceIInv /\ [SliceNext]_sliceVars => SliceIInv'
<1> SUFFICES ASSUME SliceIInv, [SliceNext]_sliceVars  PROVE SliceIInv'
  OBVIOUS
<1>1. ASSUME NEW s \in Nssis, CreateNssi(s)  PROVE SliceIInv'
  BY <1>1 DEF CreateNssi, SliceIInv, ParentsListThem
<1>2. ASSUME NEW n \in Nsis, NEW rec \in NsiRecords, CreateNsi(n, rec)  PROVE SliceIInv'
  <2>1. rec # NoSlice
    BY SlicingAssumption
  <2>2. \A s \in DOMAIN nssi : nssi[s] # n
    BY <1>2, SlicingAssumption DEF CreateNsi, SliceIInv, ParentsListThem
  <2> QED
    BY <1>2, <2>1, <2>2, SlicingAssumption DEF CreateNsi, SliceIInv, ParentsListThem
<1>3. ASSUME NEW n \in Nsis, DeleteNsi(n)  PROVE SliceIInv'
  BY <1>3, SlicingAssumption DEF DeleteNsi, SliceIInv, ParentsListThem
<1>4. ASSUME NEW n \in Nsis, NEW d \in Ratios, NEW l \in Ratios, SetRrmPolicy(n, d, l)  PROVE SliceIInv'
  <2>1. PICK rec \in NsiRecords : nsi[n] = rec
    BY <1>4 DEF SetRrmPolicy, SliceIInv
  <2> DEFINE f == [rec EXCEPT !.dedicated = d, !.least = l]
  <2>2. f \in NsiRecords /\ f.subnets = rec.subnets
    BY <2>1 DEF NsiRecords
  <2>3. nsi' = [nsi EXCEPT ![n] = f] /\ nssi' = nssi
    BY <1>4, <2>1 DEF SetRrmPolicy
  <2> HIDE DEF f
  <2>4. f # NoSlice
    BY <2>2, SlicingAssumption
  <2> QED
    BY <2>1, <2>2, <2>3, <2>4 DEF SliceIInv, ParentsListThem
<1>5. CASE UNCHANGED sliceVars
  BY <1>5 DEF sliceVars, SliceIInv, ParentsListThem
<1> QED
  BY <1>1, <1>2, <1>3, <1>4, <1>5 DEF SliceNext

\* Rounding to a tenth of a Mbit/s moves a value by at most half of one, and there is a
\* nearest tenth.
LEMMA NearestTenths ==
  ASSUME NEW x \in Nat
  PROVE  LET down == 1000 * (x \div 1000)
             nearest == {m \in {down, down + 1000} : m - 500 <= x /\ x <= m + 500}
         IN  /\ nearest # {}
             /\ \A m \in nearest : \E q \in Nat : m = 1000 * q /\ m - 500 <= x /\ x <= m + 500
<1>1. PICK q \in Nat : q = x \div 1000
  OBVIOUS
<1>2. 1000 * q <= x /\ x < 1000 * q + 1000
  BY <1>1
<1> DEFINE nearest == {m \in {1000 * q, 1000 * q + 1000} : m - 500 <= x /\ x <= m + 500}
<1>3. nearest # {}
  <2>1. CASE x <= 1000 * q + 500
    <3>1. 1000 * q \in nearest
      BY <1>2, <2>1
    <3> QED
      BY <3>1
  <2>2. CASE x > 1000 * q + 500
    <3>1. 1000 * q + 1000 - 500 <= x
      BY <2>2
    <3>2. x <= 1000 * q + 1000 + 500
      BY <1>2
    <3> DEFINE up == 1000 * q + 1000
    <3>3. up - 500 <= x /\ x <= up + 500
      BY <3>1, <3>2
    <3>4. up \in {1000 * q, 1000 * q + 1000}
      OBVIOUS
    <3> HIDE DEF up
    <3>5. up \in nearest
      BY <3>3, <3>4
    <3> QED
      BY <3>5
  <2> QED
    BY <2>1, <2>2
<1>4. ASSUME NEW m \in nearest  PROVE \E r \in Nat : m = 1000 * r /\ m - 500 <= x /\ x <= m + 500
  <2>1. PICK r \in Nat : m = 1000 * r
    <3>1. PICK r \in Nat : r = q + 1
      OBVIOUS
    <3>2. 1000 * q + 1000 = 1000 * r
      BY <3>1
    <3>3. m = 1000 * q \/ m = 1000 * q + 1000
      OBVIOUS
    <3>4. CASE m = 1000 * q
      BY <3>4
    <3>5. CASE m = 1000 * q + 1000
      BY <3>2, <3>5
    <3> QED
      BY <3>3, <3>4, <3>5
  <2> QED
    BY <2>1
<1> HIDE DEF nearest
<1>5. nearest # {} /\ \A m \in nearest : \E r \in Nat : m = 1000 * r /\ m - 500 <= x /\ x <= m + 500
  BY <1>3, <1>4
<1> QED
  BY <1>1, <1>5 DEF nearest

\* What can be measured of a slice, in terms of the guarantee, the limit and the share.
LEMMA WhatIsAchieved ==
  ASSUME NEW rec \in NsiRecords
  PROVE  /\ rec.guaranteed \in Nat /\ rec.limit \in Nat /\ Share(rec) * rec.limit \in Nat
         /\ Achieved(rec) # {}
         /\ \A m \in Achieved(rec) : \E q, x \in Nat :
              /\ m = 1000 * q /\ m - 500 <= x /\ x <= m + 500
              /\ x = IF 100 * rec.limit < 100 * rec.guaranteed + Share(rec) * rec.limit
                     THEN 100 * rec.limit ELSE 100 * rec.guaranteed + Share(rec) * rec.limit
<1>1. rec.guaranteed \in Nat /\ rec.limit \in Nat /\ Share(rec) \in Nat
  <2>1. rec.guaranteed \in Throughputs /\ rec.limit \in Throughputs /\ rec.dedicated \in Ratios /\ rec.least \in Ratios
    BY DEF NsiRecords
  <2>2. Throughputs \subseteq Nat /\ \A x \in Ratios : x \in Nat
    BY SlicingAssumption
  <2> QED
    BY <2>1, <2>2 DEF Share
<1>2. PICK s \in Nat : s = Share(rec) * rec.limit
  BY <1>1
<1> DEFINE x == IF 100 * rec.limit < 100 * rec.guaranteed + s
                THEN 100 * rec.limit ELSE 100 * rec.guaranteed + s
<1>3. x \in Nat
  BY <1>1
<1>4. Achieved(rec) = LET down == 1000 * (x \div 1000)
                      IN  {m \in {down, down + 1000} : m - 500 <= x /\ x <= m + 500}
  BY <1>2 DEF Achieved
<1>5. /\ Achieved(rec) # {}
      /\ \A m \in Achieved(rec) : \E q \in Nat : m = 1000 * q /\ m - 500 <= x /\ x <= m + 500
  <2> HIDE DEF x
  <2> QED
    BY <1>3, <1>4, NearestTenths
<1>6. x = IF 100 * rec.limit < 100 * rec.guaranteed + Share(rec) * rec.limit
          THEN 100 * rec.limit ELSE 100 * rec.guaranteed + Share(rec) * rec.limit
  BY <1>2
<1> HIDE DEF x
<1>7. ASSUME NEW m \in Achieved(rec)
      PROVE  \E q, y \in Nat :
              /\ m = 1000 * q /\ m - 500 <= y /\ y <= m + 500
              /\ y = IF 100 * rec.limit < 100 * rec.guaranteed + Share(rec) * rec.limit
                     THEN 100 * rec.limit ELSE 100 * rec.guaranteed + Share(rec) * rec.limit
  <2>1. PICK q \in Nat : m = 1000 * q /\ m - 500 <= x /\ x <= m + 500
    BY <1>5
  <2> WITNESS q \in Nat, x \in Nat
  <2> QED
    BY <2>1, <1>6
<1> QED
  BY <1>1, <1>2, <1>5, <1>7

\* One measurement: the arithmetic of the three claims, free of the slice.
LEMMA OneMeasurement ==
  ASSUME NEW g \in Nat, NEW l \in Nat, NEW s \in Nat, NEW q \in Nat, NEW x \in Nat,
         x = IF 100 * l < 100 * g + s THEN 100 * l ELSE 100 * g + s,
         1000 * q - 500 <= x, x <= 1000 * q + 500
  PROVE  /\ 1000 * q >= 100 * g => g <= l + 5
         /\ ~(1000 * q >= 100 * g) => l < g + 5 \/ s < 500
         /\ g % 10 = 0 /\ l % 10 = 0 => ((1000 * q >= 100 * g) <=> g <= l)
<1>1. 1000 * q >= 100 * g => g <= l + 5
  OBVIOUS
<1>2. ~(1000 * q >= 100 * g) => l < g + 5 \/ s < 500
  OBVIOUS
<1>3. ASSUME g % 10 = 0, l % 10 = 0  PROVE (1000 * q >= 100 * g) <=> g <= l
  <2>1. PICK a \in Nat, b \in Nat : g = 10 * a /\ l = 10 * b
    <3>1. g = 10 * (g \div 10) /\ l = 10 * (l \div 10) /\ g \div 10 \in Nat /\ l \div 10 \in Nat
      BY <1>3
    <3> QED
      BY <3>1
  <2>2. CASE g <= l
    <3>1. x >= 1000 * a
      BY <2>1, <2>2
    <3>2. q >= a
      BY <3>1
    <3> QED
      BY <2>1, <2>2, <3>2
  <2>3. CASE g > l
    <3>1. x = 1000 * b /\ b < a
      BY <2>1, <2>3
    <3>2. q <= b
      BY <3>1
    <3> QED
      BY <2>1, <2>3, <3>1, <3>2
  <2> QED
    BY <2>2, <2>3
<1> QED
  BY <1>1, <1>2, <1>3

\* So the report is as wrong as the rounding makes it, and no more.
LEMMA SliceIInvImplies == SliceIInv => SubnetsBelong /\ ReportsFollowTheLimit
<1> SUFFICES ASSUME SliceIInv  PROVE SubnetsBelong /\ ReportsFollowTheLimit
  OBVIOUS
<1>1. SubnetsBelong
  BY DEF SliceIInv, ParentsListThem, SubnetsBelong
<1>2. ASSUME NEW n \in Nsis, nsi[n] # NoSlice
      PROVE  LET promised == nsi[n].guaranteed  limit == nsi[n].limit IN
             /\ TRUE \in SlaReport(n) => promised <= limit + 5
             /\ FALSE \in SlaReport(n) => limit < promised + 5 \/ Share(nsi[n]) * limit < 500
             /\ promised % 10 = 0 /\ limit % 10 = 0 => SlaReport(n) = {promised <= limit}
  <2>1. PICK rec \in NsiRecords : rec = nsi[n]
    BY <1>2 DEF SliceIInv
  <2>2. SlaReport(n) = {m >= 100 * rec.guaranteed : m \in Achieved(rec)}
    BY <1>2, <2>1 DEF SlaReport, Conformant
  <2>3. PICK g \in Nat, l \in Nat, s \in Nat :
           g = rec.guaranteed /\ l = rec.limit /\ s = Share(rec) * rec.limit
    BY WhatIsAchieved
  <2>4. ASSUME NEW m \in Achieved(rec)
        PROVE  /\ m >= 100 * g => g <= l + 5
               /\ ~(m >= 100 * g) => l < g + 5 \/ s < 500
               /\ g % 10 = 0 /\ l % 10 = 0 => ((m >= 100 * g) <=> g <= l)
    <3>1. PICK q \in Nat, x \in Nat :
             /\ m = 1000 * q /\ m - 500 <= x /\ x <= m + 500
             /\ x = IF 100 * l < 100 * g + s THEN 100 * l ELSE 100 * g + s
      BY <2>3, WhatIsAchieved
    <3> QED
      BY <3>1, OneMeasurement
  <2>5. Achieved(rec) # {}
    BY WhatIsAchieved
  <2>6. SlaReport(n) = {m >= 100 * g : m \in Achieved(rec)}
    BY <2>2, <2>3
  <2>7. \A m \in Achieved(rec) : (m >= 100 * g) \in BOOLEAN
    OBVIOUS
  <2>8. TRUE \in SlaReport(n) => g <= l + 5
    BY <2>4, <2>6
  <2>9. FALSE \in SlaReport(n) => l < g + 5 \/ s < 500
    BY <2>4, <2>6
  <2>10. g % 10 = 0 /\ l % 10 = 0 => SlaReport(n) = {g <= l}
    BY <2>4, <2>5, <2>6
  <2> QED
    BY <2>1, <2>3, <2>8, <2>9, <2>10
<1> QED
  BY <1>1, <1>2 DEF ReportsFollowTheLimit

-----------------------------------------------------------------------------
(* The whole.                                                               *)

\* What the groups' invariants say together.
OrchestrationIInv ==
  /\ A1IInv /\ EiTypeOK
  /\ SdkIInv
  /\ SmoIInv /\ OcnIInv
  /\ AssIInv
  /\ SliceIInv

\* Every group starts with its invariant, whichever is in focus.
LEMMA OrchestrationInitInv == Init => OrchestrationIInv
BY A1InitInv, EiInitInv, SdkInitInv, SmoInitInv, OcnInitInv, AssInitInv, SliceInitInv
   DEF Init, OrchestrationIInv

\* A step of one group leaves the others' variables alone.
LEMMA OneGroupMoves ==
  ASSUME [Next]_vars
  PROVE  /\ [A1Next]_a1Vars /\ [EiNext]_eiVars /\ [SdkNext]_sdkVars /\ [SmoNext]_smoVars
         /\ [OcnNext]_ocnVars /\ [AssNext]_assVars /\ [SliceNext]_sliceVars
<1>1. CASE Next
  BY <1>1 DEF Next, ricVars, smVars
<1>2. CASE UNCHANGED vars
  BY <1>2 DEF vars, ricVars, smVars
<1> QED
  BY <1>1, <1>2

\* So every step of the whole keeps every group's invariant.
LEMMA OrchestrationNextInv == OrchestrationIInv /\ [Next]_vars => OrchestrationIInv'
<1> SUFFICES ASSUME OrchestrationIInv, [Next]_vars PROVE OrchestrationIInv'
  OBVIOUS
<1>1. A1IInv' /\ EiTypeOK'
  BY OneGroupMoves, A1NextInv, EiNextInv DEF OrchestrationIInv
<1>2. SdkIInv'
  BY OneGroupMoves, SdkNextInv DEF OrchestrationIInv
<1>3. SmoIInv' /\ OcnIInv'
  BY OneGroupMoves, SmoNextInv, OcnNextInv DEF OrchestrationIInv
<1>4. AssIInv'
  BY OneGroupMoves, AssNextInv DEF OrchestrationIInv
<1>5. SliceIInv'
  BY OneGroupMoves, SliceNextInv DEF OrchestrationIInv
<1> QED
  BY <1>1, <1>2, <1>3, <1>4, <1>5 DEF OrchestrationIInv

\* Whatever the constants, the invariant holds of every behaviour.
THEOREM OrchestrationInvariance == Spec => []OrchestrationIInv
BY OrchestrationInitInv, OrchestrationNextInv, PTL DEF Spec

\* rApp, Non-RT and Near-RT RIC agree on a policy whose last change ran alone and was
\* answered (rapp_sdk.py:225-345, non_rt_ric.py:296-373, near_rt_ric.py:452-530).
THEOREM PoliciesAlwaysAgree == Spec => []PolicyAgreement
<1>1. OrchestrationIInv => PolicyAgreement
  BY A1IInvImplies DEF OrchestrationIInv, PolicyAgreement
<1> QED
  BY <1>1, OrchestrationInvariance, PTL

\* What the management functions report is what happened (smo.py:297-430,
\* o_cloud_notification.py, the root-cause analysis, oran_slicing.py).
THEOREM ReportsAreAlwaysTrue == Spec => []ReportsAreTrue
<1>1. OrchestrationIInv => ReportsAreTrue
  BY SmoIInvImplies, AssIInvImplies, SliceIInvImplies DEF OrchestrationIInv, OcnIInv, ReportsAreTrue
<1> QED
  BY <1>1, OrchestrationInvariance, PTL

\* SDK and RIC agree on an xApp's subscriptions through lost and late answers, a round of
\* controls reaches what it owes, and a stop leaves nothing behind (xapp_sdk.py:199-560,
\* near_rt_ric.py:336-435, 582-594).
THEOREM SubscriptionsAlwaysAgree == Spec => []SubscriptionsInv
<1>1. OrchestrationIInv => SubscriptionsInv
  BY SdkIInvImplies DEF OrchestrationIInv, SubscriptionsInv
<1> QED
  BY <1>1, OrchestrationInvariance, PTL
=============================================================================
