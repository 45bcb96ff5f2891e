---------------------------- MODULE MCOrchestration ----------------------------
(***************************************************************************)
(* What manages the network: A1 policies and enrichment information, the    *)
(* SMO's workflow, the notifications of the O-Cloud, service assurance, the *)
(* xApp SDK and RAN slicing.  The groups share no state and send each other *)
(* nothing, so a behaviour is one of one group, the one in focus, while the *)
(* others rest in an initial state.                                         *)
(***************************************************************************)
EXTENDS A1Policy, SmoWorkflow, Assurance, XappSdk, Slicing

VARIABLE focus

ricVars == <<a1Vars, eiVars, sdkVars>>
smVars  == <<smoVars, ocnVars, assVars, sliceVars>>
vars    == <<focus, ricVars, smVars>>

\* Where a group may start in several states and is not in focus, one will do.
Init ==
  /\ focus \in {"a1", "enrichment", "xapp", "workflow", "notifications", "assurance", "slicing"}
  /\ A1Init /\ EiInit /\ SdkInit /\ SmoInit /\ OcnInit /\ AssInit /\ SliceInit
  /\ focus # "a1" => nearUp
  /\ focus # "enrichment" => ~peerUp

Focus(part) == focus = part /\ UNCHANGED focus

Next ==
  \/ Focus("a1") /\ A1Next /\ UNCHANGED <<eiVars, sdkVars, smVars>>
  \/ Focus("enrichment") /\ EiNext /\ UNCHANGED <<a1Vars, sdkVars, smVars>>
  \/ Focus("xapp") /\ SdkNext /\ UNCHANGED <<a1Vars, eiVars, smVars>>
  \/ Focus("workflow") /\ SmoNext /\ UNCHANGED <<ricVars, ocnVars, assVars, sliceVars>>
  \/ Focus("notifications") /\ OcnNext /\ UNCHANGED <<ricVars, smoVars, assVars, sliceVars>>
  \/ Focus("assurance") /\ AssNext /\ UNCHANGED <<ricVars, smoVars, ocnVars, sliceVars>>
  \/ Focus("slicing") /\ SliceNext /\ UNCHANGED <<ricVars, smoVars, ocnVars, assVars>>

\* A call that was made is answered or its limit expires; the rApp's stop goes on whenever
\* a call slot, which only this instance bounds, is free again; the heartbeat, the
\* workflow and the two monitor threads of service assurance go on.
Fairness ==
  /\ \A c \in A1Calls : WF_a1Vars(focus = "a1" /\ A1Progress(c))
  /\ SF_a1Vars(focus = "a1" /\ RappProgress)
  /\ WF_eiVars(focus = "enrichment" /\ Heartbeat)
  /\ WF_sdkVars(focus = "xapp" /\ SdkProgress)
  /\ \A r \in Requests : WF_smoVars(focus = "workflow" /\ SmoProgress(r))
  /\ WF_assVars(focus = "assurance" /\ SlaRoundStarts)
  /\ WF_assVars(focus = "assurance" /\ AnomalyRoundStarts)
  /\ \A c \in Checked : WF_assVars(focus = "assurance" /\ CheckThreshold(c))
  /\ \A k \in Kqis : WF_assVars(focus = "assurance" /\ AnalyzeKqi(k))

Spec == Init /\ [][Next]_vars /\ Fairness
-----------------------------------------------------------------------------
MCTotals == {<<0, 0>>, <<4, 1>>, <<4, 4>>}
MCSlas ==
  LET threshold(value) == {[kqi |-> "r", op |-> ">=", value |-> value]}
  IN  {[thresholds |-> threshold(90), severity |-> "critical"],
       [thresholds |-> threshold(50), severity |-> "warning"]}
MCSeeds ==
  [n \in {CHOOSE n \in Nsis : TRUE} |->
     [subnets |-> {CHOOSE s \in Nssis : TRUE}, guaranteed |-> 10, limit |-> 20,
      dedicated |-> 0, least |-> 40]]
-----------------------------------------------------------------------------
\* (Each invariant says nothing of states in which its group only rests.)

\* The three hops agree on a policy whose last change ran alone and was answered
\* (rapp_sdk.py:225-345, non_rt_ric.py:296-373, near_rt_ric.py:452-530).
PolicyAgreement ==
  /\ focus = "a1" => A1TypeOK /\ PoliciesAgree
  /\ focus = "enrichment" => EiTypeOK

\* What the management functions report is what happened: the SMO's outcome of a request
\* (smo.py:297-430), the notification history (o_cloud_notification.py), what a root-cause
\* analysis saw of its trigger, which slice a subnet belongs to, and whether a slice gets
\* what it was promised (oran_slicing.py).
ReportsAreTrue ==
  /\ focus = "workflow" => SmoTypeOK /\ OutcomeIsTrue
  /\ focus = "notifications" => HistoryIsTheNewest
  /\ focus = "assurance" => AssTypeOK /\ AnalysesSeeTheirTrigger
  /\ focus = "slicing" => SubnetsBelong /\ ReportsFollowTheLimit

\* The SDK and the RIC agree on an xApp's subscriptions through lost and late answers, a
\* control round goes to the nodes it was decided on, and a stop leaves nothing behind
\* (xapp_sdk.py:199-560, near_rt_ric.py:336-435, 582-594).
SubscriptionsInv ==
  focus = "xapp" =>
    SdkTypeOK /\ SdkAndRicAgree /\ RoundsReachTheirSubscriptions /\ StopLeavesNothing

\* What is under way ends, whoever is silent: the rApp's and the xApp's stop, the SMO's
\* workflow; a peer that stays is noticed as connected, and a breach that stays as a
\* violation.
OrchestrationProgresses ==
  /\ StopEnds /\ XappStops /\ WorkflowsEnd /\ ConnectionNoticed
  /\ focus = "assurance" => BreachesNoticed
==============================================================================
