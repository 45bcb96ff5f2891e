--------------------------- MODULE RemediationGate ---------------------------
(***************************************************************************)
(* What the guardrail promises, without the stages that lead to it: a      *)
(* fault is vetted only while crisis mode is off, audited only if its      *)
(* fault passes the gate, and acted on only after its audit.  A fault may  *)
(* be refused at any time before its audit.                                *)
(***************************************************************************)
CONSTANTS
  Walks,
  Faults,
  NoFault,
  Passing   \* the faults the gate lets through

VARIABLES
  crisis,
  subject,    \* the fault each walk is about
  status,     \* "open", "vetting", "audited" or "refused"
  acted       \* walks whose action reached the field

gateVars == <<crisis, subject, status, acted>>

Init ==
  /\ crisis = FALSE
  /\ subject = [w \in Walks |-> NoFault]
  /\ status = [w \in Walks |-> "open"]
  /\ acted = {}

Open(w) ==
  /\ status[w] = "open" /\ subject[w] = NoFault
  /\ \E f \in Faults : subject' = [subject EXCEPT ![w] = f]
  /\ UNCHANGED <<crisis, status, acted>>

StartVetting(w) ==
  /\ ~crisis
  /\ status[w] = "open" /\ subject[w] # NoFault
  /\ status' = [status EXCEPT ![w] = "vetting"]
  /\ UNCHANGED <<crisis, subject, acted>>

Admit(w) ==
  /\ status[w] = "vetting" /\ subject[w] \in Passing
  /\ status' = [status EXCEPT ![w] = "audited"]
  /\ UNCHANGED <<crisis, subject, acted>>

Refuse(w) ==
  /\ status[w] \in {"open", "vetting"} /\ subject[w] # NoFault
  /\ status' = [status EXCEPT ![w] = "refused"]
  /\ UNCHANGED <<crisis, subject, acted>>

Act(w) ==
  /\ status[w] = "audited"
  /\ acted' = acted \cup {w}
  /\ UNCHANGED <<crisis, subject, status>>

SwitchCrisis ==
  /\ crisis' = ~crisis
  /\ UNCHANGED <<subject, status, acted>>

Next ==
  \/ \E w \in Walks : Open(w) \/ StartVetting(w) \/ Admit(w) \/ Refuse(w) \/ Act(w)
  \/ SwitchCrisis

Spec == Init /\ [][Next]_gateVars
==============================================================================
