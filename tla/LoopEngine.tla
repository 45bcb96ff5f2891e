------------------------------ MODULE LoopEngine ------------------------------
(***************************************************************************)
(* What the ZSM engine promises of its loops, without the tasks that run   *)
(* them and the awaits between their phases: a loop works only while it is *)
(* on, has one action under way at a time and settles it before the next;  *)
(* to switch the loop off abandons its action, and what was abandoned is   *)
(* never settled.                                                          *)
(***************************************************************************)
CONSTANTS
  Loops,
  Actions,
  NoLoop    \* the owner of an action not yet begun

VARIABLES
  on,         \* loops that are switched on
  owner,      \* the loop each action is carried out for
  progress    \* "none", "executing", "completed", "failed" or "abandoned"

engineVars == <<on, owner, progress>>

Init ==
  /\ on = {}
  /\ owner = [a \in Actions |-> NoLoop]
  /\ progress = [a \in Actions |-> "none"]

\* Progress once what loop l has under way has come to this end.
EndedWith(l, end) ==
  [a \in Actions |->
    IF owner[a] = l /\ progress[a] = "executing" THEN end ELSE progress[a]]

SwitchOn(l) ==
  /\ l \notin on
  /\ on' = on \cup {l}
  /\ UNCHANGED <<owner, progress>>

SwitchOff(l) ==
  /\ on' = on \ {l}
  /\ progress' = EndedWith(l, "abandoned")
  /\ UNCHANGED owner

Settle(l) ==
  /\ l \in on
  /\ \E end \in {"completed", "failed"} : progress' = EndedWith(l, end)
  /\ UNCHANGED <<on, owner>>

\* The loop's next action begins when the one before it has ended.
Act(l) ==
  /\ l \in on
  /\ \E a \in Actions, end \in {"completed", "failed"} :
       /\ progress[a] = "none"
       /\ progress' = [EndedWith(l, end) EXCEPT ![a] = "executing"]
       /\ owner' = [owner EXCEPT ![a] = l]
  /\ UNCHANGED on

Next == \E l \in Loops : SwitchOn(l) \/ SwitchOff(l) \/ Settle(l) \/ Act(l)

Spec == Init /\ [][Next]_engineVars
==============================================================================
