-------------------------- MODULE ClosedLoop_proofs --------------------------
(* The ZSM engine's invariants, for any loops, tasks, actions and objects. *)
EXTENDS ClosedLoop, TLAPS

\* A registered task is a task of that loop which nobody has cancelled.
Registered ==
  \A l \in Loops : running[l] # NoTask =>
    /\ task[running[l]] # NoTask
    /\ task[running[l]].loop = l
    /\ ~task[running[l]].cancelled

\* A task's loop exists, and the object it has bound is one that was created.
Bound ==
  \A t \in Tasks : task[t] # NoTask =>
    /\ version[task[t].loop] > 0
    /\ task[t].version <= version[task[t].loop]
    /\ Uncancelled(t) /\ task[t].at # "scheduled" => task[t].version \in Versions

\* What a task waits for at the VNF manager is an action of its own.
Awaited ==
  \A t \in Tasks : task[t] # NoTask /\ task[t].at = "acting" =>
    /\ task[t].action \in Actions
    /\ action[task[t].action] # NoAction
    /\ action[task[t].action].task = t

IInv ==
  LoopTypeOK /\ OneTaskPerLoop /\ OpenActionsExplained /\ Registered /\ Bound /\ Awaited

LEMMA InitInv == LoopInit => IInv
<1> SUFFICES ASSUME LoopInit PROVE IInv
  OBVIOUS
<1>1. LoopTypeOK
  BY ClosedLoopAssumption DEF LoopInit, LoopTypeOK
<1>2. OneTaskPerLoop /\ OpenActionsExplained /\ Registered /\ Bound /\ Awaited
  BY DEF LoopInit, OneTaskPerLoop, OpenActionsExplained, Registered, Bound, Awaited, Uncancelled, Live
<1> QED
  BY <1>1, <1>2 DEF IInv

LEMMA CreateKeepsInv ==
  ASSUME IInv, NEW l \in Loops, CreateClosedLoop(l)
  PROVE  IInv'
<1>1. PICK s \in {"INACTIVE", "ACTIVE"} : state' = [state EXCEPT ![l][version[l] + 1] = s]
  BY DEF CreateClosedLoop
<1>2. version[l] \in 0..MaxVersions /\ version[l] + 1 \in Versions
  BY ClosedLoopAssumption DEF IInv, LoopTypeOK, CreateClosedLoop, Versions
<1>3. LoopTypeOK'
  BY <1>1, <1>2 DEF IInv, LoopTypeOK, CreateClosedLoop, Versions
<1>4. /\ version' = [version EXCEPT ![l] = @ + 1]
      /\ UNCHANGED <<task, running, action>>
  BY DEF CreateClosedLoop
<1>5. Bound'
  BY <1>2, <1>4 DEF IInv, Bound, LoopTypeOK, TaskRecords, Uncancelled, Live, Versions
<1>6. ASSUME NEW t \in Tasks, Uncancelled(t)', task'[t].at # "scheduled"
      PROVE  state'[task[t].loop][task[t].version] = "ACTIVE"
  <2>1. /\ task[t] \in TaskRecords /\ Uncancelled(t)
        /\ task[t].version \in Versions /\ task[t].version <= version[task[t].loop]
        /\ state[task[t].loop][task[t].version] = "ACTIVE"
    BY <1>4, <1>6 DEF IInv, LoopTypeOK, OneTaskPerLoop, Bound, Uncancelled, Live
  <2>2. task[t].loop = l => task[t].version # version[l] + 1
    BY <1>2, <2>1 DEF Versions
  <2> QED
    BY <1>1, <1>2, <2>1, <2>2 DEF IInv, LoopTypeOK, TaskRecords
<1>7. OneTaskPerLoop' /\ OpenActionsExplained' /\ Registered' /\ Awaited'
  BY <1>4, <1>6 DEF IInv, OneTaskPerLoop, OpenActionsExplained, Registered, Awaited, Uncancelled, Live
<1> QED
  BY <1>3, <1>5, <1>7 DEF IInv

LEMMA StartKeepsInv ==
  ASSUME IInv, NEW l \in Loops, StartClosedLoop(l)
  PROVE  IInv'
<1> DEFINE fresh == [loop |-> l, version |-> 0, at |-> "scheduled",
                     cancelled |-> FALSE, action |-> NoAction]
<1>1. PICK t \in Tasks :
        /\ task[t] = NoTask
        /\ task' = [task EXCEPT ![t] = fresh]
        /\ running' = [running EXCEPT ![l] = t]
  BY DEF StartClosedLoop
<1>2. /\ version[l] > 0 /\ running[l] = NoTask
      /\ state' = [state EXCEPT ![l][version[l]] = "ACTIVE"]
      /\ UNCHANGED <<version, action>>
  BY DEF StartClosedLoop
<1>3. fresh \in TaskRecords /\ fresh # NoTask /\ t # NoTask
  <2>1. fresh \in TaskRecords
    BY ClosedLoopAssumption DEF TaskRecords
  <2> QED
    BY <2>1, ClosedLoopAssumption
<1>4. version[l] \in Versions
  BY <1>2 DEF IInv, LoopTypeOK, Versions
<1>5. LoopTypeOK'
  BY <1>1, <1>2, <1>3, <1>4 DEF IInv, LoopTypeOK
<1>6. /\ task'[t] = fresh /\ running'[l] = t
      /\ \A u \in Tasks : u # t => task'[u] = task[u]
      /\ \A k \in Loops : k # l => running'[k] = running[k] /\ state'[k] = state[k]
  BY <1>1, <1>2 DEF IInv, LoopTypeOK
<1>7. Registered'
  BY <1>1, <1>3, <1>6 DEF IInv, Registered, LoopTypeOK
<1>8. Bound' /\ Awaited' /\ OpenActionsExplained'
  BY <1>1, <1>2, <1>3, <1>6
  DEF IInv, Bound, Awaited, OpenActionsExplained, LoopTypeOK, TaskRecords, ActionRecords, Uncancelled, Live
<1>9. ASSUME NEW u \in Tasks, Uncancelled(u)'
      PROVE  /\ running'[task'[u].loop] = u
             /\ task'[u].at # "scheduled" => state'[task'[u].loop][task'[u].version] = "ACTIVE"
  <2>1. CASE u = t
    BY <1>6, <2>1
  <2>2. CASE u # t
    <3>1. task[u] \in TaskRecords /\ Uncancelled(u) /\ task'[u] = task[u]
      BY <1>6, <1>9, <2>2 DEF IInv, LoopTypeOK, Uncancelled, Live
    <3>2. running[task[u].loop] = u /\ task[u].loop \in Loops
      BY <3>1 DEF IInv, OneTaskPerLoop, TaskRecords
    <3>3. task[u].loop # l
      BY <1>2, <3>1, <3>2, ClosedLoopAssumption
    <3> QED
      BY <1>6, <3>1, <3>2, <3>3 DEF IInv, OneTaskPerLoop
  <2> QED
    BY <2>1, <2>2
<1>10. OneTaskPerLoop'
  BY <1>9 DEF OneTaskPerLoop
<1> QED
  BY <1>5, <1>7, <1>8, <1>10 DEF IInv

LEMMA StopKeepsInv ==
  ASSUME IInv, NEW l \in Loops, StopClosedLoop(l)
  PROVE  IInv'
<1>1. /\ version[l] > 0
      /\ state' = [state EXCEPT ![l][version[l]] = "INACTIVE"]
      /\ running' = [running EXCEPT ![l] = NoTask]
      /\ task' = [t \in Tasks |->
           IF t = running[l] /\ Live(t) THEN [task[t] EXCEPT !.cancelled = TRUE] ELSE task[t]]
      /\ UNCHANGED <<version, action>>
  BY DEF StopClosedLoop
<1>2. version[l] \in Versions
  BY <1>1 DEF IInv, LoopTypeOK, Versions
<1>3. ASSUME NEW t \in Tasks, task[t] # NoTask
      PROVE  /\ task[t] \in TaskRecords
             /\ task'[t] \in TaskRecords /\ task'[t] # NoTask
             /\ task'[t].loop = task[t].loop /\ task'[t].version = task[t].version
             /\ task'[t].at = task[t].at /\ task'[t].action = task[t].action
             /\ task[t].cancelled => task'[t].cancelled
             /\ t = running[l] /\ Live(t) => task'[t].cancelled
             /\ t # running[l] => task'[t] = task[t]
  <2>1. task[t] \in TaskRecords
    BY <1>3 DEF IInv, LoopTypeOK
  <2> QED
    BY <1>1, <1>3, <2>1, ClosedLoopAssumption DEF TaskRecords
<1>4. \A t \in Tasks : task[t] = NoTask => task'[t] = NoTask
  BY <1>1 DEF Live
<1>5. LoopTypeOK'
  BY <1>1, <1>2, <1>3, <1>4 DEF IInv, LoopTypeOK
<1>6. \A k \in Loops : k # l => running'[k] = running[k] /\ state'[k] = state[k]
  BY <1>1 DEF IInv, LoopTypeOK
<1>7. Registered'
  <2> SUFFICES ASSUME NEW k \in Loops, running'[k] # NoTask
               PROVE  /\ task'[running'[k]] # NoTask
                      /\ task'[running'[k]].loop = k /\ ~task'[running'[k]].cancelled
    BY DEF Registered
  <2>1. k # l /\ running'[k] = running[k] /\ running[k] \in Tasks
    BY <1>1, <1>6 DEF IInv, LoopTypeOK
  <2>2. task[running[k]] # NoTask /\ task[running[k]].loop = k /\ ~task[running[k]].cancelled
    BY <2>1 DEF IInv, Registered
  <2>3. running[k] # running[l]
    BY <2>1, <2>2 DEF IInv, Registered, LoopTypeOK
  <2> QED
    BY <1>3, <2>1, <2>2, <2>3
<1>8. ASSUME NEW t \in Tasks, Uncancelled(t)'
      PROVE  Uncancelled(t) /\ task'[t] = task[t] /\ task[t] \in TaskRecords /\ task[t].loop # l
  <2>1. /\ task[t] # NoTask /\ task[t] \in TaskRecords /\ Uncancelled(t) /\ t # running[l]
    BY <1>3, <1>4, <1>8 DEF Uncancelled, Live
  <2>2. running[task[t].loop] = t
    BY <2>1 DEF IInv, OneTaskPerLoop
  <2> QED
    BY <1>3, <2>1, <2>2
<1>9. OneTaskPerLoop'
  BY <1>6, <1>8 DEF IInv, OneTaskPerLoop, TaskRecords
<1>10. Bound'
  BY <1>1, <1>3, <1>4, <1>8 DEF IInv, Bound
<1>11. Awaited'
  BY <1>1, <1>3, <1>4 DEF IInv, Awaited
<1>12. OpenActionsExplained'
  BY <1>1, <1>3 DEF IInv, OpenActionsExplained, LoopTypeOK, ActionRecords
<1> QED
  BY <1>5, <1>7, <1>9, <1>10, <1>11, <1>12 DEF IInv

\* A step of a task that is not cancelled moves it to another await, on an
\* object of its loop.
LEMMA CheckKeepsInv ==
  ASSUME IInv, NEW t \in Tasks, Begin(t) \/ Wake(t)
  PROVE  IInv'
<1>1. /\ task[t] \in TaskRecords /\ Uncancelled(t) /\ task[t].at \in {"scheduled", "sleeping"}
      /\ task[t] # NoTask /\ task[t].loop \in Loops
  BY DEF Begin, Wake, Resumes, IInv, LoopTypeOK, Uncancelled, Live, TaskRecords
<1>2. PICK v \in Versions : v <= version[task[t].loop] /\ Check(t, v)
  <2>1. CASE Begin(t)
    <3>1. version[task[t].loop] \in Versions
      BY <1>1 DEF IInv, Bound, LoopTypeOK, Versions
    <3> QED
      BY <2>1, <3>1 DEF Begin, Versions
  <2>2. CASE Wake(t)
    BY <1>1, <2>2 DEF Wake, IInv, Bound, Resumes
  <2> QED
    BY <2>1, <2>2
<1>3. UNCHANGED <<version, state, running, action>>
  BY <1>2 DEF Check
<1>4. /\ task'[t] \in TaskRecords /\ task'[t] # NoTask
      /\ task'[t].loop = task[t].loop /\ task'[t].version = v
      /\ task'[t].cancelled = task[t].cancelled /\ task'[t].action = task[t].action
      /\ task'[t].at = IF state[task[t].loop][v] = "ACTIVE" THEN "observing" ELSE "ended"
      /\ \A u \in Tasks : u # t => task'[u] = task[u]
  <2>1. v \in 0..MaxVersions
    BY ClosedLoopAssumption DEF Versions
  <2>2. /\ task'[t] = [task[t] EXCEPT !.version = v,
                        !.at = IF state[task[t].loop][v] = "ACTIVE" THEN "observing" ELSE "ended"]
        /\ \A u \in Tasks : u # t => task'[u] = task[u]
    BY <1>2 DEF Check, IInv, LoopTypeOK
  <2>3. task'[t] \in TaskRecords
    BY <1>1, <2>1, <2>2 DEF TaskRecords
  <2> QED
    BY <1>1, <2>2, <2>3, ClosedLoopAssumption DEF TaskRecords
<1>5. LoopTypeOK'
  BY <1>2, <1>3, <1>4 DEF Check, IInv, LoopTypeOK
<1>6. OneTaskPerLoop'
  BY <1>1, <1>3, <1>4 DEF IInv, OneTaskPerLoop, Uncancelled, Live
<1>7. Registered'
  BY <1>3, <1>4 DEF IInv, Registered, LoopTypeOK
<1>8. Bound'
  BY <1>1, <1>2, <1>3, <1>4 DEF IInv, Bound, Uncancelled, Live
<1>9. Awaited'
  BY <1>3, <1>4 DEF IInv, Awaited
<1>10. OpenActionsExplained'
  BY <1>1, <1>3, <1>4 DEF IInv, OpenActionsExplained, LoopTypeOK, ActionRecords, Uncancelled
<1> QED
  BY <1>5, <1>6, <1>7, <1>8, <1>9, <1>10 DEF IInv

LEMMA CancelledKeepsInv ==
  ASSUME IInv, NEW t \in Tasks, Cancelled(t)
  PROVE  IInv'
<1>1. /\ task[t] \in TaskRecords /\ task[t] # NoTask /\ task[t].cancelled
      /\ task' = [task EXCEPT ![t].at = "ended"]
      /\ UNCHANGED <<version, state, running, action>>
  BY DEF Cancelled, Live, IInv, LoopTypeOK
<1>2. /\ task'[t] \in TaskRecords /\ task'[t] # NoTask
      /\ task'[t].loop = task[t].loop /\ task'[t].version = task[t].version
      /\ task'[t].cancelled /\ task'[t].action = task[t].action /\ task'[t].at = "ended"
      /\ \A u \in Tasks : u # t => task'[u] = task[u]
  BY <1>1, ClosedLoopAssumption DEF IInv, LoopTypeOK, TaskRecords
<1>3. LoopTypeOK'
  BY <1>1, <1>2 DEF IInv, LoopTypeOK
<1>4. OneTaskPerLoop' /\ Bound' /\ Awaited'
  BY <1>1, <1>2 DEF IInv, OneTaskPerLoop, Bound, Awaited, Uncancelled, Live
<1>5. Registered'
  BY <1>1, <1>2 DEF IInv, Registered, LoopTypeOK
<1>6. OpenActionsExplained'
  BY <1>1, <1>2 DEF IInv, OpenActionsExplained, LoopTypeOK, ActionRecords
<1> QED
  BY <1>3, <1>4, <1>5, <1>6 DEF IInv

\* What Proceed makes of a task and of the actions, of which at most the task's
\* own is settled.
LEMMA ProceedKeepsInv ==
  ASSUME IInv, NEW t \in Tasks, Observed(t) \/ Answered(t)
  PROVE  IInv'
<1>1. /\ task[t] \in TaskRecords /\ task[t] # NoTask /\ Uncancelled(t) /\ Live(t)
      /\ task[t].at \in {"observing", "acting"}
  BY DEF Observed, Answered, Resumes, IInv, LoopTypeOK, Uncancelled, Live
<1>2. PICK acts \in [Actions -> ActionRecords \cup {NoAction}] :
        /\ Proceed(t, acts)
        /\ \A a \in Actions : (acts[a] = NoAction) <=> (action[a] = NoAction)
        /\ \A a \in Actions : action[a] # NoAction => acts[a].task = action[a].task
        /\ \A a \in Actions : action[a] # NoAction /\ acts[a].state = "EXECUTING" =>
             action[a].state = "EXECUTING" /\ action[a].task # t
  <2>1. CASE Observed(t)
    <3>1. \A a \in Actions : action[a] # NoAction /\ action[a].state = "EXECUTING" =>
            action[a].task # t
      BY <2>1 DEF Observed, Resumes, IInv, OpenActionsExplained
    <3> QED
      BY <2>1, <3>1 DEF Observed, IInv, LoopTypeOK
  <2>2. CASE Answered(t)
    <3> DEFINE b == task[t].action
    <3>1. b \in Actions /\ action[b] # NoAction /\ action[b].task = t
      BY <1>1, <2>2 DEF Answered, Resumes, IInv, Awaited
    <3>2. PICK s \in {"COMPLETED", "FAILED"} : Proceed(t, Settled(t, s))
      BY <2>2 DEF Answered
    <3>3. /\ action[b] \in ActionRecords
          /\ [action[b] EXCEPT !.state = s] \in ActionRecords
          /\ [action[b] EXCEPT !.state = s].task = t
          /\ [action[b] EXCEPT !.state = s].state = s
      BY <3>1 DEF IInv, LoopTypeOK, ActionRecords
    <3>4. [action[b] EXCEPT !.state = s] # NoAction
      BY <3>3, ClosedLoopAssumption
    <3>5. /\ Settled(t, s) \in [Actions -> ActionRecords \cup {NoAction}]
          /\ Settled(t, s)[b] = [action[b] EXCEPT !.state = s]
          /\ \A a \in Actions : a # b => Settled(t, s)[a] = action[a]
      BY <3>1, <3>3 DEF Settled, IInv, LoopTypeOK
    <3>6. \A a \in Actions : a # b /\ action[a] # NoAction /\ action[a].state = "EXECUTING" =>
            action[a].task # t
      BY DEF IInv, OpenActionsExplained
    <3>7. \A a \in Actions : (Settled(t, s)[a] = NoAction) <=> (action[a] = NoAction)
      BY <3>1, <3>4, <3>5
    <3>8. \A a \in Actions : action[a] # NoAction => Settled(t, s)[a].task = action[a].task
      BY <3>1, <3>3, <3>5
    <3>9. \A a \in Actions : action[a] # NoAction /\ Settled(t, s)[a].state = "EXECUTING" =>
            action[a].state = "EXECUTING" /\ action[a].task # t
      BY <3>1, <3>3, <3>5, <3>6
    <3> QED
      BY <3>2, <3>5, <3>7, <3>8, <3>9
  <2> QED
    BY <2>1, <2>2
<1>3. PICK place \in {"acting", "sleeping"}, b \in Actions \cup {NoAction} :
        /\ task' = [task EXCEPT ![t].at = place, ![t].action = b]
        /\ place = "sleeping" => action' = acts
        /\ place = "acting" =>
             /\ b \in Actions /\ action[b] = NoAction
             /\ action' = [acts EXCEPT ![b] = [task |-> t, state |-> "EXECUTING"]]
  BY <1>2 DEF Proceed
<1>4. UNCHANGED <<version, state, running>>
  BY <1>2 DEF Proceed
<1>5. /\ task'[t] \in TaskRecords
      /\ task'[t].loop = task[t].loop /\ task'[t].version = task[t].version
      /\ task'[t].cancelled = task[t].cancelled /\ task'[t].action = b /\ task'[t].at = place
      /\ \A u \in Tasks : u # t => task'[u] = task[u]
  BY <1>1, <1>3 DEF IInv, LoopTypeOK, TaskRecords
<1>6. task'[t] # NoTask /\ [task |-> t, state |-> "EXECUTING"] \in ActionRecords
      /\ [task |-> t, state |-> "EXECUTING"] # NoAction
  <2>1. [task |-> t, state |-> "EXECUTING"] \in ActionRecords
    BY DEF ActionRecords
  <2> QED
    BY <1>5, <2>1, ClosedLoopAssumption
<1>7. LoopTypeOK'
  BY <1>2, <1>3, <1>4, <1>5, <1>6 DEF IInv, LoopTypeOK
<1>8. OneTaskPerLoop'
  BY <1>1, <1>4, <1>5 DEF IInv, OneTaskPerLoop, Uncancelled, Live
<1>9. Registered'
  BY <1>4, <1>5, <1>6 DEF IInv, Registered, LoopTypeOK
<1>10. Bound'
  BY <1>1, <1>4, <1>5 DEF IInv, Bound, Uncancelled, Live
<1>11. \A a \in Actions : action[a] # NoAction =>
         action'[a] = acts[a] /\ action'[a] # NoAction /\ action'[a].task = action[a].task
  BY <1>2, <1>3
<1>12. Awaited'
  <2> SUFFICES ASSUME NEW u \in Tasks, task'[u] # NoTask, task'[u].at = "acting"
               PROVE  /\ task'[u].action \in Actions
                      /\ action'[task'[u].action] # NoAction
                      /\ action'[task'[u].action].task = u
    BY DEF Awaited
  <2>1. CASE u = t
    BY <1>2, <1>3, <1>5, <1>6, <2>1
  <2>2. CASE u # t
    BY <1>5, <1>11, <2>2 DEF IInv, Awaited
  <2> QED
    BY <2>1, <2>2
<1>13. OpenActionsExplained'
  <2> SUFFICES ASSUME NEW a \in Actions, action'[a] # NoAction, action'[a].state = "EXECUTING"
               PROVE  /\ task'[action'[a].task] # NoTask /\ task'[action'[a].task].action = a
                      /\ \/ task'[action'[a].task].at = "acting"
                         \/ /\ task'[action'[a].task].at = "ended"
                            /\ task'[action'[a].task].cancelled
    BY DEF OpenActionsExplained
  <2>1. CASE action[a] # NoAction
    <3>1. action[a].state = "EXECUTING" /\ action[a].task # t /\ action'[a].task = action[a].task
      BY <1>2, <1>11, <2>1
    <3>2. action[a].task \in Tasks
      BY <2>1 DEF IInv, LoopTypeOK, ActionRecords
    <3> QED
      BY <1>5, <2>1, <3>1, <3>2 DEF IInv, OpenActionsExplained
  <2>2. CASE action[a] = NoAction
    <3>1. place = "acting" /\ a = b /\ action'[a] = [task |-> t, state |-> "EXECUTING"]
      BY <1>2, <1>3, <2>2
    <3> QED
      BY <1>5, <1>6, <3>1
  <2> QED
    BY <2>1, <2>2
<1> QED
  BY <1>7, <1>8, <1>9, <1>10, <1>12, <1>13 DEF IInv

LEMMA NextInv == IInv /\ [LoopNext]_loopVars => IInv'
<1> SUFFICES ASSUME IInv, [LoopNext]_loopVars PROVE IInv'
  OBVIOUS
<1>1. CASE UNCHANGED loopVars
  BY <1>1 DEF loopVars, IInv, LoopTypeOK, OneTaskPerLoop, OpenActionsExplained, Registered, Bound, Awaited,
    Uncancelled, Live
<1>2. CASE LoopNext
  BY <1>2, CreateKeepsInv, StartKeepsInv, StopKeepsInv, CheckKeepsInv, ProceedKeepsInv,
    CancelledKeepsInv DEF LoopNext, Step
<1> QED
  BY <1>1, <1>2

\* The inductive invariant holds of every behaviour of the ZSM engine.
THEOREM Invariance == LoopSpec => []IInv
<1> QED
  BY InitInv, NextInv, PTL DEF LoopSpec

\* The variables of the ZSM engine keep their types.
THEOREM TypesHold == LoopSpec => []LoopTypeOK
<1>1. IInv => LoopTypeOK
  BY DEF IInv
<1> QED
  BY <1>1, Invariance, PTL

\* Whatever is stopped, started and created again in between, a loop has one
\* task that observes and acts, the registered one, on an ACTIVE object.
THEOREM OneTaskRuns == LoopSpec => []OneTaskPerLoop
<1>1. IInv => OneTaskPerLoop
  BY DEF IInv
<1> QED
  BY <1>1, Invariance, PTL

\* An action is left EXECUTING only by the task that waits for its call, or that
\* was stopped while it did.
THEOREM OpenActionsHaveAReason == LoopSpec => []OpenActionsExplained
<1>1. IInv => OpenActionsExplained
  BY DEF IInv
<1> QED
  BY <1>1, Invariance, PTL
------------------------------------------------------------------------------
(* The tasks implement LoopEngine. *)

\* Whatever was ever begun was begun by a task.
Owned == \A a \in Actions : action[a] # NoAction => task[action[a].task] # NoTask

\* What a task waits for at the VNF manager nobody else has settled.
AwaitedIsOpen ==
  \A t \in Tasks : task[t] # NoTask /\ task[t].at = "acting" =>
    action[task[t].action].state = "EXECUTING"

EngineInv == IInv /\ Owned /\ AwaitedIsOpen

\* The actions with what task t had under way settled in state s.
SettledBy(t, acts, s) ==
  /\ acts \in [Actions -> ActionRecords \cup {NoAction}]
  /\ \A a \in Actions : (acts[a] = NoAction) <=> (action[a] = NoAction)
  /\ \A a \in Actions : action[a] # NoAction =>
       /\ acts[a].task = action[a].task
       /\ acts[a].state = IF action[a].task = t /\ action[a].state = "EXECUTING"
                            THEN s ELSE action[a].state

\* A task goes on to its next await with everything of its own settled.
LEMMA ProceedsFromSettled ==
  ASSUME EngineInv, NEW t \in Tasks, Observed(t) \/ Answered(t)
  PROVE  \E acts, s : s \in {"COMPLETED", "FAILED"} /\ SettledBy(t, acts, s) /\ Proceed(t, acts)
<1>1. task[t] # NoTask
  BY DEF Observed, Answered, Resumes, Live
<1>2. CASE Observed(t)
  <2>1. \A a \in Actions : action[a] # NoAction /\ action[a].state = "EXECUTING" =>
          action[a].task # t
    BY <1>2 DEF Observed, Resumes, EngineInv, IInv, OpenActionsExplained
  <2>2. SettledBy(t, action, "FAILED")
    BY <2>1 DEF SettledBy, EngineInv, IInv, LoopTypeOK
  <2> QED
    BY <1>2, <2>2 DEF Observed
<1>3. CASE Answered(t)
  <2> DEFINE b == task[t].action
  <2>1. PICK s \in {"COMPLETED", "FAILED"} : Proceed(t, Settled(t, s))
    BY <1>3 DEF Answered
  <2>2. /\ b \in Actions /\ action[b] # NoAction /\ action[b].task = t
        /\ action[b].state = "EXECUTING"
    BY <1>1, <1>3 DEF Answered, Resumes, EngineInv, IInv, Awaited, AwaitedIsOpen
  <2>3. /\ action[b] \in ActionRecords /\ [action[b] EXCEPT !.state = s] \in ActionRecords
        /\ [action[b] EXCEPT !.state = s].task = t
        /\ [action[b] EXCEPT !.state = s].state = s
    BY <2>2 DEF EngineInv, IInv, LoopTypeOK, ActionRecords
  <2>4. [action[b] EXCEPT !.state = s] # NoAction
    BY <2>3, ClosedLoopAssumption
  <2>5. /\ Settled(t, s) \in [Actions -> ActionRecords \cup {NoAction}]
        /\ Settled(t, s)[b] = [action[b] EXCEPT !.state = s]
        /\ \A a \in Actions : a # b => Settled(t, s)[a] = action[a]
    BY <2>2, <2>3 DEF Settled, EngineInv, IInv, LoopTypeOK
  <2>6. \A a \in Actions : a # b /\ action[a] # NoAction /\ action[a].state = "EXECUTING" =>
          action[a].task # t
    BY DEF EngineInv, IInv, OpenActionsExplained
  <2>7. SettledBy(t, Settled(t, s), s)
    BY <2>2, <2>3, <2>4, <2>5, <2>6 DEF SettledBy
  <2> QED
    BY <2>1, <2>7
<1> QED
  BY <1>2, <1>3

\* Then it begins at most one action, its own.
LEMMA ProceedBeginsOne ==
  ASSUME EngineInv, NEW t \in Tasks, task[t] # NoTask,
         NEW acts, NEW s, SettledBy(t, acts, s), Proceed(t, acts)
  PROVE  /\ running' = running
         /\ task[t] \in TaskRecords
         /\ task'[t].loop = task[t].loop /\ task'[t].cancelled = task[t].cancelled
         /\ task'[t] # NoTask
         /\ \A u \in Tasks : u # t => task'[u] = task[u]
         /\ \/ action' = acts /\ task'[t].at = "sleeping"
            \/ \E b \in Actions :
                 /\ action[b] = NoAction
                 /\ action'[b] # NoAction
                 /\ action'[b].task = t /\ action'[b].state = "EXECUTING"
                 /\ \A a \in Actions : a # b => action'[a] = acts[a]
                 /\ task'[t].at = "acting" /\ task'[t].action = b
<1>1. running' = running /\ task[t] \in TaskRecords
  BY DEF Proceed, EngineInv, IInv, LoopTypeOK
<1>2. CASE /\ action' = acts
           /\ task' = [task EXCEPT ![t].at = "sleeping", ![t].action = NoAction]
  <2>1. /\ task'[t] = [task[t] EXCEPT !.at = "sleeping", !.action = NoAction]
        /\ \A u \in Tasks : u # t => task'[u] = task[u]
    BY <1>2 DEF EngineInv, IInv, LoopTypeOK
  <2>2. /\ task'[t] \in TaskRecords /\ task'[t].loop = task[t].loop
        /\ task'[t].cancelled = task[t].cancelled /\ task'[t].at = "sleeping"
    BY <1>1, <2>1 DEF TaskRecords
  <2> QED
    BY <1>1, <1>2, <2>1, <2>2, ClosedLoopAssumption
<1>3. ASSUME NEW b \in Actions, action[b] = NoAction,
             action' = [acts EXCEPT ![b] = [task |-> t, state |-> "EXECUTING"]],
             task' = [task EXCEPT ![t].at = "acting", ![t].action = b]
      PROVE  /\ task'[t].loop = task[t].loop /\ task'[t].cancelled = task[t].cancelled
             /\ task'[t] # NoTask
             /\ \A u \in Tasks : u # t => task'[u] = task[u]
             /\ action'[b] # NoAction
             /\ action'[b].task = t /\ action'[b].state = "EXECUTING"
             /\ \A a \in Actions : a # b => action'[a] = acts[a]
             /\ task'[t].at = "acting" /\ task'[t].action = b
  <2>1. /\ task'[t] = [task[t] EXCEPT !.at = "acting", !.action = b]
        /\ \A u \in Tasks : u # t => task'[u] = task[u]
    BY <1>3 DEF EngineInv, IInv, LoopTypeOK
  <2>2. /\ task'[t] \in TaskRecords /\ task'[t].loop = task[t].loop
        /\ task'[t].cancelled = task[t].cancelled
        /\ task'[t].at = "acting" /\ task'[t].action = b
    BY <1>1, <2>1 DEF TaskRecords
  <2>3. /\ action'[b] = [task |-> t, state |-> "EXECUTING"]
        /\ \A a \in Actions : a # b => action'[a] = acts[a]
    BY <1>3 DEF SettledBy
  <2>4. [task |-> t, state |-> "EXECUTING"] \in ActionRecords
    BY DEF ActionRecords
  <2>5. action'[b] # NoAction
    BY <2>3, <2>4, ClosedLoopAssumption
  <2>6. task'[t] # NoTask
    BY <2>2, ClosedLoopAssumption
  <2> QED
    BY <2>1, <2>2, <2>3, <2>5, <2>6
<1> QED
  BY <1>1, <1>2, <1>3 DEF Proceed

\* What the other steps do to the tasks there are: no step but a stop cancels
\* one, and none starts to wait for an action.
LEMMA TasksStand ==
  ASSUME IInv,
         \/ \E l \in Loops : CreateClosedLoop(l) \/ StartClosedLoop(l) \/ StopClosedLoop(l)
         \/ \E t \in Tasks : Begin(t) \/ Wake(t) \/ Cancelled(t)
  PROVE  /\ action' = action
         /\ \A t \in Tasks : task[t] # NoTask =>
              /\ task'[t] # NoTask
              /\ task'[t].loop = task[t].loop
              /\ task'[t].action = task[t].action
              /\ \/ task'[t].cancelled = task[t].cancelled
                 \/ \E l \in Loops : StopClosedLoop(l) /\ t = running[l] /\ Live(t)
         /\ \A t \in Tasks : task'[t] # NoTask /\ task'[t].at = "acting" =>
              task[t] # NoTask /\ task[t].at = "acting"
<1>1. \A t \in Tasks : task[t] # NoTask => task[t] \in TaskRecords
  BY DEF IInv, LoopTypeOK
<1>2. CASE \E l \in Loops : CreateClosedLoop(l)
  BY <1>2 DEF CreateClosedLoop
<1>3. CASE \E l \in Loops : StartClosedLoop(l)
  <2>1. PICK l \in Loops : StartClosedLoop(l)
    BY <1>3
  <2>2. PICK t \in Tasks :
          /\ task[t] = NoTask
          /\ task' = [task EXCEPT ![t] = [loop |-> l, version |-> 0, at |-> "scheduled",
                                          cancelled |-> FALSE, action |-> NoAction]]
    BY <2>1 DEF StartClosedLoop
  <2> QED
    BY <2>1, <2>2 DEF StartClosedLoop, IInv, LoopTypeOK
<1>4. ASSUME NEW l \in Loops, StopClosedLoop(l)
      PROVE  /\ action' = action
             /\ \A t \in Tasks : task[t] # NoTask =>
                  /\ task'[t] # NoTask
                  /\ task'[t].loop = task[t].loop
                  /\ task'[t].action = task[t].action
                  /\ task'[t].at = task[t].at
                  /\ \/ task'[t].cancelled = task[t].cancelled
                     \/ t = running[l] /\ Live(t)
             /\ \A t \in Tasks : task[t] = NoTask => task'[t] = NoTask
  <2>1. \A t \in Tasks : task'[t] =
          IF t = running[l] /\ Live(t) THEN [task[t] EXCEPT !.cancelled = TRUE] ELSE task[t]
    BY <1>4 DEF StopClosedLoop
  <2>2. ASSUME NEW t \in Tasks, task[t] # NoTask
        PROVE  /\ [task[t] EXCEPT !.cancelled = TRUE] \in TaskRecords
               /\ [task[t] EXCEPT !.cancelled = TRUE].loop = task[t].loop
               /\ [task[t] EXCEPT !.cancelled = TRUE].action = task[t].action
               /\ [task[t] EXCEPT !.cancelled = TRUE].at = task[t].at
    BY <1>1, <2>2 DEF TaskRecords
  <2> QED
    BY <1>4, <2>1, <2>2, ClosedLoopAssumption DEF StopClosedLoop, Live
<1>5. ASSUME NEW t \in Tasks, Begin(t) \/ Wake(t) \/ Cancelled(t)
      PROVE  /\ action' = action
             /\ \A u \in Tasks : u # t => task'[u] = task[u]
             /\ task[t] # NoTask
             /\ task'[t] # NoTask
             /\ task'[t].loop = task[t].loop
             /\ task'[t].action = task[t].action
             /\ task'[t].cancelled = task[t].cancelled
             /\ task'[t].at # "acting"
  <2>1. task[t] # NoTask /\ task[t] \in TaskRecords
    BY <1>1, <1>5 DEF Begin, Wake, Cancelled, Resumes, Live
  <2>2. CASE Cancelled(t)
    BY <2>1, <2>2, ClosedLoopAssumption DEF Cancelled, IInv, LoopTypeOK, TaskRecords
  <2>3. ASSUME NEW v, v \in 0..MaxVersions, Check(t, v)
        PROVE  /\ action' = action
               /\ \A u \in Tasks : u # t => task'[u] = task[u]
               /\ task'[t] \in TaskRecords
               /\ task'[t].loop = task[t].loop
               /\ task'[t].action = task[t].action
               /\ task'[t].cancelled = task[t].cancelled
               /\ task'[t].at # "acting"
    <3>1. PICK place \in {"observing", "ended"} :
            task' = [task EXCEPT ![t].version = v, ![t].at = place]
      BY <2>3 DEF Check
    <3>2. /\ task'[t] = [task[t] EXCEPT !.version = v, !.at = place]
          /\ \A u \in Tasks : u # t => task'[u] = task[u]
      BY <3>1 DEF IInv, LoopTypeOK
    <3>3. action' = action
      BY <2>3 DEF Check
    <3> QED
      BY <2>1, <2>3, <3>2, <3>3 DEF TaskRecords
  <2>4. CASE Begin(t) \/ Wake(t)
    <3>1. task[t].version \in 0..MaxVersions /\ version[task[t].loop] \in 0..MaxVersions
      BY <2>1 DEF IInv, LoopTypeOK, TaskRecords
    <3> QED
      BY <2>1, <2>3, <2>4, <3>1, ClosedLoopAssumption DEF Begin, Wake
  <2> QED
    BY <1>5, <2>1, <2>2, <2>4
<1>6. CASE \E l \in Loops : StopClosedLoop(l)
  BY <1>4, <1>6
<1>7. CASE \E t \in Tasks : Begin(t) \/ Wake(t) \/ Cancelled(t)
  BY <1>5, <1>7
<1> QED
  BY <1>2, <1>3, <1>6, <1>7

LEMMA EngineInvStays ==
  ASSUME EngineInv, [LoopNext]_loopVars
  PROVE  EngineInv'
<1>1. IInv'
  BY NextInv DEF EngineInv
<1>2. CASE UNCHANGED loopVars
  BY <1>1, <1>2 DEF EngineInv, Owned, AwaitedIsOpen, loopVars
<1>3. CASE \/ \E l \in Loops : CreateClosedLoop(l) \/ StartClosedLoop(l) \/ StopClosedLoop(l)
           \/ \E t \in Tasks : Begin(t) \/ Wake(t) \/ Cancelled(t)
  <2>1. \A a \in Actions : action[a] # NoAction => action[a].task \in Tasks
    BY DEF EngineInv, IInv, LoopTypeOK, ActionRecords
  <2> QED
    BY <1>1, <1>3, <2>1, TasksStand DEF EngineInv, Owned, AwaitedIsOpen
<1>4. ASSUME NEW t \in Tasks, Observed(t) \/ Answered(t) PROVE EngineInv'
  <2>1. task[t] # NoTask
    BY <1>4 DEF Observed, Answered, Resumes, Live
  <2>2. PICK acts, s : SettledBy(t, acts, s) /\ Proceed(t, acts)
    BY <1>4, ProceedsFromSettled
  <2>3. /\ task'[t] # NoTask
        /\ \A u \in Tasks : u # t => task'[u] = task[u]
        /\ \/ action' = acts /\ task'[t].at = "sleeping"
           \/ \E b \in Actions :
                /\ action[b] = NoAction
                /\ action'[b].task = t /\ action'[b].state = "EXECUTING"
                /\ \A a \in Actions : a # b => action'[a] = acts[a]
                /\ task'[t].at = "acting" /\ task'[t].action = b
    BY <2>1, <2>2, ProceedBeginsOne
  <2>4. \A a \in Actions : action[a] # NoAction => action[a].task \in Tasks
    BY DEF EngineInv, IInv, LoopTypeOK, ActionRecords
  <2>5. Owned'
    BY <2>1, <2>2, <2>3, <2>4 DEF EngineInv, Owned, SettledBy
  <2>6. ASSUME NEW u \in Tasks, u # t, task[u] # NoTask, task[u].at = "acting"
        PROVE  LET a == task[u].action IN
                 /\ a \in Actions /\ action[a] # NoAction
                 /\ acts[a].state = "EXECUTING"
    BY <2>2, <2>6 DEF EngineInv, IInv, Awaited, AwaitedIsOpen, SettledBy
  <2>7. AwaitedIsOpen'
    BY <2>1, <2>3, <2>6 DEF AwaitedIsOpen
  <2> QED
    BY <1>1, <2>5, <2>7 DEF EngineInv
<1> QED
  BY <1>2, <1>3, <1>4 DEF LoopNext, Step

\* What is under way is under way for the one task its loop has.
LEMMA UnderWayIsRegistered ==
  ASSUME IInv, NEW a \in Actions, ProgressOf(a) = "executing"
  PROVE  /\ action[a] # NoAction /\ action[a].state = "EXECUTING"
         /\ action[a].task \in Tasks
         /\ task[action[a].task] # NoTask /\ Live(action[a].task)
         /\ ~task[action[a].task].cancelled
         /\ OwnerOf(a) = task[action[a].task].loop
         /\ OwnerOf(a) \in Loops
         /\ running[OwnerOf(a)] = action[a].task
<1>1. /\ action[a] # NoAction /\ action[a].state = "EXECUTING"
      /\ ~task[action[a].task].cancelled
  BY DEF ProgressOf
<1>2. action[a].task \in Tasks
  BY <1>1 DEF IInv, LoopTypeOK, ActionRecords
<1>3. task[action[a].task] # NoTask /\ task[action[a].task].at = "acting"
  BY <1>1 DEF IInv, OpenActionsExplained
<1>4. Uncancelled(action[a].task)
  BY <1>1, <1>3 DEF Uncancelled, Live
<1>5. OwnerOf(a) = task[action[a].task].loop
  BY <1>1 DEF OwnerOf
<1>6. task[action[a].task] \in TaskRecords
  BY <1>2, <1>3 DEF IInv, LoopTypeOK
<1> QED
  BY <1>1, <1>2, <1>3, <1>4, <1>5, <1>6 DEF IInv, OneTaskPerLoop, Live, TaskRecords

\* Steps that leave the actions, and their tasks' loops and cancellations, alone.
LEMMA SameActions ==
  ASSUME EngineInv, action' = action,
         \A t \in Tasks : task[t] # NoTask =>
           task'[t].loop = task[t].loop /\ task'[t].cancelled = task[t].cancelled
  PROVE  Owners' = Owners /\ Progress' = Progress
<1>1. ASSUME NEW a \in Actions
      PROVE  OwnerOf(a)' = OwnerOf(a) /\ ProgressOf(a)' = ProgressOf(a)
  <2>1. action[a] # NoAction => action[a].task \in Tasks /\ task[action[a].task] # NoTask
    BY DEF EngineInv, IInv, LoopTypeOK, ActionRecords, Owned
  <2> QED
    BY <2>1 DEF OwnerOf, ProgressOf
<1> QED
  BY <1>1 DEF Owners, Progress

LEMMA StartIsSwitchingOn ==
  ASSUME EngineInv, NEW l \in Loops, StartClosedLoop(l)
  PROVE  Engine!SwitchOn(l)
<1>1. PICK t \in Tasks :
        /\ task[t] = NoTask
        /\ task' = [task EXCEPT ![t] = [loop |-> l, version |-> 0, at |-> "scheduled",
                                        cancelled |-> FALSE, action |-> NoAction]]
        /\ running' = [running EXCEPT ![l] = t]
  BY DEF StartClosedLoop
<1>2. running[l] = NoTask /\ action' = action
  BY DEF StartClosedLoop
<1>3. On' = On \cup {l} /\ l \notin On
  BY <1>1, <1>2, ClosedLoopAssumption DEF On, EngineInv, IInv, LoopTypeOK
<1>4. \A u \in Tasks : task[u] # NoTask => task'[u] = task[u]
  BY <1>1 DEF EngineInv, IInv, LoopTypeOK
<1>5. Owners' = Owners /\ Progress' = Progress
  BY <1>2, <1>4, SameActions
<1> QED
  BY <1>3, <1>5 DEF Engine!SwitchOn

\* The registered task is the one whose action is under way: to cancel it is to
\* abandon that action, and no other.
LEMMA StopIsSwitchingOff ==
  ASSUME EngineInv, NEW l \in Loops, StopClosedLoop(l)
  PROVE  Engine!SwitchOff(l)
<1>1. /\ running' = [running EXCEPT ![l] = NoTask]
      /\ action' = action
      /\ \A t \in Tasks : task'[t] =
           IF t = running[l] /\ Live(t) THEN [task[t] EXCEPT !.cancelled = TRUE] ELSE task[t]
  BY DEF StopClosedLoop
<1>2. On' = On \ {l}
  BY <1>1 DEF On, EngineInv, IInv, LoopTypeOK
<1>3. ASSUME NEW t \in Tasks, task[t] # NoTask
      PROVE  /\ task'[t].loop = task[t].loop
             /\ t = running[l] /\ Live(t) => task'[t].cancelled
             /\ ~(t = running[l] /\ Live(t)) => task'[t].cancelled = task[t].cancelled
  <2>1. task[t] \in TaskRecords
    BY <1>3 DEF EngineInv, IInv, LoopTypeOK
  <2> QED
    BY <1>1, <2>1 DEF TaskRecords
<1>4. ASSUME NEW a \in Actions
      PROVE  /\ OwnerOf(a)' = OwnerOf(a)
             /\ ProgressOf(a)' = IF OwnerOf(a) = l /\ ProgressOf(a) = "executing"
                                   THEN "abandoned" ELSE ProgressOf(a)
  <2>1. CASE action[a] = NoAction
    BY <1>1, <2>1 DEF OwnerOf, ProgressOf
  <2>2. CASE action[a] # NoAction
    <3> DEFINE t == action[a].task
    <3>1. t \in Tasks /\ task[t] # NoTask
      BY <2>2 DEF EngineInv, IInv, LoopTypeOK, ActionRecords, Owned
    <3>2. OwnerOf(a)' = OwnerOf(a)
      BY <1>1, <1>3, <2>2, <3>1 DEF OwnerOf
    <3>3. CASE action[a].state # "EXECUTING"
      BY <1>1, <2>2, <3>2, <3>3 DEF ProgressOf
    <3>4. CASE action[a].state = "EXECUTING" /\ task[t].cancelled
      <4>1. task'[t].cancelled
        BY <1>3, <3>1, <3>4
      <4> QED
        BY <1>1, <2>2, <3>2, <3>4, <4>1 DEF ProgressOf
    <3>5. CASE action[a].state = "EXECUTING" /\ ~task[t].cancelled
      <4>1. ProgressOf(a) = "executing"
        BY <2>2, <3>5 DEF ProgressOf
      <4>2. /\ Live(t) /\ OwnerOf(a) = task[t].loop /\ running[OwnerOf(a)] = t
            /\ OwnerOf(a) \in Loops
        BY <4>1, UnderWayIsRegistered DEF EngineInv
      <4>3. t = running[l] <=> OwnerOf(a) = l
        <5>1. running[l] = t => task[t].loop = l
          BY <3>1, ClosedLoopAssumption DEF EngineInv, IInv, Registered
        <5> QED
          BY <4>2, <5>1
      <4>4. task'[t].cancelled <=> t = running[l]
        BY <1>3, <3>1, <3>5, <4>2
      <4>5. ProgressOf(a)' = IF task'[t].cancelled THEN "abandoned" ELSE "executing"
        BY <1>1, <2>2, <3>5 DEF ProgressOf
      <4> QED
        BY <3>2, <4>1, <4>3, <4>4, <4>5
    <3> QED
      BY <3>3, <3>4, <3>5
  <2> QED
    BY <2>1, <2>2
<1>5. Owners' = Owners /\ Progress' = Engine!EndedWith(l, "abandoned")
  BY <1>4 DEF Owners, Progress, Engine!EndedWith
<1> QED
  BY <1>2, <1>5 DEF Engine!SwitchOff

\* What was under way for the loop is settled; then the next may begin.
LEMMA ProceedIsSettlingOrActing ==
  ASSUME EngineInv, NEW t \in Tasks, Observed(t) \/ Answered(t)
  PROVE  \E l \in Loops : Engine!Settle(l) \/ Engine!Act(l)
<1>1. /\ task[t] # NoTask /\ task[t] \in TaskRecords /\ Uncancelled(t)
      /\ ~task[t].cancelled
  BY DEF Observed, Answered, Resumes, Uncancelled, Live, EngineInv, IInv, LoopTypeOK
<1>2. PICK l \in Loops : l = task[t].loop
  BY <1>1 DEF TaskRecords
<1>3. running[l] = t /\ t # NoTask /\ l \in On
  BY <1>1, <1>2, ClosedLoopAssumption DEF EngineInv, IInv, OneTaskPerLoop, On
<1>4. PICK acts, s : s \in {"COMPLETED", "FAILED"} /\ SettledBy(t, acts, s) /\ Proceed(t, acts)
  BY ProceedsFromSettled
<1>5. /\ running' = running
      /\ task'[t].loop = task[t].loop /\ task'[t].cancelled = task[t].cancelled
      /\ \A u \in Tasks : u # t => task'[u] = task[u]
      /\ \/ action' = acts
         \/ \E b \in Actions :
              /\ action[b] = NoAction
              /\ action'[b] # NoAction
              /\ action'[b].task = t /\ action'[b].state = "EXECUTING"
              /\ \A a \in Actions : a # b => action'[a] = acts[a]
  BY <1>1, <1>4, ProceedBeginsOne
<1>6. PICK end \in {"completed", "failed"} :
        end = IF s = "COMPLETED" THEN "completed" ELSE "failed"
  OBVIOUS
<1>7. ASSUME NEW a \in Actions, action'[a] = acts[a]
      PROVE  /\ OwnerOf(a)' = OwnerOf(a)
             /\ ProgressOf(a)' = IF OwnerOf(a) = l /\ ProgressOf(a) = "executing"
                                   THEN end ELSE ProgressOf(a)
  <2>1. CASE action[a] = NoAction
    BY <1>4, <1>7, <2>1 DEF SettledBy, OwnerOf, ProgressOf
  <2>2. CASE action[a] # NoAction
    <3> DEFINE u == action[a].task
    <3>1. u \in Tasks /\ task[u] # NoTask
      BY <2>2 DEF EngineInv, IInv, LoopTypeOK, ActionRecords, Owned
    <3>2. /\ action'[a] # NoAction /\ action'[a].task = u
          /\ action'[a].state = IF u = t /\ action[a].state = "EXECUTING" THEN s ELSE action[a].state
      BY <1>4, <1>7, <2>2 DEF SettledBy
    <3>3. task'[u].loop = task[u].loop /\ task'[u].cancelled = task[u].cancelled
      BY <1>5, <3>1
    <3>4. OwnerOf(a)' = OwnerOf(a)
      BY <2>2, <3>2, <3>3 DEF OwnerOf
    <3>5. CASE u = t /\ action[a].state = "EXECUTING"
      <4>1. ProgressOf(a) = "executing" /\ OwnerOf(a) = l
        BY <1>1, <1>2, <2>2, <3>5 DEF ProgressOf, OwnerOf
      <4>2. ProgressOf(a)' = end
        BY <1>4, <1>6, <3>2, <3>5 DEF ProgressOf
      <4> QED
        BY <3>4, <4>1, <4>2
    <3>6. CASE ~(u = t /\ action[a].state = "EXECUTING")
      <4>1. ProgressOf(a)' = ProgressOf(a)
        BY <2>2, <3>2, <3>3, <3>6 DEF ProgressOf
      <4>2. ~(OwnerOf(a) = l /\ ProgressOf(a) = "executing")
        BY <1>3, <3>6, UnderWayIsRegistered DEF EngineInv
      <4> QED
        BY <3>4, <4>1, <4>2
    <3> QED
      BY <3>5, <3>6
  <2> QED
    BY <2>1, <2>2
<1>8. On' = On
  BY <1>5 DEF On
<1>9. CASE action' = acts
  <2>1. Owners' = Owners /\ Progress' = Engine!EndedWith(l, end)
    BY <1>7, <1>9 DEF Owners, Progress, Engine!EndedWith
  <2> QED
    BY <1>3, <1>8, <2>1 DEF Engine!Settle
<1>10. ASSUME NEW b \in Actions, action[b] = NoAction, action'[b] # NoAction,
              action'[b].task = t, action'[b].state = "EXECUTING",
              \A a \in Actions : a # b => action'[a] = acts[a]
       PROVE  Engine!Act(l)
  <2>1. OwnerOf(b)' = l /\ ProgressOf(b)' = "executing" /\ ProgressOf(b) = "none"
    BY <1>1, <1>2, <1>5, <1>10 DEF OwnerOf, ProgressOf
  <2>2. Owners' = [Owners EXCEPT ![b] = l]
    BY <1>7, <1>10, <2>1 DEF Owners
  <2>3. Progress' = [Engine!EndedWith(l, end) EXCEPT ![b] = "executing"]
    BY <1>7, <1>10, <2>1 DEF Owners, Progress, Engine!EndedWith
  <2>4. Progress[b] = "none"
    BY <2>1 DEF Progress
  <2> QED
    BY <1>3, <1>8, <2>2, <2>3, <2>4 DEF Engine!Act
<1> QED
  BY <1>5, <1>9, <1>10

LEMMA StuttersOfEngine ==
  ASSUME EngineInv,
         \/ \E l \in Loops : CreateClosedLoop(l)
         \/ \E t \in Tasks : Begin(t) \/ Wake(t) \/ Cancelled(t)
         \/ UNCHANGED loopVars
  PROVE  UNCHANGED Engine!engineVars
<1>1. running' = running /\ action' = action
  BY DEF CreateClosedLoop, Begin, Wake, Check, Cancelled, loopVars
<1>2. \A t \in Tasks : task[t] # NoTask =>
        task'[t].loop = task[t].loop /\ task'[t].cancelled = task[t].cancelled
  <2>1. CASE task' = task
    BY <2>1
  <2>2. ASSUME NEW t \in Tasks, Begin(t) \/ Wake(t) \/ Cancelled(t)
        PROVE  \A u \in Tasks : task[u] # NoTask =>
                 task'[u].loop = task[u].loop /\ task'[u].cancelled = task[u].cancelled
    <3>1. PICK v, place :
            \/ task' = [task EXCEPT ![t].version = v, ![t].at = place]
            \/ task' = [task EXCEPT ![t].at = place]
      BY <2>2 DEF Begin, Wake, Check, Cancelled
    <3>2. ASSUME NEW u \in Tasks, task[u] # NoTask
          PROVE  task'[u].loop = task[u].loop /\ task'[u].cancelled = task[u].cancelled
      <4>1. task[u] \in TaskRecords
        BY <3>2 DEF EngineInv, IInv, LoopTypeOK
      <4> QED
        BY <3>1, <4>1 DEF EngineInv, IInv, LoopTypeOK, TaskRecords
    <3> QED
      BY <3>2
  <2> QED
    BY <2>1, <2>2 DEF CreateClosedLoop, loopVars
<1>3. On' = On
  BY <1>1 DEF On
<1> QED
  BY <1>1, <1>2, <1>3, SameActions DEF Engine!engineVars

LEMMA StepsOfEngine ==
  ASSUME EngineInv, [LoopNext]_loopVars
  PROVE  [Engine!Next]_(Engine!engineVars)
<1>1. CASE \/ \E l \in Loops : CreateClosedLoop(l)
           \/ \E t \in Tasks : Begin(t) \/ Wake(t) \/ Cancelled(t)
           \/ UNCHANGED loopVars
  BY <1>1, StuttersOfEngine
<1>2. ASSUME NEW l \in Loops, StartClosedLoop(l) \/ StopClosedLoop(l) PROVE Engine!Next
  BY <1>2, StartIsSwitchingOn, StopIsSwitchingOff DEF Engine!Next
<1>3. ASSUME NEW t \in Tasks, Observed(t) \/ Answered(t) PROVE Engine!Next
  BY <1>3, ProceedIsSettlingOrActing DEF Engine!Next
<1> QED
  BY <1>1, <1>2, <1>3 DEF LoopNext, Step

LEMMA InitOfEngine == LoopInit => EngineInv /\ Engine!Init
<1> SUFFICES ASSUME LoopInit PROVE EngineInv /\ Engine!Init
  OBVIOUS
<1>1. EngineInv
  BY InitInv DEF LoopInit, EngineInv, Owned, AwaitedIsOpen
<1>2. On = {} /\ Owners = [a \in Actions |-> NoTask] /\ Progress = [a \in Actions |-> "none"]
  BY DEF LoopInit, On, Owners, OwnerOf, Progress, ProgressOf
<1> QED
  BY <1>1, <1>2 DEF Engine!Init

\* However loops are stopped, restarted and re-created between the awaits of
\* their tasks, the engine goes through the steps of LoopEngine, and no others.
THEOREM TasksKeepEngine == LoopSpec => KeepsEngine
<1>1. EngineInv /\ [LoopNext]_loopVars => EngineInv'
  BY EngineInvStays
<1>2. EngineInv /\ [LoopNext]_loopVars => [Engine!Next]_(Engine!engineVars)
  BY StepsOfEngine
<1> QED
  BY <1>1, <1>2, InitOfEngine, PTL DEF LoopSpec, KeepsEngine, Engine!Spec
==============================================================================
