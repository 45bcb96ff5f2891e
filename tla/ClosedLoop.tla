----------------------------- MODULE ClosedLoop -----------------------------
(***************************************************************************)
(* The ZSM engine (etsi/zsm/closed_loop.py): closed loops, the asyncio     *)
(* task that runs each, and the scale-out actions it carries out at the    *)
(* VNF manager.  A task gives the event loop up at its HTTP calls and its  *)
(* sleeps; in between, a client may stop its loop, start it again or       *)
(* create another loop object under the same id.                           *)
(***************************************************************************)
EXTENDS Naturals

CONSTANTS
  Loops,        \* loop ids
  Tasks,        \* tasks start_closed_loop can create
  Actions,      \* ids _act can draw (uuid4: never drawn twice)
  MaxVersions,  \* bound: loop objects created under one id
  NoTask,
  NoAction

Versions == 1..MaxVersions

\* A task binds its loop object when it first runs, at version 0 it has not.
TaskRecords ==
  [loop      : Loops,
   version   : 0..MaxVersions,
   at        : {"scheduled", "observing", "acting", "sleeping", "ended"},
   cancelled : BOOLEAN,
   action    : Actions \cup {NoAction}]

ActionRecords == [task : Tasks, state : {"EXECUTING", "COMPLETED", "FAILED"}]

ASSUME ClosedLoopAssumption ==
  /\ MaxVersions \in Nat
  /\ NoTask \notin Tasks /\ NoTask \notin TaskRecords
  /\ NoAction \notin Actions /\ NoAction \notin ActionRecords

VARIABLES
  version,   \* closed_loops: which object an id stands for, 0 for none
  state,     \* of each object: TERMINATED and SUSPENDED count as INACTIVE
  task,      \* the tasks, NoTask before their creation
  running,   \* _running_loops
  action     \* actions, NoAction before their creation

loopVars == <<version, state, task, running, action>>

LoopInit ==
  /\ version = [l \in Loops |-> 0]
  /\ state = [l \in Loops |-> [v \in Versions |-> "INACTIVE"]]
  /\ task = [t \in Tasks |-> NoTask]
  /\ running = [l \in Loops |-> NoTask]
  /\ action = [a \in Actions |-> NoAction]

Live(t) == task[t] # NoTask /\ task[t].at # "ended"

\* The task resumes from this await, and no cancellation is thrown into it.
Resumes(t, place) == Live(t) /\ task[t].at = place /\ ~task[t].cancelled
------------------------------------------------------------------------------
(* The handlers; none of them awaits. *)

\* create_closed_loop: the new object takes the id over, whatever runs under
\* it, with the state the client gives.
CreateClosedLoop(l) ==
  /\ version[l] < MaxVersions
  /\ version' = [version EXCEPT ![l] = @ + 1]
  /\ \E s \in {"INACTIVE", "ACTIVE"} : state' = [state EXCEPT ![l][version[l] + 1] = s]
  /\ UNCHANGED <<task, running, action>>

\* start_closed_loop; it changes nothing when _running_loops has the id.
StartClosedLoop(l) ==
  /\ version[l] > 0 /\ running[l] = NoTask
  /\ state' = [state EXCEPT ![l][version[l]] = "ACTIVE"]
  /\ \E t \in Tasks :
       /\ task[t] = NoTask
       /\ task' = [task EXCEPT ![t] = [loop |-> l, version |-> 0, at |-> "scheduled",
                                       cancelled |-> FALSE, action |-> NoAction]]
       /\ running' = [running EXCEPT ![l] = t]
  /\ UNCHANGED <<version, action>>

\* stop_closed_loop: the registered task is cancelled, the current object is
\* INACTIVE.
StopWithoutCancel(l) ==   \* mutated form: the task is left to read the state
  /\ version[l] > 0
  /\ state' = [state EXCEPT ![l][version[l]] = "INACTIVE"]
  /\ running' = [running EXCEPT ![l] = NoTask]
  /\ UNCHANGED <<version, task, action>>

StopClosedLoop(l) ==
  /\ version[l] > 0
  /\ state' = [state EXCEPT ![l][version[l]] = "INACTIVE"]
  /\ running' = [running EXCEPT ![l] = NoTask]
  /\ task' = [t \in Tasks |->
       IF t = running[l] /\ Live(t) THEN [task[t] EXCEPT !.cancelled = TRUE] ELSE task[t]]
  /\ UNCHANGED <<version, action>>
------------------------------------------------------------------------------
(* _run_closed_loop *)

\* The head of the while loop, on object v.
Check(t, v) ==
  /\ task' = [task EXCEPT ![t].version = v,
       ![t].at = IF state[task[t].loop][v] = "ACTIVE" THEN "observing" ELSE "ended"]
  /\ UNCHANGED <<version, state, running, action>>

Begin(t) == Resumes(t, "scheduled") /\ Check(t, version[task[t].loop])

Wake(t) == Resumes(t, "sleeping") /\ Check(t, task[t].version)

\* The round goes on to its next await: _act's call for an intent that asks for
\* a scale-out, or the sleep after the last intent or an exception.  A restart
\* is COMPLETED in the step that records it and left out.
Proceed(t, acts) ==
  /\ \/ \E a \in Actions :
          /\ action[a] = NoAction
          /\ action' = [acts EXCEPT ![a] = [task |-> t, state |-> "EXECUTING"]]
          /\ task' = [task EXCEPT ![t].at = "acting", ![t].action = a]
     \/ /\ action' = acts
        /\ task' = [task EXCEPT ![t].at = "sleeping", ![t].action = NoAction]
  /\ UNCHANGED <<version, state, running>>

\* _observe has asked for every metric; errors are passed over.
Observed(t) == Resumes(t, "observing") /\ Proceed(t, action)

Settled(t, s) == [action EXCEPT ![task[t].action].state = s]

\* The call of _act: COMPLETED on any status, FAILED without an answer.
AnsweredOrTimedOut(t) ==   \* mutated form: a timeout is given a state of its own
  /\ Resumes(t, "acting")
  /\ \E s \in {"COMPLETED", "FAILED", "TIMEOUT"} : Proceed(t, Settled(t, s))

AnsweredOrRaised(t) ==   \* mutated form: an exception of the call leaves _act
  /\ Resumes(t, "acting")
  /\ \/ Proceed(t, Settled(t, "COMPLETED"))
     \/ Proceed(t, action)

AnsweredOrEnded(t) ==   \* mutated form: an exception of the call ends the task
  /\ Resumes(t, "acting")
  /\ \/ Proceed(t, Settled(t, "COMPLETED"))
     \/ /\ action' = Settled(t, "FAILED")
        /\ task' = [task EXCEPT ![t].at = "ended"]
        /\ UNCHANGED <<version, state, running>>

Answered(t) ==
  /\ Resumes(t, "acting")
  /\ \E s \in {"COMPLETED", "FAILED"} : Proceed(t, Settled(t, s))

\* CancelledError: thrown into the task wherever it waits, caught by no phase.
\* An action whose call was out stays as it is.
Cancelled(t) ==
  /\ Live(t) /\ task[t].cancelled
  /\ task' = [task EXCEPT ![t].at = "ended"]
  /\ UNCHANGED <<version, state, running, action>>

Step(t) == Begin(t) \/ Wake(t) \/ Observed(t) \/ Answered(t) \/ Cancelled(t)

LoopNext ==
  \/ \E l \in Loops : CreateClosedLoop(l) \/ StartClosedLoop(l) \/ StopClosedLoop(l)
  \/ \E t \in Tasks : Step(t)

LoopSpec == LoopInit /\ [][LoopNext]_loopVars

\* The event loop resumes every task whose await is over; sleeps are finite and
\* every HTTP call ends by httpx's timeout.  No client owes a call.
LoopFairness == \A t \in Tasks : WF_loopVars(Step(t))

LoopFairSpec == LoopSpec /\ LoopFairness
------------------------------------------------------------------------------
\* The engine's dictionaries hold the records the code stores in them, and an
\* action no state but those of _act.
LoopTypeOK ==
  /\ version \in [Loops -> 0..MaxVersions]
  /\ state \in [Loops -> [Versions -> {"INACTIVE", "ACTIVE"}]]
  /\ task \in [Tasks -> TaskRecords \cup {NoTask}]
  /\ running \in [Loops -> Tasks \cup {NoTask}]
  /\ action \in [Actions -> ActionRecords \cup {NoAction}]

Uncancelled(t) == Live(t) /\ ~task[t].cancelled

\* Of all the tasks ever started for a loop only the registered one observes and
\* acts, and on an object that is ACTIVE, however stops, starts and re-creations
\* of the loop fall between its awaits.
OneTaskPerLoop ==
  \A t \in Tasks : Uncancelled(t) =>
    /\ running[task[t].loop] = t
    /\ task[t].at # "scheduled" => state[task[t].loop][task[t].version] = "ACTIVE"

\* An action that is EXECUTING is the one its task waits for, or its task was
\* stopped while it did: no action is otherwise left behind, and no task has
\* two under way.
OpenActionsExplained ==
  \A a \in Actions : action[a] # NoAction /\ action[a].state = "EXECUTING" =>
    LET t == action[a].task IN
      /\ task[t] # NoTask /\ task[t].action = a
      /\ task[t].at = "acting" \/ (task[t].at = "ended" /\ task[t].cancelled)

\* A loop that is stopped for good falls silent: whatever was created under its
\* id in the meantime, every task of it ends.
StoppedLoopsFallSilent ==
  \A l \in Loops :
    <>[](running[l] = NoTask) => <>[](\A t \in Tasks : Live(t) => task[t].loop # l)

\* A task that observes goes on doing so, failed actions and exceptions in its
\* rounds notwithstanding, unless it is cancelled.
LoopsKeepObserving ==
  \A t \in Tasks :
    <>(Live(t) /\ task[t].at = "observing") =>
      []<>(Live(t) /\ task[t].at = "observing") \/ <>(task[t] # NoTask /\ task[t].cancelled)
------------------------------------------------------------------------------
\* What tasks and actions amount to, seen from the engine.  An action is
\* abandoned from the cancellation of its task on, before the task notices.
OwnerOf(a) == IF action[a] = NoAction THEN NoTask ELSE task[action[a].task].loop

ProgressOf(a) ==
  CASE action[a] = NoAction -> "none"
    [] action[a] # NoAction /\ action[a].state = "EXECUTING" ->
         IF task[action[a].task].cancelled THEN "abandoned" ELSE "executing"
    [] action[a] # NoAction /\ action[a].state = "COMPLETED" -> "completed"
    [] OTHER -> "failed"

On       == {l \in Loops : running[l] # NoTask}
Owners   == [a \in Actions |-> OwnerOf(a)]
Progress == [a \in Actions |-> ProgressOf(a)]

Engine == INSTANCE LoopEngine WITH
  NoLoop <- NoTask, on <- On, owner <- Owners, progress <- Progress

\* The tasks of a loop, however it is stopped, restarted and re-created between
\* their awaits, carry out one action at a time, only while the loop is on, and
\* settle none that a stop has abandoned.
KeepsEngine == Engine!Spec
==============================================================================
