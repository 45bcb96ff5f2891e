-------------------------------- MODULE MCCloud --------------------------------
(***************************************************************************)
(* What network functions run on and what scales them: the VNF manager, the *)
(* O-Cloud's accounts and the ZSM engine.  The three share no state, and    *)
(* the engine does not read what the manager answers, so a behaviour is one *)
(* of one of them, the one in focus, while the others rest as they start.   *)
(***************************************************************************)
EXTENDS VNFM, OCloud, ClosedLoop

CONSTANTS wide, deep  \* two sizes of replicas

VARIABLE focus

CloudInit ==
  /\ focus \in {"manager", "accounts", "engine"}
  /\ VnfmInit /\ Init /\ LoopInit

Focus(part) == focus = part /\ UNCHANGED focus

CloudNext ==
  \/ Focus("manager") /\ VnfmNext /\ UNCHANGED <<vars, loopVars>>
  \/ Focus("accounts") /\ Next /\ UNCHANGED <<vnfmVars, loopVars>>
  \/ Focus("engine") /\ LoopNext /\ UNCHANGED <<vnfmVars, vars>>

\* The event loop wakes what sleeps and resumes what is ready.
CloudSpec ==
  /\ CloudInit /\ [][CloudNext]_<<focus, vnfmVars, vars, loopVars>>
  /\ \A o \in Ops : WF_vnfmVars(focus = "manager" /\ Task(o))
  /\ \A t \in Tasks : WF_loopVars(focus = "engine" /\ Step(t))
-----------------------------------------------------------------------------
\* Two nodes on which the sizes leave gaps too small to use, one size bound by the
\* vCPUs and one by the memory.
MCRequiredCpu == [e \in Descriptors |-> IF e = wide THEN 2 ELSE 1]
MCRequiredRam == [e \in Descriptors |-> IF e = wide THEN 1 ELSE 3]
==============================================================================
