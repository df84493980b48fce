---------------------------- MODULE ProcLifecycle ----------------------------
(***************************************************************************)
(* What the process manager promises about one process, without memory:   *)
(* the state machine New -> Active -> Stopped of a process and its         *)
(* registration with the scheduler.  A start that fails drops the         *)
(* process before it is ever registered; a process is registered exactly  *)
(* from the step that makes it Active until remove_proc takes it away.    *)
(***************************************************************************)
CONSTANT Pids

VARIABLES
  pstate,      \* pid -> "none" (no process_t), "new", "active", "stopped"
  registered   \* the pids handed to sched_add_proc and not yet removed

lvars == <<pstate, registered>>

LInit ==
  /\ pstate = [p \in Pids |-> "none"]
  /\ registered = {}

\* start_proc allocates a process_t in state PROC_NEW.
Create(p) ==
  /\ pstate[p] = "none"
  /\ pstate' = [pstate EXCEPT ![p] = "new"]
  /\ UNCHANGED registered

\* An early return of start_proc with PROC_STOPPED: never registered.
Fail(p) ==
  /\ pstate[p] = "new"
  /\ pstate' = [pstate EXCEPT ![p] = "none"]
  /\ UNCHANGED registered

\* The end of start_proc: Active and registered in one step.
Activate(p) ==
  /\ pstate[p] = "new"
  /\ pstate' = [pstate EXCEPT ![p] = "active"]
  /\ registered' = registered \cup {p}

\* start_kernel_proc: a kernel process is Active and registered at once.
CreateActive(p) ==
  /\ pstate[p] = "none"
  /\ pstate' = [pstate EXCEPT ![p] = "active"]
  /\ registered' = registered \cup {p}

\* end_proc: Stopped is terminal; the process stays registered.
End(p) ==
  /\ pstate[p] = "active"
  /\ pstate' = [pstate EXCEPT ![p] = "stopped"]
  /\ UNCHANGED registered

\* remove_proc: the process is deregistered and its process_t freed.
Remove(p) ==
  /\ p \in registered
  /\ pstate' = [pstate EXCEPT ![p] = "none"]
  /\ registered' = registered \ {p}

LNext == \E p \in Pids :
           Create(p) \/ Fail(p) \/ Activate(p) \/ CreateActive(p) \/ End(p) \/ Remove(p)

LSpec == LInit /\ [][LNext]_lvars

=============================================================================
