--------------------------- MODULE SeccompHandler ---------------------------
(***************************************************************************)
(* What the tracer promises about one traced task's stops (spec 4.H and   *)
(* 4.I), with the ptrace handshake of an injection left out: a seccomp     *)
(* stop is handled by a bounded number of injected syscalls, each one a    *)
(* single step, after which the task is continued; an injection may end   *)
(* the tracer instead (a stop it does not handle).  Signal and vfork-done  *)
(* stops are resumed.  Every stop the tracer is handling is finished.     *)
(* Before all this the tracer starts tracing the task or fails to.        *)
(***************************************************************************)
EXTENDS Naturals

CONSTANTS InjectCounts

VARIABLES tstate, todo

vars == <<tstate, todo>>

Init == tstate = "Starting" /\ todo = 0

Start ==
  /\ tstate = "Starting"
  /\ tstate' \in {"Running", "Failed"}
  /\ UNCHANGED todo

(* The program traps, a signal stops it, or its vfork child lets go.      *)
Stop ==
  /\ tstate = "Running"
  /\ tstate' \in {"Seccomp", "Signalled", "VForkDone"}
  /\ UNCHANGED todo

Enter ==
  /\ tstate = "Seccomp"
  /\ tstate' = "Handling"
  /\ todo' \in InjectCounts

(* One injected syscall, from resume to the restored registers.           *)
Inject ==
  /\ tstate = "Handling" /\ todo > 0
  /\ todo' = todo - 1
  /\ UNCHANGED tstate

Panic ==
  /\ tstate = "Handling" /\ todo > 0
  /\ tstate' = "Panicked"
  /\ UNCHANGED todo

Continue ==
  /\ tstate = "Handling" /\ todo = 0
  /\ tstate' = "Running"
  /\ UNCHANGED todo

Resume ==
  /\ tstate \in {"Signalled", "VForkDone"}
  /\ tstate' = "Running"
  /\ UNCHANGED todo

Next == Start \/ Stop \/ Enter \/ Inject \/ Panic \/ Continue \/ Resume

Spec ==
  /\ Init /\ [][Next]_vars
  /\ WF_vars(Start) /\ WF_vars(Enter) /\ WF_vars(Inject \/ Panic)
  /\ WF_vars(Continue) /\ WF_vars(Resume)
=============================================================================
