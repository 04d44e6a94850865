----------------------------- MODULE ExitStatus -----------------------------
(***************************************************************************)
(* How the exit of the root tracee becomes the exit status of reverie:    *)
(* the kernel's wait status, do_ptrace_event_exit (src/src/traced_task.rs),*)
(* the scheduler returning the root's code (spec 4.J), and main and        *)
(* run_app (src/reverie/src/strace.rs), whose std::process::exit passes    *)
(* only the low 8 bits of its argument to the parent.                      *)
(***************************************************************************)
EXTENDS Naturals

CONSTANTS
  Codes,       \* exit codes the program may pass to exit(): a subset of 0..255
  Signals,     \* signals that may kill it: a subset of 1..64
  Namespaces   \* argv.namespaces: the tracer runs as a child of run_app

ASSUME Codes \subseteq 0..255 /\ Signals \subseteq 1..64 /\ Namespaces \in BOOLEAN

(* The wait status word of the kernel and the macros that read it.        *)
ExitedStatus(c) == c * 256
SignaledStatus(s, core) == s + (IF core THEN 128 ELSE 0)
WIFEXITED(w) == w % 128 = 0
WEXITSTATUS(w) == (w \div 256) % 256
WTERMSIG(w) == w % 128

(* exit(2): the parent sees the low 8 bits of the argument.               *)
ProcessExit(code) == ExitedStatus(code % 256)

VARIABLES
  phase,    \* "running", "exit_stop", "exited", "returned", "done"
  how,      \* how the program ended: <<"exit", c>> or <<"signal", s>>
  wstatus,  \* kernel: the status the tracee's end produces
  code,     \* RunTask::Exited(code), then what run_tracer returned
  shell     \* the wait status reverie's parent collects

vars == <<phase, how, wstatus, code, shell>>

Init ==
  /\ phase = "running"
  /\ how = <<"none", 0>>
  /\ wstatus = 0 /\ code = 0 /\ shell = 0

(* The program calls exit(c), or a signal kills it; either way the kernel *)
(* stops it at PTRACE_EVENT_EXIT with the wait status as event message.   *)
ProgramExit(c) ==
  /\ phase = "running"
  /\ phase' = "exit_stop"
  /\ how' = <<"exit", c>>
  /\ wstatus' = ExitedStatus(c)
  /\ UNCHANGED <<code, shell>>

ProgramKilled(s, core) ==
  /\ phase = "running"
  /\ phase' = "exit_stop"
  /\ how' = <<"signal", s>>
  /\ wstatus' = SignaledStatus(s, core)
  /\ UNCHANGED <<code, shell>>

(* do_ptrace_event_exit: retval = getevent(), a single step, then waitpid: *)
(* Exited gives Exited(retval), Signaled(sig) gives Exited(0x80 | sig).    *)
do_ptrace_event_exit ==
  /\ phase = "exit_stop"
  /\ phase' = "exited"
  /\ code' = IF WIFEXITED(wstatus) THEN wstatus ELSE 128 + WTERMSIG(wstatus)
  /\ UNCHANGED <<how, wstatus, shell>>

(* SchedWait::run_all returns the exit code of the root tracee (spec 4.J), *)
(* and run_tracer returns it.                                              *)
run_all ==
  /\ phase = "exited"
  /\ phase' = "returned"
  /\ UNCHANGED <<how, wstatus, code, shell>>

(* main: std::process::exit(exit_code).  With namespaces that process is  *)
(* run_app's child: its parent collects WEXITSTATUS and exits with it.   *)
main_exit ==
  /\ phase = "returned"
  /\ phase' = "done"
  /\ shell' = IF Namespaces THEN ProcessExit(WEXITSTATUS(ProcessExit(code)))
              ELSE ProcessExit(code)
  /\ UNCHANGED <<how, wstatus, code>>

Next ==
  \/ \E c \in Codes : ProgramExit(c)
  \/ \E s \in Signals, core \in BOOLEAN : ProgramKilled(s, core)
  \/ do_ptrace_event_exit \/ run_all \/ main_exit

Spec == Init /\ [][Next]_vars

-----------------------------------------------------------------------------
(* Spec CLI: reverie exits with the target program's exit code, or with   *)
(* 0x80 | signal when a signal killed it.                                 *)
ExitCodePropagated ==
  phase = "done" =>
    WEXITSTATUS(shell) = IF how[1] = "exit" THEN how[2] ELSE 128 + how[2]
=============================================================================
