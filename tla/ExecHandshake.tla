---------------------------- MODULE ExecHandshake ----------------------------
(***************************************************************************)
(* The exec handshake of src/src/traced_task.rs composed with the task of *)
(* Injector.  At PTRACE_EVENT_EXEC do_ptrace_exec writes                   *)
(* int3; syscall; int3 at the new image's rip and continues to the first   *)
(* int3; tracee_preinit then sets the registers of an mmap of the private  *)
(* page and continues over the syscall to the second int3; after it the   *)
(* gadget page is written, the bytes and registers restored, task_reset   *)
(* runs and the task is continued.  Each wait asserts Stopped(SIGTRAP).    *)
(* The syscall runs at the image's rip, under run_tracee's seccomp        *)
(* filter (Stubs!SeccompAllows).                                           *)
(***************************************************************************)
EXTENDS Injector

CONSTANTS
  ExecRip,    \* the new image's rip, as an offset from the gadget page
  MaxExecs    \* bound on execs

ASSUME ExecRip \in Int /\ MaxExecs \in Nat

VARIABLES
  phase,      \* which wait of the handshake the tracer is in
  epc,        \* the tracee's rip, as an offset from ExecRip
  execs       \* execs so far

hvars == <<phase, epc, execs>>

(* 0xcc050fcc, as its two 16-bit limbs, least significant first.           *)
bp_syscall_bp == <<4044, 52229>>

(* The low four bytes of the word at rip after ptrace::write, in memory    *)
(* order: cc 0f 05 cc.                                                     *)
BpBytes == FlattenSeq([j \in 1..2 |-> <<bp_syscall_bp[j] % 256,
                                       bp_syscall_bp[j] \div 256>>])

ExecInit == Init /\ phase = "none" /\ epc = 0 /\ execs = 0

(* The program calls execve; with PTRACE_O_TRACEEXEC the new image stops  *)
(* at PTRACE_EVENT_EXEC.                                                   *)
ProgramExec ==
  /\ tstate = "Running" /\ filter /\ execs < MaxExecs
  /\ tstate' = "ExecStop"
  /\ execs' = execs + 1
  /\ UNCHANGED <<todo, cpu, stopSig, pending, std, arrivals, raised,
                 delivered, vforks, bogus, phase, epc, setup>>

(* do_ptrace_exec: the breakpoint bytes written at rip, ptrace::cont.      *)
do_ptrace_exec ==
  /\ tstate = "ExecStop"
  /\ tstate' = "ExecRunning"
  /\ phase' = "bp" /\ epc' = 0
  /\ UNCHANGED <<todo, cpu, stopSig, pending, std, arrivals, raised,
                 delivered, vforks, bogus, execs, setup>>

(* The CPU runs the instruction at rip, unless a signal is pending, which *)
(* stops the task first: the int3 stops it with SIGTRAP; the syscall runs *)
(* if the filter lets it through and stops at PTRACE_EVENT_SECCOMP        *)
(* otherwise.                                                             *)
ExecStep ==
  LET b(i) == BpBytes[epc + i + 1] IN
  /\ tstate = "ExecRunning" /\ pending = {}
  /\ CASE b(0) = 204 ->
            /\ tstate' = "ExecStopped" /\ stopSig' = "SIGTRAP"
            /\ epc' = epc + 1
       [] b(0) = 15 /\ b(1) = 5 /\ SeccompAllows(ExecRip + epc + 2) ->
            /\ epc' = epc + 2
            /\ UNCHANGED <<tstate, stopSig>>
       [] b(0) = 15 /\ b(1) = 5 ->
            /\ tstate' = "ExecStopped" /\ stopSig' = "SECCOMP"
            /\ epc' = epc + 2
  /\ UNCHANGED <<todo, cpu, pending, std, arrivals, raised, delivered,
                 vforks, bogus, phase, execs, setup>>

ExecSignal(sig) ==
  /\ tstate = "ExecRunning" /\ sig \in pending
  /\ tstate' = "ExecStopped" /\ stopSig' = sig
  /\ pending' = pending \ {sig}
  /\ UNCHANGED <<todo, cpu, std, arrivals, raised, delivered, vforks, bogus,
                 hvars, setup>>

(* tracee_preinit after the first int3: the mmap registers set, cont.      *)
tracee_preinit ==
  /\ tstate = "ExecStopped" /\ phase = "bp" /\ stopSig = "SIGTRAP"
  /\ tstate' = "ExecRunning" /\ phase' = "mmap" /\ stopSig' = "none"
  /\ UNCHANGED <<todo, cpu, pending, std, arrivals, raised, delivered,
                 vforks, bogus, epc, execs, setup>>

(* After the second int3: rax is the mapped page; gen_syscall_sequences_at *)
(* writes the gadgets, rip is set back by the int3, the saved word is      *)
(* restored, task_reset, ptrace::cont.                                     *)
PreinitDone ==
  /\ tstate = "ExecStopped" /\ phase = "mmap" /\ stopSig = "SIGTRAP"
  /\ tstate' = "Running" /\ phase' = "none" /\ stopSig' = "none"
  /\ epc' = 0
  /\ UNCHANGED <<todo, cpu, pending, std, arrivals, raised, delivered,
                 vforks, bogus, execs, setup>>

(* The assert! on the wait status of either wait fails: the tracer panics. *)
ExecAssertFail ==
  /\ tstate = "ExecStopped" /\ stopSig # "SIGTRAP"
  /\ tstate' = "Panicked"
  /\ UNCHANGED <<todo, cpu, stopSig, pending, std, arrivals, raised,
                 delivered, vforks, bogus, hvars, setup>>

ExecNext ==
  \/ Next /\ UNCHANGED hvars
  \/ ProgramExec \/ do_ptrace_exec \/ ExecStep
  \/ \E sig \in Signals : ExecSignal(sig)
  \/ tracee_preinit \/ PreinitDone \/ ExecAssertFail

ExecSpec == ExecInit /\ [][ExecNext]_<<vars, hvars>>

-----------------------------------------------------------------------------
(* Spec 4.B (EXEC): tracee_preinit maps the private page and writes the   *)
(* gadgets.  do_ptrace_exec and tracee_preinit assert that the stop after  *)
(* each of their two resumes is Stopped(SIGTRAP), the int3 they wrote: no  *)
(* signal and no seccomp stop comes between the exec and the breakpoints. *)
ExecStopIsTrap == tstate = "ExecStopped" => stopSig = "SIGTRAP"
=============================================================================
