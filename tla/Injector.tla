------------------------------ MODULE Injector ------------------------------
(***************************************************************************)
(* Syscall injection into a stopped tracee (remote_do_syscall_at, reached *)
(* through untraced_syscall) and the signals of the traced task, in       *)
(* src/src/traced_task.rs.                                                *)
(*                                                                         *)
(* One task is traced.  It runs, stops at seccomp traps, at vfork-done     *)
(* events and for signals the kernel has pending for it.  At a seccomp   *)
(* stop patch_syscall injects a number of syscalls: none when it returns  *)
(* early, the two mprotects of patch_at, and the mmap and mprotect of      *)
(* allocate_extended_jumps before those.  Each injection resumes the task  *)
(* at the gadget and waits for the int3 after its syscall.  Signals       *)
(* arrive from outside (a child exiting) and are pending in the kernel     *)
(* until the task stops for them; standard signals do not queue.          *)
(***************************************************************************)
EXTENDS Naturals, Sequences, Stubs

CONSTANTS
  Signals,        \* signals that may arrive: a subset of {"SIGCHLD", "OTHER"}
  InjectCounts,   \* how many syscalls one seccomp stop injects
  MaxArrivals,    \* bound on signal arrivals
  MaxVforks       \* bound on vfork-done events

ASSUME Signals \subseteq {"SIGCHLD", "OTHER"}
ASSUME InjectCounts \subseteq Nat /\ 0 \in InjectCounts
ASSUME MaxArrivals \in Nat /\ MaxVforks \in Nat

MaxInject == CHOOSE k \in InjectCounts : \A j \in InjectCounts : j <= k

TaskStates == {"Forked", "Booting", "BootStopped", "BootExited", "BootFailed",
               "Running", "Seccomp", "Handling", "InjRunning", "InjStopped",
               "SigStop", "VForkDone", "Panicked"}

VARIABLES
  tstate,     \* where the task is, from the tracer's point of view
  todo,       \* injections the seccomp handler still performs
  gpc,        \* the tracee's rip in the gadget page, as an offset
  gstack,     \* return addresses the gadget's calls pushed
  sysAt,      \* offsets of the syscall instructions run since resume
  stopSig,    \* the signal of the stop waitpid reports, or "none"
  pending,    \* kernel: signals pending for the task
  std,        \* signal_to_deliver = Some(SIGCHLD)
  arrivals,   \* signals that have arrived
  raised,     \* SIGCHLDs that have arrived (and were not merged)
  delivered,  \* SIGCHLDs the program has received
  vforks,     \* vfork-done events so far
  bogus,      \* an injection returned though its syscall never ran
  opts,       \* the tracer has set the ptrace options (PTRACE_O_TRACESECCOMP)
  filter      \* the tracee has installed the seccomp filter

cpu == <<gpc, gstack, sysAt>>
setup == <<opts, filter>>

vars == <<tstate, todo, cpu, stopSig, pending, std, arrivals, raised,
          delivered, vforks, bogus, setup>>

Init ==
  /\ tstate = "Forked"
  /\ opts = FALSE /\ filter = FALSE
  /\ todo = 0
  /\ gpc = 0 /\ gstack = << >> /\ sysAt = << >>
  /\ stopSig = "none"
  /\ pending = {}
  /\ std = FALSE
  /\ arrivals = 0 /\ raised = 0 /\ delivered = 0 /\ vforks = 0
  /\ bogus = FALSE

Delivering(sig) == IF sig = "SIGCHLD" THEN delivered + 1 ELSE delivered

-----------------------------------------------------------------------------
(* Start-up (src/reverie/src/strace.rs): run_tracer forks; the child runs *)
(* run_tracee and the parent waits in wait_sigstop.                       *)

(* Mutant: the seccomp filter installed before the SIGSTOP rendezvous.   *)
TraceMe_filter_first ==
  /\ tstate = "Forked"
  /\ tstate' = "Booting"
  /\ pending' = pending \cup {"SIGSTOP"}
  /\ filter' = TRUE
  /\ UNCHANGED <<todo, cpu, stopSig, std, arrivals, raised, delivered,
                 vforks, bogus, opts>>

(* run_tracee: prctl(PR_SET_NO_NEW_PRIVS), personality, traceme, then     *)
(* raise(SIGSTOP): the signal is pending for the now traced child.        *)
TraceMe ==
  /\ tstate = "Forked"
  /\ tstate' = "Booting"
  /\ pending' = pending \cup {"SIGSTOP"}
  /\ UNCHANGED <<todo, cpu, stopSig, std, arrivals, raised, delivered,
                 vforks, bogus, setup>>

(* One of the asserts or traceme fails (EPERM when reverie itself is      *)
(* traced): run_tracee returns the error, main panics, the child exits.   *)
TraceMeFails ==
  /\ tstate = "Forked"
  /\ tstate' = "BootExited"
  /\ UNCHANGED <<todo, cpu, stopSig, pending, std, arrivals, raised,
                 delivered, vforks, bogus, setup>>

(* The child stops for a pending signal.  The kernel dequeues the lowest   *)
(* numbered standard signal first: SIGCHLD (17) before SIGSTOP (19); the  *)
(* number of OTHER is left open.                                           *)
BootStop(sig) ==
  /\ tstate = "Booting" /\ sig \in pending
  /\ ~(sig = "SIGSTOP" /\ "SIGCHLD" \in pending)
  /\ tstate' = "BootStopped"
  /\ stopSig' = sig
  /\ pending' = pending \ {sig}
  /\ UNCHANGED <<todo, cpu, std, arrivals, raised, delivered, vforks, bogus,
                 setup>>

(* wait_sigstop sees Stopped(child, SIGSTOP); run_tracer sets the ptrace   *)
(* options and continues the child with no signal.                        *)
wait_sigstop ==
  /\ tstate = "BootStopped" /\ stopSig = "SIGSTOP"
  /\ tstate' = "Running"
  /\ opts' = TRUE
  /\ stopSig' = "none"
  /\ UNCHANGED <<todo, cpu, pending, std, arrivals, raised, delivered,
                 vforks, bogus, filter>>

(* Any other status: wait_sigstop returns "expect SIGSTOP", run_tracer    *)
(* returns it with `?` and main panics.                                   *)
wait_sigstop_failed ==
  /\ \/ tstate = "BootStopped" /\ stopSig # "SIGSTOP"
     \/ tstate = "BootExited"
  /\ tstate' = "BootFailed"
  /\ stopSig' = "none"
  /\ UNCHANGED <<todo, cpu, pending, std, arrivals, raised, delivered,
                 vforks, bogus, setup>>

(* The rest of run_tracee: SIGTTIN and SIGTTOU ignored, the environment  *)
(* built, the filter installed, execvpe; the execve is the first syscall  *)
(* the filter traps.                                                      *)
run_tracee_exec ==
  /\ tstate = "Running" /\ ~filter
  /\ filter' = TRUE
  /\ tstate' = "Seccomp"
  /\ UNCHANGED <<todo, cpu, stopSig, pending, std, arrivals, raised,
                 delivered, vforks, bogus, opts>>

-----------------------------------------------------------------------------
(* The program and the kernel.                                            *)

(* A signal is sent to the task; a signal already pending merges.         *)
Arrive(sig) ==
  /\ arrivals < MaxArrivals /\ tstate \notin {"Forked", "Panicked", "BootFailed"}
  /\ arrivals' = arrivals + 1
  /\ pending' = pending \cup {sig}
  /\ raised' = IF sig = "SIGCHLD" /\ sig \notin pending THEN raised + 1
               ELSE raised
  /\ UNCHANGED <<tstate, todo, cpu, stopSig, std, delivered, vforks, bogus, setup>>

(* The program issues a syscall from an unpatched site.                   *)
ProgramTrap ==
  /\ tstate = "Running" /\ filter
  /\ tstate' = "Seccomp"
  /\ UNCHANGED <<todo, cpu, stopSig, pending, std, arrivals, raised,
                 delivered, vforks, bogus, setup>>

(* The program's vfork child has exec'd or exited.                         *)
ProgramVforkDone ==
  /\ tstate = "Running" /\ filter /\ vforks < MaxVforks
  /\ tstate' = "VForkDone"
  /\ vforks' = vforks + 1
  /\ UNCHANGED <<todo, cpu, stopSig, pending, std, arrivals, raised,
                 delivered, bogus, setup>>

(* A running task with a pending signal enters signal-delivery-stop.      *)
SignalStop(sig) ==
  /\ tstate = "Running" /\ sig \in pending
  /\ tstate' = "SigStop"
  /\ stopSig' = sig
  /\ pending' = pending \ {sig}
  /\ UNCHANGED <<todo, cpu, std, arrivals, raised, delivered, vforks, bogus, setup>>

(* The CPU runs the instruction at rip in the gadget page (the bytes     *)
(* tracee_preinit wrote with gen_syscall_sequences_at) unless a signal is *)
(* pending, which stops the task first: call rel32, syscall, ret and the  *)
(* NOPs advance; the int3 stops the task with SIGTRAP, and a syscall the  *)
(* seccomp filter does not let through stops it at PTRACE_EVENT_SECCOMP.  *)
GadgetStep ==
  LET b(i) == gen_syscall_sequences_at[gpc + i + 1] IN
  /\ tstate = "InjRunning" /\ pending = {}
  /\ CASE b(0) = 232 ->
            /\ gpc' = gpc + 5 + LE32(<<b(1), b(2), b(3), b(4)>>)
            /\ gstack' = <<gpc + 5>> \o gstack
            /\ UNCHANGED <<tstate, stopSig, sysAt>>
       [] b(0) = 15 /\ b(1) = 5 /\ SeccompAllows(gpc + 2) ->
            /\ gpc' = gpc + 2 /\ sysAt' = Append(sysAt, gpc)
            /\ UNCHANGED <<tstate, stopSig, gstack>>
       [] b(0) = 15 /\ b(1) = 5 ->
            /\ tstate' = "InjStopped" /\ stopSig' = "SECCOMP"
            /\ gpc' = gpc + 2
            /\ UNCHANGED <<gstack, sysAt>>
       [] b(0) = 195 /\ gstack # << >> ->
            /\ gpc' = Head(gstack) /\ gstack' = Tail(gstack)
            /\ UNCHANGED <<tstate, stopSig, sysAt>>
       [] b(0) = 144 \/ (b(0) = 102 /\ b(1) = 144) ->
            /\ gpc' = gpc + (IF b(0) = 144 THEN 1 ELSE 2)
            /\ UNCHANGED <<tstate, stopSig, gstack, sysAt>>
       [] b(0) = 204 ->
            /\ tstate' = "InjStopped" /\ stopSig' = "SIGTRAP"
            /\ gpc' = gpc + 1
            /\ UNCHANGED <<gstack, sysAt>>
  /\ UNCHANGED <<todo, pending, std, arrivals, raised, delivered, vforks, bogus, setup>>

InjSignal(sig) ==
  /\ tstate = "InjRunning" /\ sig \in pending
  /\ tstate' = "InjStopped"
  /\ stopSig' = sig
  /\ pending' = pending \ {sig}
  /\ UNCHANGED <<todo, cpu, std, arrivals, raised, delivered, vforks, bogus, setup>>

-----------------------------------------------------------------------------
(* The tracer.                                                            *)

(* TracedTask::run on Stopped(signal): resume(Some(signal)).              *)
RunSigStop ==
  /\ tstate = "SigStop"
  /\ tstate' = "Running"
  /\ delivered' = Delivering(stopSig)
  /\ stopSig' = "none"
  /\ UNCHANGED <<todo, cpu, pending, std, arrivals, raised, vforks, bogus, setup>>

(* do_ptrace_seccomp enters patch_syscall, which will inject k syscalls.  *)
SeccompEnter ==
  /\ tstate = "Seccomp"
  /\ \E k \in InjectCounts : todo' = k
  /\ tstate' = "Handling"
  /\ UNCHANGED <<cpu, stopSig, pending, std, arrivals, raised, delivered,
                 vforks, bogus, setup>>

(* remote_do_syscall_at: registers set for the gadget, resume(None).      *)
InjectStart ==
  /\ tstate = "Handling" /\ todo > 0
  /\ tstate' = "InjRunning"
  /\ gpc' = UntracedEntry /\ gstack' = << >> /\ sysAt' = << >>
  /\ UNCHANGED <<todo, stopSig, pending, std, arrivals, raised, delivered,
                 vforks, bogus, setup>>

(* Mutant: on a SIGCHLD stop, waitpid again without resuming the task.    *)
InjectWait_rewait ==
  /\ tstate = "InjStopped"
  /\ IF stopSig = "SIGTRAP"
       THEN /\ tstate' = "Handling"
            /\ todo' = todo - 1
            /\ UNCHANGED <<std, bogus, stopSig>>
       ELSE UNCHANGED <<tstate, todo, std, bogus, stopSig>>
  /\ UNCHANGED <<cpu, pending, arrivals, raised, delivered, vforks, setup>>

(* waitpid: SIGTRAP is the expected stop; a SIGCHLD stop is saved in       *)
(* signal_to_deliver and taken as the end of the syscall; any other stop  *)
(* panics.  The saved registers are restored and rax is the result.       *)
InjectWait ==
  /\ tstate = "InjStopped"
  /\ IF stopSig \in {"SIGTRAP", "SIGCHLD"}
       THEN /\ tstate' = "Handling"
            /\ todo' = todo - 1
            /\ std' = (std \/ stopSig = "SIGCHLD")
            /\ bogus' = (bogus \/ sysAt = << >>)
       ELSE /\ tstate' = "Panicked"
            /\ UNCHANGED <<todo, std, bogus>>
  /\ stopSig' = "none"
  /\ UNCHANGED <<cpu, pending, arrivals, raised, delivered, vforks, setup>>

(* do_ptrace_seccomp: just_continue(tid, None), whatever patch_syscall     *)
(* returned.                                                              *)
SeccompContinue ==
  /\ tstate = "Handling" /\ todo = 0
  /\ tstate' = "Running"
  /\ UNCHANGED <<todo, cpu, stopSig, pending, std, arrivals, raised,
                 delivered, vforks, bogus, setup>>

(* do_ptrace_vfork_done: resume(signal_to_deliver).  The stop is a        *)
(* PTRACE_EVENT stop, where the kernel ignores the signal PTRACE_CONT     *)
(* passes: the task just continues, and signal_to_deliver stays set.     *)
do_ptrace_vfork_done ==
  /\ tstate = "VForkDone"
  /\ tstate' = "Running"
  /\ UNCHANGED <<todo, cpu, stopSig, pending, std, arrivals, raised,
                 delivered, vforks, bogus, setup>>

-----------------------------------------------------------------------------
Boot == TraceMe \/ TraceMeFails \/ run_tracee_exec

Kernel ==
  \/ GadgetStep \/ \E sig \in Signals \cup {"SIGSTOP"} : BootStop(sig)
  \/ \E sig \in Signals : SignalStop(sig) \/ InjSignal(sig)

Tracer ==
  \/ RunSigStop \/ SeccompEnter \/ InjectStart \/ InjectWait
  \/ SeccompContinue \/ do_ptrace_vfork_done
  \/ wait_sigstop \/ wait_sigstop_failed

Program ==
  \/ \E sig \in Signals : Arrive(sig)
  \/ ProgramTrap \/ ProgramVforkDone

(* The tracer dead after a panic.                                         *)
Halted ==
  /\ tstate \in {"Panicked", "BootFailed"}
  /\ UNCHANGED vars

Next == Boot \/ Kernel \/ Tracer \/ Program \/ Halted

(* The tracer handles every stop it is waiting on (it loops on waitpid),   *)
(* and the kernel lets a resumed task run.  A pending signal stops the    *)
(* task at the next return to user mode, which comes again after every   *)
(* seccomp stop: strong fairness.  The child runs run_tracee to its      *)
(* execvpe (Boot).  The program need not do anything.                     *)
Spec ==
  /\ Init /\ [][Next]_vars
  /\ WF_vars(Boot) /\ WF_vars(Tracer) /\ WF_vars(Kernel)
  /\ \A sig \in Signals : SF_vars(SignalStop(sig))

-----------------------------------------------------------------------------
TypeOK ==
  /\ tstate \in TaskStates
  /\ todo \in 0..MaxInject
  /\ gpc \in 0..23 /\ gstack \in Seq(0..23) /\ sysAt \in Seq(0..23)
  /\ stopSig \in {"none", "SIGTRAP", "SECCOMP", "SIGSTOP"} \cup Signals
  /\ pending \subseteq Signals \cup {"SIGSTOP"}
  /\ std \in BOOLEAN
  /\ arrivals \in 0..MaxArrivals /\ raised \in 0..MaxArrivals
  /\ delivered \in Nat /\ vforks \in 0..MaxVforks
  /\ bogus \in BOOLEAN
  /\ opts \in BOOLEAN /\ filter \in BOOLEAN

(* Spec 4.H: the result an injection returns is that of its syscall, i.e. *)
(* remote_do_syscall_at never returns before the syscall has run.         *)
InjectedResultReal == ~bogus

(* Spec 4.E and 4.H: an injection never stops at the seccomp filter, and  *)
(* the SIGTRAP stop remote_do_syscall_at waits for comes from the gadget's *)
(* int3 after exactly one syscall, the instruction at SYSCALL_UNTRACED     *)
(* that run_tracee's filter lets through, with every call of the gadget   *)
(* returned; only then are the saved registers restored and rax taken as  *)
(* the result.                                                            *)
GadgetTrapAfterOneSyscall ==
  tstate = "InjStopped" =>
    /\ stopSig # "SECCOMP"
    /\ stopSig = "SIGTRAP" => sysAt = <<SYSCALL_UNTRACED>> /\ gstack = << >>

(* The view of SeccompHandler: the handshake of an injection is part of  *)
(* handling the seccomp stop, and a signal-delivery stop is a stop the    *)
(* tracer resumes.                                                        *)
AbsState ==
  CASE tstate \in {"InjRunning", "InjStopped"} -> "Handling"
    [] tstate = "SigStop" -> "Signalled"
    [] tstate \in {"Forked", "Booting", "BootStopped", "BootExited"} -> "Starting"
    [] tstate = "BootFailed" -> "Failed"
    [] OTHER -> tstate

(* The SIGSTOP rendezvous of run_tracer and run_tracee orders the child's  *)
(* seccomp filter after the tracer's PTRACE_O_TRACESECCOMP: a syscall the *)
(* filter traps stops the tracee for the tracer and never fails with      *)
(* ENOSYS for want of a tracer asking for the event.                      *)
FilterAfterOptions == filter => opts

Handler == INSTANCE SeccompHandler WITH tstate <- AbsState

(* remote_do_syscall_at implements an injection as one step of           *)
(* patch_syscall, whatever signals arrive during it: every injection it  *)
(* starts comes back (or the tracer panics), so every seccomp stop is     *)
(* continued, under the fairness of the tracer and the kernel.           *)
HandlerRefinement == Handler!Spec

(* Every SIGCHLD sent to the tracee eventually reaches the program, unless *)
(* the tracer has stopped (a panic, a failed start-up).  A                 *)
(* SIGCHLD that stops the task during an injection is taken off the       *)
(* kernel's queue and saved in signal_to_deliver by remote_do_syscall_at;  *)
(* it reaches the program only if the tracer resumes a signal-delivery    *)
(* stop with it, while do_ptrace_seccomp continues with None and the      *)
(* vfork-done and exit handlers resume PTRACE_EVENT stops with it.        *)
SigchldDelivered ==
  \A n \in 1..MaxArrivals :
    (raised >= n) ~> (delivered >= n \/ tstate \in {"Panicked", "BootFailed"})
=============================================================================
