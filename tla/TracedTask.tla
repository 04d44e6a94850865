----------------------------- MODULE TracedTask -----------------------------
(***************************************************************************)
(* The ptrace-driven task lifecycle and the syscall-site patcher of        *)
(* src/src/traced_task.rs, together with the part of the kernel it drives.  *)
(*                                                                         *)
(* Tasks are identified by tid.  The tracer's bookkeeping per task is the  *)
(* TracedTask struct: tstate, pid, ppid, handle (which Rc-shared metadata  *)
(* object the task holds), inVfork and ldpre (ldpreload_address is Some).  *)
(* The Rc<RefCell<..>> collections shared by the threads of a process are  *)
(* meta[h], h being the tid of the task that allocated them (new/forked).  *)
(*                                                                         *)
(* The kernel side is the address space each task runs in (aspace) and    *)
(* its memory image mem[a]: which syscall sites hold the patched call,     *)
(* which stub regions are mapped, whether the private page is mapped and  *)
(* whether the helper library has published its trampoline.  pc is where  *)
(* the task's user code is, relative to the syscall sites.                *)
(*                                                                         *)
(* The tracer is single threaded: every handler is one atomic step, taken  *)
(* while its task is stopped; other tasks keep running (tracee steps).     *)
(***************************************************************************)
EXTENDS Naturals, FiniteSets

CONSTANTS
  Tids,          \* task ids, the pool fork/vfork/clone draw new tasks from
  Root,          \* the task forked by run_tracer
  Sites,         \* addresses of syscall instructions in the program image
  Hooked,        \* sites whose trailing bytes match a SyscallHook prologue
  Regions,       \* +/-2GiB neighbourhoods a stub page can serve
  RegionOf,      \* the region of each site
  Ops,           \* process operations the program issues
  RemoteMayFail, \* whether the remote steps of the patcher may fail
  NoTask,        \* model value: no task
  NoSite         \* model value: no site

ASSUME Root \in Tids
ASSUME Hooked \subseteq Sites
ASSUME RegionOf \in [Sites -> Regions]
ASSUME Ops \subseteq {"fork", "vfork", "clone", "execve", "exit"}
ASSUME RemoteMayFail \in BOOLEAN
ASSUME NoTask \notin Tids /\ NoSite \notin Sites

VARIABLES
  tstate,    \* TaskState as the scheduler will next see it
  pid, ppid, handle, inVfork, ldpre,
  vparent,   \* kernel: the vfork parent a child still borrows memory from
  aspace,    \* kernel: the address space a task executes in
  mem,       \* kernel: memory image of each address space
  forkmem,   \* kernel: the child image copied when a fork event was raised
  pc,        \* kernel: position of the task's user code
  inflight,  \* the syscall the task issued has not been executed yet
  meta       \* the shared per-process collections of TracedTask

vars == <<tstate, pid, ppid, handle, inVfork, ldpre, vparent, aspace, mem,
          forkmem, pc, inflight, meta>>

Events == {"Fork", "VFork", "Clone", "Exec", "VForkDone", "Exit", "Seccomp"}
Creating == {"Fork", "VFork", "Clone"}
TaskStates == {"Unused", "Ready", "Running", "Exited"} \cup Events

(* rip relative to a site: before the syscall, or just past it.           *)
Elsewhere == [site |-> NoSite, past |-> FALSE]
Pcs == {Elsewhere} \cup [site: Sites, past: BOOLEAN]

Images == [code: [Sites -> {"orig", "patched"}], stubs: SUBSET Regions,
           private: BOOLEAN, helper: BOOLEAN]
(* The image execve installs: original code, nothing of reverie mapped.   *)
FreshImage == [code |-> [s \in Sites |-> "orig"], stubs |-> {},
               private |-> FALSE, helper |-> FALSE]

Meta == [patched: SUBSET Sites, unpatchable: SUBSET Sites,
         stubs: SUBSET Regions]
EmptyMeta == [patched |-> {}, unpatchable |-> {}, stubs |-> {}]

Tracked(t) == tstate[t] \notin {"Unused", "Exited"}
Fresh == {t \in Tids : tstate[t] = "Unused"}
VforkChild(t) == vparent[t] # NoTask
VforkBlocked(t) == \E c \in Tids : vparent[c] = t
Runs(t) == tstate[t] = "Running" /\ ~VforkBlocked(t)
(* A task that will run user code again: not stopped at an exec or exit   *)
(* event, which the kernel raised before the tracer caught up with it.    *)
Active(t) == Tracked(t) /\ tstate[t] \notin {"Exec", "Exit"}

(***************************************************************************)
(* Init: the child of run_tracer after Task::new; it has not exec'd the    *)
(* target yet, so libsystrace_load_address finds nothing.                 *)
(***************************************************************************)
Init ==
  /\ tstate = [t \in Tids |-> IF t = Root THEN "Ready" ELSE "Unused"]
  /\ pid = [t \in Tids |-> t]
  /\ ppid = [t \in Tids |-> t]
  /\ handle = [t \in Tids |-> t]
  /\ inVfork = [t \in Tids |-> FALSE]
  /\ ldpre = [t \in Tids |-> FALSE]
  /\ vparent = [t \in Tids |-> NoTask]
  /\ aspace = [t \in Tids |-> t]
  /\ mem = [a \in Tids |-> FreshImage]
  /\ forkmem = [t \in Tids |-> FreshImage]
  /\ pc = [t \in Tids |-> Elsewhere]
  /\ inflight = [t \in Tids |-> FALSE]
  /\ meta = [h \in Tids |-> EmptyMeta]

-----------------------------------------------------------------------------
(***************************************************************************)
(* Tracee steps: what the running program and the kernel do on their own. *)
(***************************************************************************)

(* The program arrives at the syscall instruction of site s.              *)
ReachSite(t, s) ==
  /\ Runs(t) /\ pc[t] = Elsewhere
  /\ pc' = [pc EXCEPT ![t] = [site |-> s, past |-> FALSE]]
  /\ UNCHANGED <<tstate, pid, ppid, handle, inVfork, ldpre, vparent, aspace,
                 mem, forkmem, inflight, meta>>

(* Original bytes: the seccomp filter traps the syscall, rip past it.     *)
(* Patched bytes: the call goes through the stub into the helper, which   *)
(* issues the syscall from the untraced gadget.                           *)
ExecuteSite(t) ==
  LET s == pc[t].site IN
  /\ Runs(t) /\ s # NoSite /\ ~pc[t].past
  /\ IF mem[aspace[t]].code[s] = "orig"
       THEN /\ tstate' = [tstate EXCEPT ![t] = "Seccomp"]
            /\ pc' = [pc EXCEPT ![t] = [site |-> s, past |-> TRUE]]
            /\ inflight' = [inflight EXCEPT ![t] = TRUE]
       ELSE /\ pc' = [pc EXCEPT ![t] = Elsewhere]
            /\ inflight' = [inflight EXCEPT ![t] = FALSE]
            /\ UNCHANGED tstate
  /\ UNCHANGED <<pid, ppid, handle, inVfork, ldpre, vparent, aspace, mem,
                 forkmem, meta>>

(* The instructions after the syscall run and control moves on.           *)
RunTrailer(t) ==
  /\ Runs(t) /\ pc[t].past
  /\ pc' = [pc EXCEPT ![t] = Elsewhere]
  /\ UNCHANGED <<tstate, pid, ppid, handle, inVfork, ldpre, vparent, aspace,
                 mem, forkmem, inflight, meta>>

(* ld.so runs the preloaded helper, which fills SYSCALL_TRAMPOLINE in the *)
(* private page mapped by tracee_preinit.                                 *)
HelperInit(t) ==
  /\ Runs(t) /\ pc[t] = Elsewhere /\ ~VforkChild(t)
  /\ mem[aspace[t]].private /\ ~mem[aspace[t]].helper
  /\ mem' = [mem EXCEPT ![aspace[t]].helper = TRUE]
  /\ UNCHANGED <<tstate, pid, ppid, handle, inVfork, ldpre, vparent, aspace,
                 forkmem, pc, inflight, meta>>

(* fork/vfork/clone: the kernel creates the child and, under the         *)
(* PTRACE_O_TRACECLONE/TRACEFORK/TRACEVFORK options run_tracer sets,      *)
(* reports the event;                                                     *)
(* the model's tid pool bounds how many tasks are ever created.           *)
(* fork copies the address space as it is at this moment.  A vfork child  *)
(* only calls execve or _exit, so it never forks again.                   *)
RaiseCreate(t, op, ev) ==
  /\ Runs(t) /\ pc[t] = Elsewhere /\ ~VforkChild(t)
  /\ op \in Ops
  /\ Cardinality(Fresh) > Cardinality({u \in Tids : tstate[u] \in Creating})
  /\ tstate' = [tstate EXCEPT ![t] = ev]
  /\ forkmem' = IF op = "fork" THEN [forkmem EXCEPT ![t] = mem[aspace[t]]]
                                ELSE forkmem
  /\ UNCHANGED <<pid, ppid, handle, inVfork, ldpre, vparent, aspace, mem, pc,
                 inflight, meta>>

(* The vfork parent is released when its child execs or exits.           *)
ReleaseParent(t, st) ==
  [u \in Tids |-> IF u = vparent[t] /\ tstate[u] = "Running"
                    THEN "VForkDone" ELSE st[u]]

(* execve: the other threads of the process are killed and report their  *)
(* exit; the task gets a fresh image (its own, if it was a vfork child).  *)
RaiseExec(t) ==
  /\ Runs(t) /\ pc[t] = Elsewhere /\ "execve" \in Ops
  /\ tstate' = ReleaseParent(t,
        [u \in Tids |-> IF u = t THEN "Exec"
                        ELSE IF pid[u] = pid[t] /\ Tracked(u) THEN "Exit"
                        ELSE tstate[u]])
  /\ aspace' = [aspace EXCEPT ![t] = pid[t]]
  /\ mem' = [mem EXCEPT ![pid[t]] = FreshImage]
  /\ vparent' = [vparent EXCEPT ![t] = NoTask]
  /\ UNCHANGED <<pid, ppid, handle, inVfork, ldpre, forkmem, pc, inflight,
                 meta>>

RaiseExit(t) ==
  /\ Runs(t) /\ pc[t] = Elsewhere /\ "exit" \in Ops
  /\ tstate' = [tstate EXCEPT ![t] = "Exit"]
  /\ UNCHANGED <<pid, ppid, handle, inVfork, ldpre, vparent, aspace, mem,
                 forkmem, pc, inflight, meta>>

-----------------------------------------------------------------------------
(***************************************************************************)
(* Tracer steps: TracedTask::run and handle_ptrace_event.                 *)
(***************************************************************************)

(* run: a Ready task is resumed with no signal.                           *)
RunReady(t) ==
  /\ tstate[t] = "Ready"
  /\ tstate' = [tstate EXCEPT ![t] = "Running"]
  /\ UNCHANGED <<pid, ppid, handle, inVfork, ldpre, vparent, aspace, mem,
                 forkmem, pc, inflight, meta>>

(* do_ptrace_fork / do_ptrace_vfork: forked() deep-copies the collections *)
(* into a new handle; the child runs in the image copied at fork time, or *)
(* in the parent's memory after vfork.  The scheduler resumes the parent. *)
(* Mutant: forked() shares the parent's Rc instead of copying it.         *)
forked_handle_shared(t, c) == handle[t]

(* forked(): Rc::new(RefCell::new(self.x.borrow().clone())).              *)
forked_handle(t, c) == c

ForkChild(t, c, isVfork) ==
  /\ tstate' = [tstate EXCEPT ![t] = "Running", ![c] = "Ready"]
  /\ pid' = [pid EXCEPT ![c] = c]
  /\ ppid' = [ppid EXCEPT ![c] = pid[t]]
  /\ handle' = [handle EXCEPT ![c] = forked_handle(t, c)]
  /\ meta' = [meta EXCEPT ![c] = meta[handle[t]]]
  /\ ldpre' = [ldpre EXCEPT ![c] = mem[aspace[t]].helper]
  /\ inVfork' = [inVfork EXCEPT ![c] = isVfork]
  /\ vparent' = [vparent EXCEPT ![c] = IF isVfork THEN t ELSE NoTask]
  /\ aspace' = [aspace EXCEPT ![c] = IF isVfork THEN aspace[t] ELSE c]
  /\ mem' = IF isVfork THEN mem ELSE [mem EXCEPT ![c] = forkmem[t]]
  /\ pc' = [pc EXCEPT ![c] = pc[t]]
  /\ forkmem' = [forkmem EXCEPT ![t] = FreshImage]
  /\ UNCHANGED inflight

do_ptrace_fork(t) ==
  /\ tstate[t] = "Fork"
  /\ \E c \in Fresh : ForkChild(t, c, FALSE)

do_ptrace_vfork(t) ==
  /\ tstate[t] = "VFork"
  /\ \E c \in Fresh : ForkChild(t, c, TRUE)

(* cloned(): self.x.clone() on each Rc, sharing the collections.          *)
cloned_handle(t, c) == handle[t]

(* do_ptrace_clone: cloned() shares the collections and the address space. *)
do_ptrace_clone(t) ==
  /\ tstate[t] = "Clone"
  /\ \E c \in Fresh :
       /\ tstate' = [tstate EXCEPT ![t] = "Running", ![c] = "Ready"]
       /\ pid' = [pid EXCEPT ![c] = pid[t]]
       /\ ppid' = [ppid EXCEPT ![c] = pid[t]]
       /\ handle' = [handle EXCEPT ![c] = cloned_handle(t, c)]
       /\ ldpre' = [ldpre EXCEPT ![c] = ldpre[t]]
       /\ aspace' = [aspace EXCEPT ![c] = aspace[t]]
       /\ pc' = [pc EXCEPT ![c] = Elsewhere]
       /\ UNCHANGED <<inVfork, vparent, mem, forkmem, inflight, meta>>

(* task_reset, after tracee_preinit: helper state cleared; the shared     *)
(* unpatchable, memory_map and stub_pages vectors emptied in place.       *)
(* patched_syscalls is left as it was.                                    *)
(* Mutant: stub_pages left uncleared.                                      *)
task_reset_keep_stubs(m) == [m EXCEPT !.unpatchable = {}]

task_reset(m) == [m EXCEPT !.unpatchable = {}, !.stubs = {}]

(* do_ptrace_exec: preinit maps the private page and writes the gadgets,  *)
(* then task_reset and continue.                                          *)
do_ptrace_exec(t) ==
  /\ tstate[t] = "Exec"
  /\ tstate' = [tstate EXCEPT ![t] = "Running"]
  /\ mem' = [mem EXCEPT ![aspace[t]].private = TRUE]
  /\ ldpre' = [ldpre EXCEPT ![t] = FALSE]
  /\ inVfork' = [inVfork EXCEPT ![t] = FALSE]
  /\ meta' = [meta EXCEPT ![handle[t]] = task_reset(@)]
  /\ UNCHANGED <<pid, ppid, handle, vparent, aspace, forkmem, pc, inflight>>

(* do_ptrace_vfork_done: plain continue.                                  *)
do_ptrace_vfork_done(t) ==
  /\ tstate[t] = "VForkDone"
  /\ tstate' = [tstate EXCEPT ![t] = "Running"]
  /\ UNCHANGED <<pid, ppid, handle, inVfork, ldpre, vparent, aspace, mem,
                 forkmem, pc, inflight, meta>>

(* do_ptrace_event_exit: single-step out, reap, RunTask::Exited.  A vfork *)
(* child leaving releases its parent.                                     *)
(* The last task of an address space frees it, and the last TracedTask   *)
(* holding an Rc drops the collections.                                   *)
do_ptrace_event_exit(t) ==
  LET others == {u \in Tids \ {t} : Tracked(u)} IN
  /\ tstate[t] = "Exit"
  /\ tstate' = ReleaseParent(t, [tstate EXCEPT ![t] = "Exited"])
  /\ vparent' = [vparent EXCEPT ![t] = NoTask]
  /\ pc' = [pc EXCEPT ![t] = Elsewhere]
  /\ inflight' = [inflight EXCEPT ![t] = FALSE]
  /\ mem' = IF \E u \in others : aspace[u] = aspace[t] THEN mem
            ELSE [mem EXCEPT ![aspace[t]] = FreshImage]
  /\ meta' = IF \E u \in others : handle[u] = handle[t] THEN meta
             ELSE [meta EXCEPT ![handle[t]] = EmptyMeta]
  /\ UNCHANGED <<pid, ppid, handle, inVfork, ldpre, aspace, forkmem>>

-----------------------------------------------------------------------------
(***************************************************************************)
(* The seccomp stop: do_ptrace_seccomp calls patch_syscall and continues  *)
(* whatever it returns.                                                   *)
(***************************************************************************)

find_syscall_hook(s) == s \in Hooked

(* Mutant: the in_vfork early return dropped.                             *)
WillPatch_no_vfork_check(t, loaded, s) ==
  /\ loaded
  /\ s \notin meta[handle[t]].patched
  /\ s \notin meta[handle[t]].unpatchable
  /\ find_syscall_hook(s)

(* The early returns of patch_syscall, before skip_seccomp_syscall.       *)
WillPatch(t, loaded, s) ==
  /\ ~inVfork[t]
  /\ loaded
  /\ s \notin meta[handle[t]].patched
  /\ s \notin meta[handle[t]].unpatchable
  /\ find_syscall_hook(s)

(* extended_jump_from_to: a recorded stub page of the site's region, or   *)
(* allocate_extended_jumps: search_stub_page + mmap (failing before the   *)
(* page is recorded), push, poke, mprotect (failing after it).            *)
(* Mutant: the distance test of extended_jump_from_to dropped, so any      *)
(* recorded stub page is reused.                                         *)
StubOutcomes_any_page(t, s) ==
  IF meta[handle[t]].stubs # {} THEN {"found"}
  ELSE IF RemoteMayFail THEN {"allocated", "no_gap", "mprotect_failed"}
  ELSE {"allocated"}

StubOutcomes(t, s) ==
  IF RegionOf[s] \in meta[handle[t]].stubs THEN {"found"}
  ELSE IF RemoteMayFail THEN {"allocated", "no_gap", "mprotect_failed"}
  ELSE {"allocated"}

(* Continue at the seccomp stop: the kernel runs the syscall.             *)
ContinueUnpatched(t) ==
  /\ tstate' = [tstate EXCEPT ![t] = "Running"]
  /\ inflight' = [inflight EXCEPT ![t] = FALSE]
  /\ UNCHANGED <<mem, meta, pc>>

(* skip_seccomp_syscall ran, then extended_jump_from_to failed: its error *)
(* is returned before patch_at, registers stay as restored by the skip.   *)
ContinueAfterFailedJump(t, s, outcome) ==
  LET r == RegionOf[s] IN
  /\ tstate' = [tstate EXCEPT ![t] = "Running"]
  /\ IF outcome = "mprotect_failed"
       THEN /\ meta' = [meta EXCEPT ![handle[t]].stubs = @ \cup {r}]
            /\ mem' = [mem EXCEPT ![aspace[t]].stubs = @ \cup {r}]
       ELSE UNCHANGED <<meta, mem>>
  /\ UNCHANGED <<inflight, pc>>

(* patch_at writes the call, rewinds rip to the site and rax to orig_rax; *)
(* the site is pushed to patched_syscalls.  patch_at never returns an     *)
(* error (its remote steps panic through expect), so the map_err branch   *)
(* of patch_syscall does not run.                                         *)
ContinuePatched(t, s, outcome) ==
  LET r == RegionOf[s]
      a == aspace[t]
      new == IF outcome = "allocated" THEN {r} ELSE {}
  IN
  /\ tstate' = [tstate EXCEPT ![t] = "Running"]
  /\ mem' = [mem EXCEPT ![a].stubs = @ \cup new, ![a].code[s] = "patched"]
  /\ meta' = [meta EXCEPT ![handle[t]].stubs = @ \cup new,
                          ![handle[t]].patched = @ \cup {s}]
  /\ pc' = [pc EXCEPT ![t] = [site |-> s, past |-> FALSE]]
  /\ UNCHANGED inflight

patch_syscall(t) ==
  LET s == pc[t].site
      loaded == ldpre[t] \/ mem[aspace[t]].helper
  IN
  /\ ldpre' = [ldpre EXCEPT ![t] = loaded]
  /\ IF ~WillPatch(t, loaded, s)
       THEN ContinueUnpatched(t)
       ELSE \E outcome \in StubOutcomes(t, s) :
              IF outcome \in {"found", "allocated"}
                THEN ContinuePatched(t, s, outcome)
                ELSE ContinueAfterFailedJump(t, s, outcome)

do_ptrace_seccomp(t) ==
  /\ tstate[t] = "Seccomp"
  /\ patch_syscall(t)
  /\ UNCHANGED <<pid, ppid, handle, inVfork, vparent, aspace, forkmem>>

-----------------------------------------------------------------------------
(* Every task has exited: run_all returns.                                *)
Terminated ==
  /\ \A t \in Tids : tstate[t] \in {"Unused", "Exited"}
  /\ UNCHANGED vars

TraceeStep(t) ==
  \/ \E s \in Sites : ReachSite(t, s)
  \/ ExecuteSite(t)
  \/ RunTrailer(t)
  \/ HelperInit(t)
  \/ RaiseCreate(t, "fork", "Fork")
  \/ RaiseCreate(t, "vfork", "VFork")
  \/ RaiseCreate(t, "clone", "Clone")
  \/ RaiseExec(t)
  \/ RaiseExit(t)

TracerStep(t) ==
  \/ RunReady(t)
  \/ do_ptrace_fork(t)
  \/ do_ptrace_vfork(t)
  \/ do_ptrace_clone(t)
  \/ do_ptrace_exec(t)
  \/ do_ptrace_vfork_done(t)
  \/ do_ptrace_event_exit(t)
  \/ do_ptrace_seccomp(t)

Next ==
  \/ \E t \in Tids : TraceeStep(t) \/ TracerStep(t)
  \/ Terminated

Spec == Init /\ [][Next]_vars

-----------------------------------------------------------------------------
(***************************************************************************)
(* Properties.                                                            *)
(***************************************************************************)

TypeOK ==
  /\ tstate \in [Tids -> TaskStates]
  /\ pid \in [Tids -> Tids] /\ ppid \in [Tids -> Tids]
  /\ handle \in [Tids -> Tids]
  /\ inVfork \in [Tids -> BOOLEAN] /\ ldpre \in [Tids -> BOOLEAN]
  /\ vparent \in [Tids -> Tids \cup {NoTask}]
  /\ aspace \in [Tids -> Tids]
  /\ mem \in [Tids -> Images] /\ forkmem \in [Tids -> Images]
  /\ pc \in [Tids -> Pcs]
  /\ inflight \in [Tids -> BOOLEAN]
  /\ meta \in [Tids -> Meta]

(* The stub pages a process's TracedTask records (stub_pages, consulted   *)
(* by extended_jump_from_to before allocating) are mapped in the address  *)
(* space the task runs in: across fork's deep copy, clone's sharing and   *)
(* task_reset on exec.                                                    *)
StubPagesMapped ==
  \A t \in Tids : Active(t) =>
    meta[handle[t]].stubs \subseteq mem[aspace[t]].stubs

(* Every patched call site in a live address space lands in a mapped stub *)
(* page, whose jump targets a loaded helper library.                      *)
PatchedCallsResolve ==
  \A t \in Tids : Active(t) =>
    \A s \in Sites : mem[aspace[t]].code[s] = "patched" =>
      /\ RegionOf[s] \in mem[aspace[t]].stubs
      /\ mem[aspace[t]].helper

(* Threads of one process hold one metadata object and tasks of distinct  *)
(* address spaces hold distinct ones (cloned shares, forked copies); the  *)
(* vfork child, which borrows its parent's memory, is exempt.             *)
HandlePerAddressSpace ==
  \A t, u \in Tids :
    (Active(t) /\ Active(u) /\ ~inVfork[t] /\ ~inVfork[u]) =>
      (handle[t] = handle[u] <=> aspace[t] = aspace[u])

(* A site patched in a task's memory is recorded in its patched_syscalls, *)
(* so the task never tries to patch over a patched call.                  *)
PatchesRecorded ==
  \A t \in Tids : (Active(t) /\ ~inVfork[t]) =>
    \A s \in Sites : mem[aspace[t]].code[s] = "patched" =>
      s \in meta[handle[t]].patched

(* A syscall the program issued is executed before its caller runs the    *)
(* instructions after it: patch_syscall either lets the kernel run it or  *)
(* rewinds rip so that the patched call runs it.                          *)
SyscallNotLost ==
  \A t \in Tids : (tstate[t] = "Running" /\ pc[t].past) => ~inflight[t]

(* A running task never has rip inside a patched window, i.e. never      *)
(* executes the middle of the call rel32 patch_at wrote.                  *)
NoResumeInsidePatch ==
  \A t \in Tids : (tstate[t] = "Running" /\ pc[t].past) =>
    mem[aspace[t]].code[pc[t].site] = "orig"
=============================================================================
