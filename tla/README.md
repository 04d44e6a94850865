# TLA+ models of reverie's ptrace tracer

Reverie (`src/`) is a ptrace-based syscall interceptor for x86-64 Linux.
`strace.rs` starts the tracee under a seccomp filter that traps every syscall
not issued from the untraced gadget at `0x7000_0002`. The tracer is single
threaded. Each trapped syscall reaches `do_ptrace_seccomp`, which calls
`patch_syscall`. That function rewrites the syscall site into a 5-byte
`call rel32` to a stub page within ±2 GiB, and the stub page jumps into the
preloaded helper library. Later executions of the site never trap again.

`TracedTask` (`traced_task.rs`) is the tracer's record of one task. The
collections describing a process (`stub_pages`, `patched_syscalls`,
`unpatchable_syscalls`, `memory_map`) are shared through
`Rc<RefCell<..>>`:
- `cloned()` shares them with a new thread;
- `forked()` deep-copies them for a new process;
- `task_reset` clears some of them in place on exec.

## Parts of the system

| Part | Source | Module | Status |
|---|---|---|---|
| Task lifecycle: fork, vfork, clone, exec, vfork-done, exit handlers | `src/src/traced_task.rs` | `TracedTask`, `Injector` (signals), `ExitStatus` (exit code) | partly |
| Patcher: `patch_syscall`, stub-page reuse and allocation | `src/src/traced_task.rs` | `TracedTask` | partly: addresses abstracted to regions |
| `patch_at`: writing the call and rewinding the tracee | `src/src/remote.rs`, `src/src/traced_task.rs` (`poke_bytes`) | `TracedTask` (effect), `PatchAt` (bytes, pages, siblings) | modelled |
| `search_stub_page`, the reuse test of `extended_jump_from_to`, `allocate_extended_jumps` | `src/src/remote.rs`, `src/src/traced_task.rs` | `StubReach` (addresses); `TracedTask` (outcomes found / allocated / no_gap) | modelled |
| Remote syscall injection (`remote_do_syscall_at`, `tracee_preinit`) and `signal_to_deliver` | `src/src/traced_task.rs`, `src/src/remote.rs` | `Injector`, refining `SeccompHandler`; `ExecHandshake` (`do_ptrace_exec`, `tracee_preinit`); `TracedTask` (effect of preinit) | partly: register contents abstracted |
| Stub generator, syscall gadget page, seccomp whitelist | `src/reverie/src/stubs.rs`, `src/src/remote.rs` (`gen_syscall_sequences_at`), `src/trampoline/ffi.rs`, `src/reverie/src/strace.rs` | `Stubs`; `StubReach` (stub contents), `Injector` (gadget execution) | modelled |
| Layout constants | `src/reverie-common/src/consts.rs` | none | not modelled: declarations only, and `src/src` takes its `DET_*` constants from another module |
| Bootstrap and exit (`run_tracer`, `run_tracee`, `run_app`, `main`) | `src/reverie/src/strace.rs` | `Injector` (the SIGSTOP rendezvous, options, filter, execvpe), `TracedTask` (the state it leaves), `ExitStatus` | partly: memfd and namespaces are I/O |
| CLI, logging, `state_tracer` memfd, hook catalog, build glue | various | none | not modelled (I/O or declarations) |
| Scheduler `SchedWait` (outside `src/`) | spec §4.J | parent resumed after Forked; Terminated | spec-modelled |

## TracedTask.tla

There is one variable per field of `TracedTask` that the handlers change:

| Variable | Code |
|---|---|
| `tstate` | `state` |
| `pid` | `pid` |
| `ppid` | `ppid` |
| `inVfork` | `in_vfork` |
| `ldpre` | whether `ldpreload_address` is `Some` |
| `handle` | which shared collection object the task holds |

`meta[h]` is that object: the patched, unpatchable and stub-page sets.

The model also holds the kernel state these handlers react to:
- `aspace`: which address space a task runs in (a vfork child borrows its parent's).
- `mem`: per address space, which sites hold the patched call, which stub regions are mapped, whether the private page is mapped (`tracee_preinit`), and whether the helper has published its trampoline.
- `forkmem`: the image the kernel copied when fork ran.
- `pc`: where a task is relative to the syscall sites.
- `inflight`: a trapped syscall that has not been executed yet.

Addresses are abstracted:
- A site is a model value.
- A region is a ±2 GiB neighbourhood that one stub page serves.
- `Hooked` is the set of sites whose bytes match a `SyscallHook` prologue (`find_syscall_hook`).

Tracee steps are what the program and kernel do while the tracer looks elsewhere:
- reach a site;
- execute it: trap on original bytes, or call through a patched site;
- run the trailing instructions;
- initialise the helper;
- raise a fork, vfork or clone event. Fork snapshots memory at this moment.
- raise exec: siblings are killed, the image is replaced, and a vfork parent is released;
- raise exit.

Tracer steps are `TracedTask::run` and each arm of `handle_ptrace_event`. Each is one atomic action, as the tracer is single threaded:
- `do_ptrace_fork`, `do_ptrace_vfork` and `do_ptrace_clone` (`forked`, `cloned`);
- `do_ptrace_exec`, which runs preinit and then `task_reset`;
- `do_ptrace_vfork_done`;
- `do_ptrace_event_exit`;
- `do_ptrace_seccomp`, which runs the whole of `patch_syscall`:
  - its early returns (vfork, helper not loaded, already patched, unpatchable, no matching hook);
  - `skip_seccomp_syscall`;
  - `extended_jump_from_to`, which reuses a stub page or allocates one. Allocation fails either before the page is recorded (no gap, mmap) or after it (poke, mprotect).
  - `patch_at`, which writes the call and rewinds rip. It never returns an error: its remote steps panic through `expect`, so the `map_err` branch that would mark the site unpatchable does not run.
  - the final continue.

The scheduler is not in `src/`. Following spec §4.J, a `Forked(parent, child)` result resumes the parent and queues the child Ready, and the loop ends once all tasks have exited.

## Runs

| Run | Module | Expect | Checks | What it shows |
|---|---|---|---|---|
| `tasks` | MCTracedTask | pass | StubPagesMapped, PatchedCallsResolve, HandlePerAddressSpace, PatchesRecorded | two tasks doing fork, vfork, clone, exec and exit, with every remote step of stub allocation allowed to fail, keep the records consistent with memory (191,136 distinct states) |
| `lost_syscall` | MCTracedTask | violation | SyscallNotLost | a trapped syscall is skipped, then stub allocation fails, and the syscall never runs |
| `mid_patch` | MCTracedTask | violation | NoResumeInsidePatch | a second thread trapped at a site is resumed two bytes into the call its sibling wrote |
| `fork_race` | MCTracedTask | violation | StubPagesMapped | `forked()` copies stub pages recorded after the kernel copied memory |
| `bytes` | MCPatchAt | pass | CallDecodes, PaddingEndsAtWindow | the written call decodes to the requested rel32 and the NOP padding ends exactly at the end of the prologue |
| `trail` | MCPatchAt | violation | TrailIntact | `poke_bytes` copies 8 bytes per byte and writes junk after the patch |
| `signals` | MCInjector | pass | GadgetTrapAfterOneSyscall, FilterAfterOptions, HandlerRefinement | start-up either fails or sets the ptrace options before the child's seccomp filter exists; the injection handshake, with signals arriving at any point, implements `SeccompHandler` with its fairness: every seccomp stop is continued or the tracer panics; executing the gadget bytes from the untraced entry runs one syscall, which the seccomp whitelist lets through, and then traps |
| `inject_result` | MCInjector | violation | InjectedResultReal | a SIGCHLD stop during an injection is taken as its completion before the syscall ran |
| `sigchld_lost` | MCInjector | violation | SigchldDelivered | that SIGCHLD, saved in `signal_to_deliver`, never reaches the program: the seccomp continue passes no signal, and the vfork-done resume passes it at a PTRACE_EVENT stop, where the kernel ignores it |
| `stubs` | MCStubReach | pass | StubSpaceFree, AllocatedSlotsReach, PatchedCallReachesHook | stub pages go to free space, every slot of an allocated page is in rel32 range of its site, and every patched call lands on a stub whose indirect jump goes to its own hook, with program mmaps interleaved and searches that find no gap |
| `preinit` | MCExecHandshake | violation | ExecStopIsTrap | with no signal at all, the mmap `tracee_preinit` runs at the new image's `rip` is trapped by the seccomp filter, so its wait sees a seccomp stop instead of SIGTRAP and the tracer panics at every exec |
| `exit_code` | ExitStatus | violation | ExitCodePropagated | a program exiting with code c makes reverie exit with 0 |

`PROJECT.json` lists one mutant for each property of each pass run, and TLC catches every one. Among them:
- stub pages not cleared on exec;
- the reuse test without its distance check;
- `forked()` sharing the `Rc`;
- the `in_vfork` early return dropped;
- a big-endian rel32 and a wrong NOP encoding;
- a SIGCHLD stop answered by another `waitpid` without a resume;
- the gap search pairing each mapping with the one after next, or without the lower bound of its window;
- the slot of a hook counted from one;
- `untraced_syscall` entering the gadget at the traced call;
- `run_tracee` installing the filter before its `raise(SIGSTOP)`.

Some properties of the pass runs need explaining:
- **StubPagesMapped**: every recorded stub page is mapped in the task's address space.
- **PatchedCallsResolve**: every patched site lands in a mapped stub page, with the helper loaded.
- **HandlePerAddressSpace**: tasks share a record exactly when they share an address space.
- **PatchesRecorded**: every patched site is in `patched_syscalls`.
- **CallDecodes**: decoding the written bytes with a reference decoder (`DecodeRel32`) gives back the requested displacement.
- **PaddingEndsAtWindow**: decoding the padding with a reference decoder (`NopLen`, a ModRM-driven length decoder) ends exactly at the end of the prologue.
- **HandlerRefinement**: `Injector` implements `SeccompHandler` under the mapping below, fairness included. Each injection blocks in `waitpid` until the task stops again, so this is what says that every stop during the gadget ends the wait and every seccomp stop is eventually continued: tracer and tracee never wait on each other. It accepts the panic of traced_task.rs:574 as an end of the handler.
- **StubSpaceFree**: the `MAP_FIXED` mmap of `allocate_extended_jumps` never lands on a mapped range.
- **AllocatedSlotsReach**: for every page allocated for a site, all 64 slots give a displacement that passes `patch_at`'s assertion.
- **PatchedCallReachesHook** (spec §6.5): following a patched call to its target and decoding the `jmp *0(%rip)` there with a reference decoder gives `Preload + offset` of the site's own hook. The slot arithmetic (`extended_jump_offset_from_stub_page`) and the generated bytes (`gen_extended_jump_stubs`) must agree for this to hold.
- **FilterAfterOptions**: the child's seccomp filter exists only once the tracer has set `PTRACE_O_TRACESECCOMP`. Only the SIGSTOP rendezvous between the two processes orders these, and without it a trapped syscall would fail with ENOSYS.
- **GadgetTrapAfterOneSyscall**: when the injected tracee stops with SIGTRAP, exactly one syscall ran, at the whitelisted instruction, and the gadget's call has returned; it never stops at a seccomp trap.

The project is limited to twelve runs. These were observed with TLC, but no run states them:
- `task_reset`'s `strong_count == 1` debug_asserts fail when one of two threads execs before its sibling's exit is handled. This is TracedTask.
- `task_reset` keeps `patched_syscalls` across exec. The only effect is that such a site traps through seccomp forever.
- The page-crossing test of `patch_at` (remote.rs:230) never holds for a real address. PTRACE_POKEDATA ignores page protections, so the write still lands.
- Any signal other than SIGTRAP or SIGCHLD during an injection panics the tracer (traced_task.rs:574). The `signals` run takes this branch.
- A stub page that passes the reuse test can be 2^31 - 1 bytes behind `rip`, which fails `patch_at`'s assertion (traced_task.rs:366). TLC finds this with a site at `0x600000 + 2^28 - 3` added to the `stubs` layout.
- A signal pending for the child before its SIGSTOP stops it first. `wait_sigstop` then fails and reverie aborts (strace.rs:58). The `signals` run takes this branch (`wait_sigstop_failed`).
- With one SIGCHLD arriving, `ExecStopIsTrap` is also violated at the first wait of `do_ptrace_exec`.
- A mapping below the 1 MiB sentinel makes the first gap size wrap, so the stub page is mapped over it (remote.rs:284). TLC finds this with `<<32768, 262144>>` added to `InitMaps`.

## PatchAt.tla

This module models one call of `patch_at` (remote.rs:137-257) at byte level, together with `poke_bytes` (traced_task.rs:452-471):
- `ip` is the syscall address. `rip` starts at `ip + 2`.
- `plen` is the length of the matched prologue: 3 to 6 bytes, as in the hook catalog.
- `rela` is the call displacement.
- `mem` holds the bytes from `ip` to `ip + 8`.
- `prot` holds the protection of each page.

The actions are the steps of `patch_at`, in the code's order:
1. `ProtectWrite`: mprotect the span PROT_WRITE.
2. `Poke`: `poke_bytes` of E8, the little-endian rel32 and the NOP padding.
3. `RestoreExec`: mprotect back to RX.
4. `Rewind`: rip back to the site.

`poke_bytes` copies `size * 8` bytes into a `u64` buffer. That is undefined behaviour, so the bytes after the patch within the poked word are a nondeterministic choice: the original byte or junk. The reference operators `DecodeRel32`, `NopLen` and `NopRun` decode what was written independently of how it was encoded.

## Injector.tla

This module models the injection handshake of `remote_do_syscall_at` (traced_task.rs:536-589), together with the signals of one traced task.

Kernel steps:
- a signal arrives and is pending; a standard signal does not queue;
- the task stops for a pending signal;
- at the gadget, either the syscall runs and the int3 follows, or a pending signal stops the task first.

Tracer steps:
- `TracedTask::run` resumes a signal stop with its signal;
- `do_ptrace_seccomp` enters `patch_syscall`, which injects 0, 2 or 4 syscalls:
  - 0 for an early return;
  - 2 for the mprotects of `patch_at`;
  - 4 when `allocate_extended_jumps` also runs, adding its mmap and mprotect.
- `InjectStart` sets the registers and resumes.
- `InjectWait` handles the stop `waitpid` reports:
  - SIGTRAP is the expected stop;
  - SIGCHLD is saved in `signal_to_deliver` and taken as completion;
  - any other signal panics.
- The seccomp continue passes no signal.
- `do_ptrace_vfork_done` resumes with `signal_to_deliver`. That stop is a PTRACE_EVENT stop, where the kernel ignores the signal `PTRACE_CONT` passes, so the task just continues. `handle_ptrace_signal`, the one function that would pass it at a signal-delivery stop, has no caller.

`GadgetStep` executes the gadget page one instruction at a time from the bytes `Stubs!gen_syscall_sequences_at` generates: `gpc` is the offset in the page, `gstack` the return addresses pushed by `call`, `sysAt` the syscalls that ran. A syscall is checked against the seccomp whitelist; `int3` stops the task with SIGTRAP. This replaces a fixed "syscall, then trap" step, so the handshake's assumption about the gadget is checked, not assumed.

Start-up comes first (strace.rs):
- `TraceMe` is the child's `traceme` and `raise(SIGSTOP)`; `TraceMeFails` is one of its asserts or `traceme` failing, after which the child exits;
- `BootStop` is the kernel stopping the child for a pending signal, SIGCHLD (17) before SIGSTOP (19);
- `wait_sigstop` sets the options and continues the child; `wait_sigstop_failed` is any other status, after which `run_tracer` fails;
- `run_tracee_exec` installs the filter and calls `execvpe`, whose execve is the first trapped syscall.

No signal arrives before `traceme`; in that short window a signal meets the child's default dispositions, not the tracer.

`bogus` records that an injection returned before its syscall ran. `raised` and `delivered` count SIGCHLDs sent and received.

## StubReach.tla

This module translates the address arithmetic of the stub pages. Addresses are integers, and u64 subtraction wraps modulo `Word`.
- `Gaps` and `GapFits` are `search_stub_page`:
  - the mappings are sorted, with the 1 MiB sentinel first and the top sentinel last;
  - each mapping's end is paired with the next mapping's start;
  - the first gap at least `pages * 4096` long whose start lies in the window of `almost_2gb` is taken.
- `allocate_extended_jumps` passes 0x2000 bytes as `pages`, so the search asks for a 32 MiB gap.
- `Reusable` is the test of `extended_jump_from_to`.
- `Rela` and `FitsI32` are `patch_at`'s displacement and its assertion.
- `extended_jump_from_to(s)` is the whole step for one site: the first reusable page, or search, `MAP_FIXED` mmap, and push. It is followed by `patch_at`'s assertion and the push to `patched_syscalls`.
- `ProgramMmap` is the program mapping memory in between.
- `stubcode[p]` is what `gen_extended_jump_stubs` wrote to the page at `p`; `patched[s]` is the displacement written at site `s`.

The MC module scales the constants so that TLC's 32-bit integers hold them:
- the address space is 2^30;
- "2 GiB" is 2^28;
- "1 MiB" is 2^17, keeping the code's ratio of 2048.

Pages (4096), slots (128) and instruction lengths keep their real sizes.

## Stubs.tla

This module holds the code the tracer writes into a tracee, as byte sequences, with reference decoders:
- `gen_extended_jump` and `gen_extended_jump_stubs` are stubs.rs: `ff 25 00000000` and the little-endian qword, padded to 128 bytes, one per hook in catalog order.
- `extended_jump_offset_from_stub_page` is the slot arithmetic of traced_task.rs.
- `gen_syscall_sequences_at` is the gadget page of remote.rs: three u64 literals poked in little-endian order. TLC's integers are 32 bits, so each literal is written as four 16-bit limbs.
- `SYSCALL_UNTRACED`, `SYSCALL_TRACED` (ffi.rs), `UntracedEntry`, `TracedEntry` (the rips of `untraced_syscall` and `traced_syscall`) and `SeccompWhitelist` (run_tracee) are offsets in the gadget page at `0x7000_0000`.
- `LE`, `LE32` and `IndirectJumpTarget` decode bytes independently of how the generators encode them.

## ExecHandshake.tla

This module EXTENDS `Injector` and adds the exec path, composing its actions with `Injector`'s `Next` in `ExecNext`:
- `ProgramExec` is the exec event.
- `do_ptrace_exec` writes `bp_syscall_bp` (`cc 0f 05 cc`) at `rip` and continues.
- `ExecStep` runs those bytes: an int3 stops with SIGTRAP. A syscall runs only if `SeccompAllows` lets its address through; otherwise it stops at a seccomp event.
- `tracee_preinit` sets the mmap registers and continues after the first SIGTRAP.
- `PreinitDone` follows the second SIGTRAP.
- `ExecAssertFail` is either `assert!` failing.

`ExecRip` is the image's entry point as an offset from the gadget page, here 0x400000. With any address of a real image, the mmap is trapped, so `PreinitDone` is unreachable. That is why this module has no pass run.

## SeccompHandler.tla and the refinement

`SeccompHandler` is what the tracer promises about one task's stops:
- a seccomp stop is handled by a number of injected syscalls, each a single step, and then continued;
- an injection may instead end the tracer;
- signal and vfork-done stops are resumed;
- before all this, start-up (`Starting`) ends in `Running` or `Failed`.

It has weak fairness on every tracer step. `Injector` defines `Handler == INSTANCE SeccompHandler WITH tstate <- AbsState`, where `AbsState` maps:
- `InjRunning` and `InjStopped` to `Handling`;
- `SigStop` to `Signalled`;
- the start-up states to `Starting`, and `BootFailed` to `Failed`.

Only `InjectWait` changes `todo`, so it is the abstract `Inject`. The kernel's and `InjectStart`'s steps are stutters. The `signals` run checks `Handler!Spec` as a property. This shows that the handshake never loses an injection, whatever signals arrive: every one comes back, as SIGTRAP or SIGCHLD, or ends in the panic.

## ExitStatus.tla

This module follows the root tracee's end to reverie's own exit status:
1. the kernel's wait status (`c << 8` for `exit(c)`, the signal otherwise) is the PTRACE_EVENT_EXIT message;
2. `do_ptrace_event_exit` turns it into `Exited(retval)` or `Exited(0x80 | sig)`;
3. the scheduler returns the root's code (spec §4.J);
4. `main` calls `std::process::exit`, which keeps 8 bits. With namespaces, `run_app`'s parent collects `WEXITSTATUS` and exits again.

## Bounds

- **TracedTask**: two task ids and three sites.
  - s1 and s3 are in region r1, and s2 is in region r2.
  - s3 has no matching hook.

  With two tasks, every pair of relations between them arises:
  - parent and forked child;
  - vfork parent and child;
  - two threads.

  Each of them can exec or exit. Three sites reach every arm of `patch_syscall`. `fork_race` needs a third task: two threads, one of which forks.
- **PatchAt**: these bounds include every boundary:
  - site addresses 2000 (mid-page) and 4088 to 4095 (every offset at which a patch of 5 to 8 bytes crosses into the next page);
  - every prologue length of the catalog;
  - displacements at both ends of the rel32 range and around byte-carry boundaries (-2^31, -129, -1, 0, 255, 256, 2^31-1).
- **Injector**:
  - at most 2 signal arrivals;
  - at most 1 vfork-done, in the pass run and in `sigchld_lost`, which shows that the vfork-done resume does not deliver the saved SIGCHLD;
  - injection counts 0, 2 and 4, as in the code.
- **StubReach**:
  - the layout has a binary with heap at 4 MiB, a library at 768 MiB and a stack at 1008 MiB, more than one "2 GiB" apart, so each needs its own page;
  - there are five sites across these, and three program mmaps;
  - one mmap leaves only a 1 MiB gap between the library and the stack, so some orders reach the no-gap outcome.
- **ExecHandshake**: one exec, no signal (so that the seccomp case is the one shown), injections 0 and 2.
- **ExitStatus**: exit codes 0, 1 and 255, and signals 9 and 11 with and without a core dump.

## Fairness

`TracedTask` and `PatchAt` check only safety.

`Injector` assumes weak fairness of the tracer's actions and of the kernel's actions:
- the tracer loops on `waitpid` and handles every stop;
- the kernel runs a resumed task.

`SeccompHandler` has weak fairness of its tracer steps, which the refinement carries over.

`Injector` also assumes strong fairness of each signal stop. The kernel checks pending signals on every return to user mode, and a running task returns to user mode again after every seccomp stop.

`Boot` (the child running `run_tracee` to its `execvpe`) has weak fairness, because that code is reverie's own and the child is runnable.

The program (arrivals, traps, vforks) has no fairness: it need not do anything.

## Not modelled

- **A failing injected mmap in `tracee_preinit`**: `ExecHandshake` stops before it, at the seccomp trap.
- **The memfd, namespaces and a failing `seccomp()`** in start-up: these are I/O, and a kernel without seccomp filtering is not an environment the model enumerates.
- **Command-line parsing**: this is not modelled. Reading it shows that `main` tests `is_present("-no-host-envs")`, but the argument is named `no-host-envs`, so `--no-host-envs` has no effect.
- **consts.rs**: declarations, not used by the tracer in `src/src`.
- **Sibling threads during `patch_at`**: the page is PROT_WRITE without PROT_EXEC while other threads of the process may run code on it (remote.rs:235). `PatchAt` follows the stopped thread only, and spec §9 leaves sibling threads open.
- **The red zone**: the gadget's `call` writes 8 bytes below the tracee's `rsp`. The tracee's stack is not modelled.
- **An abstract "every trapped syscall runs exactly once" specification** for `TracedTask`. The code does not satisfy it (see `lost_syscall` and `mid_patch`), so it can only be stated as a violation.
- **CLI, logging, the `state_tracer` memfd, `auxv` and the FFI of the trampoline**: these are I/O or declarations with no state changes worth a model.
