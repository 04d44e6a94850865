------------------------------- MODULE Stubs -------------------------------
(***************************************************************************)
(* The code the tracer writes into a tracee (spec 4.E), as byte sequences:  *)
(* the indirect-jump stubs of gen_extended_jump_stubs                      *)
(* (src/reverie/src/stubs.rs) and the syscall gadget page of               *)
(* gen_syscall_sequences_at (src/src/remote.rs), with reference decoders   *)
(* for the few x86-64 instructions they contain.  Addresses are naturals   *)
(* below 2^31; a qword's upper bytes are then zero.                        *)
(***************************************************************************)
EXTENDS Integers, Sequences, SequencesExt

(* x.wrapping_shr(8 * k) for x below 2^31.                                *)
RECURSIVE Shr8(_, _)
Shr8(x, k) == IF k = 0 THEN x ELSE Shr8(x \div 256, k - 1)

Zeros(n) == [i \in 1..n |-> 0]

(* jmp *0x0(%rip), the qword follows.                                     *)
X64_JUMP_ABS_PC_RELA == <<255, 37, 0, 0, 0, 0>>

(* Mutant: the address bytes pushed most significant first.                *)
gen_extended_jump_big_endian(jump_address) ==
  X64_JUMP_ABS_PC_RELA \o [i \in 1..8 |-> Shr8(jump_address, 8 - i) % 256]

(* The opcode, then (jump_address >> 8k) & 0xff for k = 0..7.             *)
gen_extended_jump(jump_address) ==
  X64_JUMP_ABS_PC_RELA \o [i \in 1..8 |-> Shr8(jump_address, i - 1) % 256]

extended_jump_size == 128
extended_jump_pages == 2

(* Mutant: the padding counted from the opcode alone.                      *)
gen_extended_jump_stubs_short_pad(offsets, addr) ==
  FlattenSeq([k \in 1..Len(offsets) |->
    LET stub == gen_extended_jump(offsets[k] + addr)
    IN stub \o Zeros(extended_jump_size - Len(X64_JUMP_ABS_PC_RELA))])

(* One stub per hook of the catalog, in catalog order, each padded with    *)
(* zeros to extended_jump_size; offsets[k] is the k-th hook's offset in   *)
(* the library.                                                            *)
gen_extended_jump_stubs(offsets, addr) ==
  FlattenSeq([k \in 1..Len(offsets) |->
    LET stub == gen_extended_jump(offsets[k] + addr)
    IN stub \o Zeros(extended_jump_size - Len(stub))])

(* Mutant: the hook's position counted from one.                           *)
extended_jump_offset_from_stub_page_one_based(k) == (k + 1) * extended_jump_size

(* hook_index gives the 0-based position k of the hook in the catalog.    *)
extended_jump_offset_from_stub_page(k) == k * extended_jump_size

-----------------------------------------------------------------------------
(* The gadget page.  syscall_stub is three u64 literals, each written here *)
(* as its four 16-bit limbs, least significant first.                      *)
SyscallStub ==
  << <<1295, 37059, 1295, 37059>>,    \* 0x90c3050f90c3050f
     <<62440, 65535, 52479, 36966>>,  \* 0x9066ccfffffff3e8
     <<61416, 65535, 52479, 36966>> >> \* 0x9066ccffffffefe8

(* Each word written with one PTRACE_POKEDATA at page + 8k: its bytes in   *)
(* little-endian order, from offset 0 of the page.                         *)
gen_syscall_sequences_at ==
  FlattenSeq([k \in 1..3 |->
    FlattenSeq([j \in 1..4 |->
      LET l == SyscallStub[k][j] IN <<l % 256, l \div 256>>])])

(* src/trampoline/ffi.rs: the syscall instructions _raw_syscall executes,   *)
(* as offsets in the gadget page at 0x7000_0000.                          *)
SYSCALL_UNTRACED == 0
SYSCALL_TRACED == 4

(* Mutant: untraced_syscall entering at the traced call.                  *)
UntracedEntry_traced == 16

(* untraced_syscall and traced_syscall: the rip remote_do_syscall_at sets. *)
UntracedEntry == 8
TracedEntry == 16

(* run_tracee installs a seccomp filter built by bpf_whitelist_ips from    *)
(* the ranges [(0x7000_0002, 0x7000_0002)], here as offsets in the gadget *)
(* page: a syscall is let through when the rip after it lies in a range,  *)
(* and stops the tracee with PTRACE_EVENT_SECCOMP otherwise.              *)
SeccompWhitelist == {<<2, 2>>}
SeccompAllows(ip) == \E w \in SeccompWhitelist : w[1] <= ip /\ ip <= w[2]

-----------------------------------------------------------------------------
(* Reference decoders.                                                     *)

(* A little-endian unsigned value of the bytes b.                         *)
LE(b) == FoldRight(LAMBDA x, acc : x + 256 * acc, b, 0)

(* A little-endian two's complement 32-bit value.                          *)
LE32(b) == IF b[4] < 128 THEN LE(b) ELSE LE(<<b[1], b[2], b[3], b[4] - 128>>) - 2147483647 - 1

(* The target of the instruction at offset o of bytes, if it is           *)
(* jmp *disp32(%rip): the qword at the end of the instruction plus disp32. *)
IndirectJumpTarget(bytes, o) ==
  LET q == o + 6 + LE32(SubSeq(bytes, o + 3, o + 6)) IN
  IF /\ o + 6 <= Len(bytes) /\ bytes[o + 1] = 255 /\ bytes[o + 2] = 37
     /\ q >= 0 /\ q + 8 <= Len(bytes)
     /\ \A i \in 5..8 : bytes[q + i] = 0
  THEN LE(SubSeq(bytes, q + 1, q + 4))
  ELSE -1

=============================================================================
