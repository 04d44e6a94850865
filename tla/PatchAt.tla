------------------------------- MODULE PatchAt -------------------------------
(***************************************************************************)
(* patch_at (src/src/remote.rs) at byte level, with the poke_bytes it uses  *)
(* (src/src/traced_task.rs) and a sibling thread of the tracee that keeps   *)
(* running while the tracer works.                                        *)
(*                                                                         *)
(* The tracee is stopped at a seccomp trap: rip is just past the 2-byte    *)
(* syscall at ip, skip_seccomp_syscall has left rax = -ENOSYS.  patch_at   *)
(* builds "call rel32" followed by NOP padding, as long as the syscall and *)
(* the hook's prologue together, makes the page writable, writes, makes it *)
(* R|X again and rewinds rip and rax.  Addresses are real numbers near a    *)
(* page boundary; bytes outside the patch are the model value Orig, or    *)
(* Junk when the tracer wrote bytes it never read from the tracee.        *)
(***************************************************************************)
EXTENDS Integers, Sequences

CONSTANTS
  IPs,           \* addresses of the syscall instruction (resume_from)
  PrologueLens,  \* hook.instructions.len() of the hooks in the catalog
  Relas,         \* call displacements target - ip - 5
  Orig,          \* model value: a byte of the original program
  Junk           \* model value: a byte the tracer did not mean to write

PageSize == 4096
SYSCALL_INSN_SIZE == 2
jmp_insn_size == 5

ASSUME IPs \subseteq Nat
\* The hooks of src/trampoline/ffi.rs have prologues of 3 to 6 bytes, so
\* every patch is at most 8 bytes and poke_bytes takes its ptrace branch.
ASSUME PrologueLens \subseteq 3..6
ASSUME Relas \subseteq (-2147483647 - 1)..2147483647

Addrs == UNION {ip..(ip + 8) : ip \in IPs}
Pages == {a \div PageSize : a \in Addrs}
Steps == {"start", "poke", "restore", "rewind", "returned"}

VARIABLES
  ip, plen, rela,  \* the inputs of this call of patch_at
  step,            \* the next remote operation patch_at performs
  prot,            \* protection of each page: "RX" or "W" (PROT_WRITE)
  mem,             \* the tracee's bytes
  rip,             \* the stopped thread's rip
  raxIsNr          \* rax holds the syscall number again (else -ENOSYS)

vars == <<ip, plen, rela, step, prot, mem, rip, raxIsNr>>

-----------------------------------------------------------------------------
(* The bytes patch_at builds.                                             *)

(* Mutant: the bytes pushed most significant first.                       *)
Rel32Bytes_big_endian(r) ==
  <<(r \div 16777216) % 256, (r \div 65536) % 256, (r \div 256) % 256, r % 256>>

(* rela & 0xff and rela.wrapping_shr(k) & 0xff: two's complement bytes,   *)
(* least significant first.                                               *)
Rel32Bytes(r) ==
  <<r % 256, (r \div 256) % 256, (r \div 65536) % 256, (r \div 16777216) % 256>>

PaddingSize(n) == SYSCALL_INSN_SIZE + n - jmp_insn_size

(* Mutant: the 3-byte NOP written with the ModRM byte of the 4-byte one.   *)
Nop_modrm_disp8(p) ==
  CASE p = 0 -> << >>
    [] p = 1 -> <<144>>
    [] p = 2 -> <<102, 144>>
    [] p = 3 -> <<15, 31, 64>>
    [] p = 4 -> <<15, 31, 64, 0>>
    [] p = 5 -> <<15, 31, 68, 0, 0>>
    [] p = 6 -> <<102, 15, 31, 68, 0, 0>>
    [] p = 7 -> <<15, 31, 128, 0, 0, 0, 0>>
    [] p = 8 -> <<15, 31, 132, 0, 0, 0, 0, 0>>
    [] p = 9 -> <<102, 15, 31, 132, 0, 0, 0, 0, 0>>

(* The long-NOP encodings of the match on padding_size.                   *)
Nop(p) ==
  CASE p = 0 -> << >>
    [] p = 1 -> <<144>>
    [] p = 2 -> <<102, 144>>
    [] p = 3 -> <<15, 31, 0>>
    [] p = 4 -> <<15, 31, 64, 0>>
    [] p = 5 -> <<15, 31, 68, 0, 0>>
    [] p = 6 -> <<102, 15, 31, 68, 0, 0>>
    [] p = 7 -> <<15, 31, 128, 0, 0, 0, 0>>
    [] p = 8 -> <<15, 31, 132, 0, 0, 0, 0, 0>>
    [] p = 9 -> <<102, 15, 31, 132, 0, 0, 0, 0, 0>>

PatchBytes(r, n) == <<232>> \o Rel32Bytes(r) \o Nop(PaddingSize(n))

(* size: 0x2000 if ((ip + len) & !0xfff) < len, else 0x1000.              *)
PatchSpan(a, len) ==
  IF (a + len) - ((a + len) % PageSize) < len THEN 2 * PageSize ELSE PageSize

(* The pages mprotect(ip & !0xfff, size, ..) applies to.                  *)
SpanPages(a, len) ==
  LET page == a - (a % PageSize) IN
  {p \in Pages : page <= p * PageSize /\ p * PageSize < page + PatchSpan(a, len)}

SetProt(a, len, pr) ==
  [p \in Pages |-> IF p \in SpanPages(a, len) THEN pr ELSE prot[p]]

-----------------------------------------------------------------------------
(* The call begins with the assert on rela; the tracee has trapped.       *)
Init ==
  /\ ip \in IPs /\ plen \in PrologueLens /\ rela \in Relas
  /\ step = "start"
  /\ prot = [p \in Pages |-> "RX"]
  /\ mem = [a \in Addrs |-> Orig]
  /\ rip = ip + SYSCALL_INSN_SIZE
  /\ raxIsNr = FALSE

(* untraced_syscall(SYS_mprotect, page, size, PROT_WRITE).               *)
ProtectWrite ==
  /\ step = "start"
  /\ prot' = SetProt(ip, Len(PatchBytes(rela, plen)), "W")
  /\ step' = "poke"
  /\ UNCHANGED <<ip, plen, rela, mem, rip, raxIsNr>>

(* poke_bytes, size <= 8: PTRACE_PEEKDATA the word at ip, then             *)
(* copy_nonoverlapping::<u64>(bytes, &u64_val, size), which copies size   *)
(* words, not bytes: the whole of u64_val comes from the patch buffer,    *)
(* whose bytes past its length are uninitialised; then PTRACE_POKEDATA,   *)
(* which writes regardless of the page protection.                        *)
poke_bytes(bytes) ==
  /\ \E stale \in BOOLEAN :
       mem' = [a \in Addrs |->
                IF a \in ip..(ip + Len(bytes) - 1) THEN bytes[a - ip + 1]
                ELSE IF a \in (ip + Len(bytes))..(ip + 7)
                       THEN (IF stale THEN Junk ELSE Orig)
                ELSE mem[a]]

Poke ==
  /\ step = "poke"
  /\ poke_bytes(PatchBytes(rela, plen))
  /\ step' = "restore"
  /\ UNCHANGED <<ip, plen, rela, prot, rip, raxIsNr>>

(* untraced_syscall(SYS_mprotect, page, size, PROT_READ | PROT_EXEC).     *)
RestoreExec ==
  /\ step = "restore"
  /\ prot' = SetProt(ip, Len(PatchBytes(rela, plen)), "RX")
  /\ step' = "rewind"
  /\ UNCHANGED <<ip, plen, rela, mem, rip, raxIsNr>>

(* new_regs.rax = orig_rax, new_regs.rip = ip, setregs, then the 1ms sleep *)
(* of synchronize_from.                                                    *)
Rewind ==
  /\ step = "rewind"
  /\ rip' = ip
  /\ raxIsNr' = TRUE
  /\ step' = "returned"
  /\ UNCHANGED <<ip, plen, rela, prot, mem>>

Returned ==
  /\ step = "returned"
  /\ UNCHANGED vars

Next ==
  \/ ProtectWrite \/ Poke \/ RestoreExec \/ Rewind
  \/ Returned

Spec == Init /\ [][Next]_vars

-----------------------------------------------------------------------------
(* Reference decoding of what the CPU executes at the rewound rip.        *)

Bytes(a, k) == [i \in 1..k |-> mem[a + i - 1]]

(* A little-endian two's complement 32-bit displacement.                  *)
DecodeRel32(b) ==
  LET lo == b[1] + 256 * b[2] + 65536 * b[3] IN
  IF b[4] < 128 THEN b[4] * 16777216 + lo
  ELSE ((b[4] - 128) * 16777216 + lo) - 2147483647 - 1

(* Length of the x86-64 NOP instruction at a (0x90, or 0f 1f /0 with its   *)
(* ModRM, SIB and displacement, each optionally after a 66 prefix), or 0  *)
(* if the bytes there are no NOP.                                         *)
RECURSIVE NopLen(_)
NopLen(a) ==
  IF a \notin Addrs THEN 0
  ELSE IF mem[a] = 144 THEN 1
  ELSE IF mem[a] = 102 THEN (IF NopLen(a + 1) = 0 THEN 0 ELSE 1 + NopLen(a + 1))
  ELSE IF a + 2 \in Addrs /\ mem[a] = 15 /\ mem[a + 1] = 31
          /\ mem[a + 2] \in 0..255 THEN
    LET modrm == mem[a + 2]
        md == modrm \div 64
        rm == modrm % 8
        sib == IF md # 3 /\ rm = 4 THEN 1 ELSE 0
        disp == CASE md = 1 -> 1 [] md = 2 -> 4
                  [] md = 0 /\ rm = 5 -> 4 [] OTHER -> 0
    IN 3 + sib + disp
  ELSE 0

(* The bytes from a up to e are a run of whole NOP instructions.          *)
RECURSIVE NopRun(_, _)
NopRun(a, e) ==
  \/ a = e
  \/ /\ a < e
     /\ NopLen(a) > 0
     /\ NopRun(a + NopLen(a), e)

-----------------------------------------------------------------------------
TypeOK ==
  /\ ip \in IPs /\ plen \in PrologueLens /\ rela \in Relas
  /\ step \in Steps
  /\ prot \in [Pages -> {"RX", "W"}]
  /\ mem \in [Addrs -> 0..255 \cup {Orig, Junk}]
  /\ rip \in {ip, ip + SYSCALL_INSN_SIZE}
  /\ raxIsNr \in BOOLEAN

(* When patch_at returns, the thread is rewound to ip, where the CPU       *)
(* decodes a call whose displacement is the rela patch_at computed (the   *)
(* byte split of Rel32Bytes against a two's complement decoder).          *)
CallDecodes ==
  step = "returned" =>
    /\ rip = ip /\ raxIsNr
    /\ mem[ip] = 232
    /\ DecodeRel32(Bytes(ip + 1, 4)) = rela

(* The hook returns to ip + 5; the padding of the NOP table must decode as *)
(* whole NOP instructions ending exactly where the patched window ends,   *)
(* so the program resumes on an instruction boundary.                     *)
PaddingEndsAtWindow ==
  step = "returned" => NopRun(ip + jmp_insn_size, ip + SYSCALL_INSN_SIZE + plen)

(* poke_bytes changes exactly the bytes it is given: the instructions      *)
(* after the patched window are the program's own.                        *)
TrailIntact ==
  step = "returned" =>
    \A a \in (ip + SYSCALL_INSN_SIZE + plen)..(ip + 8) : mem[a] = Orig
=============================================================================
