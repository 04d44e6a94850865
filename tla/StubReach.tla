----------------------------- MODULE StubReach -----------------------------
(***************************************************************************)
(* Where the extended-jump stub pages go: the reuse test of               *)
(* extended_jump_from_to (src/src/traced_task.rs), search_stub_page       *)
(* (src/src/remote.rs) and the mmap of allocate_extended_jumps, with the  *)
(* displacement patch_at computes and asserts on.                         *)
(*                                                                         *)
(* Addresses are integers.  The u64 arithmetic of the code wraps modulo    *)
(* Word; TwoGB is the code's 2u64 << 30, which is also the i32 bound of    *)
(* patch_at's assertion (1i64 << 31).  The MC module gives these constants *)
(* values scaled down so that TLC's integers hold them; the byte-sized    *)
(* quantities (instruction lengths, slot size, page size) keep their      *)
(* values.                                                                 *)
(***************************************************************************)
EXTENDS Integers, Sequences, SequencesExt, TLC, Stubs

CONSTANTS
  Word,        \* 2^64: the modulus of u64 arithmetic
  TwoGB,       \* 2u64.wrapping_shl(30), and 1i64 << 31
  OneMB,       \* one_mb, 0x100000
  PageSize,    \* page_size, 0x1000
  TopLo,       \* the sentinel 0xffffffff_ffff_8000 that ends the last gap
  InitMaps,    \* /proc/pid/maps at the start: a set of <<base, end>>
  ProgramMaps, \* mappings the program may create later
  Sites,       \* [ip |-> syscall address, hook |-> index in trampoline_hooks]
  HookOffsets, \* the offsets of the trampoline_hooks in the library, in order
  Preload      \* task.ldpreload_address

ASSUME OneMB < TwoGB /\ TwoGB < Word /\ TopLo < Word

SYSCALL_INSN_SIZE == 2
jmp_insn_size == 5
NoGap == -1

(* u64 subtraction and addition as the release build computes them.       *)
U(x) == x % Word

(* decode_proc_maps lists the mappings in address order.                  *)
(* The i-th mapping is the one with i - 1 mappings below it.              *)
Sorted(ms) ==
  [i \in 1..Cardinality(ms) |->
     CHOOSE m \in ms : Cardinality({x \in ms : x[1] < m[1]}) = i - 1]

-----------------------------------------------------------------------------
(* Mutant: each mapping's end paired with the start of the mapping after  *)
(* the next one.                                                          *)
Gaps_skip(ms) ==
  LET froms == << <<OneMB - PageSize, OneMB>> >> \o Sorted(ms)
      tos   == Tail(Sorted(ms)) \o << <<TopLo, TopLo + 28672>>, <<TopLo, TopLo + 28672>> >>
  IN [i \in 1..Len(froms) |-> [y1 |-> froms[i][2], x2 |-> tos[i][1]]]

(* search_stub_page: pair the end of each mapping (after a sentinel       *)
(* ending at 1 MiB) with the start of the next (before a sentinel at the   *)
(* top) and take the first gap that is large enough and whose start is    *)
(* within reach of the hint.  allocate_extended_jumps passes the size in  *)
(* bytes as the page count.                                                *)
Gaps(ms) ==
  LET froms == << <<OneMB - PageSize, OneMB>> >> \o Sorted(ms)
      tos   == Sorted(ms) \o << <<TopLo, TopLo + 28672>> >>
  IN [i \in 1..Len(froms) |-> [y1 |-> froms[i][2], x2 |-> tos[i][1]]]

(* Mutant: the window below the hint without its lower bound.             *)
GapFits_no_lower(g, hint, pages) ==
  LET almost_2gb == TwoGB - OneMB
      need == pages * PageSize
  IN /\ U(g.x2 - g.y1) >= need
     /\ \/ g.y1 <= hint
        \/ g.y1 >= hint /\ g.y1 - hint <= almost_2gb - need

(* Mutant: the gap is not measured.                                       *)
GapFits_any_space(g, hint, pages) ==
  LET almost_2gb == TwoGB - OneMB
      need == pages * PageSize
  IN \/ g.y1 <= hint /\ U(g.y1 + almost_2gb) >= hint
     \/ g.y1 >= hint /\ g.y1 - hint <= almost_2gb - need

GapFits(g, hint, pages) ==
  LET almost_2gb == TwoGB - OneMB
      need == pages * PageSize
  IN /\ U(g.x2 - g.y1) >= need
     /\ \/ g.y1 <= hint /\ U(g.y1 + almost_2gb) >= hint
        \/ g.y1 >= hint /\ g.y1 - hint <= almost_2gb - need

search_stub_page(ms, addr_hint, pages) ==
  LET gaps == Gaps(ms)
      i == SelectInSeq(gaps, LAMBDA g : GapFits(g, addr_hint, pages))
  IN IF i = 0 THEN NoGap ELSE gaps[i].y1

-----------------------------------------------------------------------------
(* extended_jump_from_to: a recorded stub page is reused when it lies      *)
(* entirely below rip within 2 GiB of its start, or entirely above with    *)
(* its end within 2 GiB.                                                   *)
Reusable(start, rip) ==
  LET end == start + extended_jump_pages * PageSize IN
  IF end <= rip THEN U(rip - start) <= TwoGB
  ELSE IF start >= rip THEN U(start + extended_jump_pages * PageSize - rip) <= TwoGB
  ELSE FALSE

(* patch_at: rela = target - ip - 5 with ip = rip - 2, asserted to fit i32. *)
Rela(target, rip) == target - (rip - SYSCALL_INSN_SIZE) - jmp_insn_size
FitsI32(r) == -TwoGB <= r /\ r < TwoGB

(* extended_jump_from_to: the extended jump of hook k in the page at p.   *)
Slot(p, k) == p + extended_jump_offset_from_stub_page(k)

Overlaps(a, b) == a[1] < b[2] /\ b[1] < a[2]

(* MAP_FIXED replaces whatever was mapped in the range.                   *)
MapFixed(ms, r) ==
  LET Pieces(m) == {<<m[1], IF m[2] < r[1] THEN m[2] ELSE r[1]>>,
                    <<IF m[1] > r[2] THEN m[1] ELSE r[2], m[2]>>}
      cut == UNION {IF Overlaps(m, r) THEN Pieces(m) ELSE {m} : m \in ms}
  IN {m \in cut : m[1] < m[2]} \cup {r}

-----------------------------------------------------------------------------
VARIABLES
  maps,        \* the tracee's mappings
  stub_pages,  \* task.stub_pages: page addresses in the order pushed
  patched,     \* sites patched, each mapped to the rel32 of its call
  stubcode,    \* the bytes poked into each stub page
  allocs,      \* ghost: <<page, rip>> for each page allocated
  clobbered,   \* ghost: a MAP_FIXED mmap replaced an existing mapping
  panicked     \* patch_at's rela assertion failed

vars == <<maps, stub_pages, patched, stubcode, allocs, clobbered, panicked>>

Init ==
  /\ maps = InitMaps
  /\ stub_pages = << >>
  /\ patched = <<>>
  /\ stubcode = <<>>
  /\ allocs = << >>
  /\ clobbered = FALSE
  /\ panicked = FALSE

(* The rest of patch_syscall once the page is known: patch_at asserts the *)
(* displacement fits and writes the call, then the site is pushed to      *)
(* patched_syscalls.                                                      *)
PatchInto(s, page) ==
  LET rela == Rela(Slot(page, s.hook), s.ip + SYSCALL_INSN_SIZE)
      ok == FitsI32(rela)
  IN /\ panicked' = ~ok
     /\ patched' = IF ok THEN patched @@ (s :> rela) ELSE patched

(* extended_jump_from_to for the site s: the first reusable page, or      *)
(* allocate_extended_jumps (search, mmap MAP_FIXED, push the page, poke   *)
(* the stubs generated for ldpreload_address into it).  When              *)
(* the search finds nothing, the error changes none of this state.        *)
extended_jump_from_to(s) ==
  LET rip == s.ip + SYSCALL_INSN_SIZE
      size == extended_jump_pages * PageSize
      i == SelectInSeq(stub_pages, LAMBDA p : Reusable(p, rip))
      at == search_stub_page(maps, rip, size)
  IN /\ s \notin DOMAIN patched /\ ~panicked
     /\ IF i # 0
          THEN /\ PatchInto(s, stub_pages[i])
               /\ UNCHANGED <<maps, stub_pages, stubcode, allocs, clobbered>>
          ELSE /\ at # NoGap
               /\ clobbered' = (clobbered \/ \E m \in maps : Overlaps(m, <<at, at + size>>))
               /\ maps' = MapFixed(maps, <<at, at + size>>)
               /\ stub_pages' = Append(stub_pages, at)
               /\ stubcode' = stubcode @@ (at :> gen_extended_jump_stubs(HookOffsets, Preload))
               /\ allocs' = Append(allocs, <<at, rip>>)
               /\ PatchInto(s, at)

(* The program maps memory where the kernel finds room.                   *)
ProgramMmap(r) ==
  /\ ~panicked
  /\ \A m \in maps : ~Overlaps(m, r)
  /\ maps' = maps \cup {r}
  /\ UNCHANGED <<stub_pages, patched, stubcode, allocs, clobbered, panicked>>

Next ==
  \/ \E s \in Sites : extended_jump_from_to(s)
  \/ \E r \in ProgramMaps : ProgramMmap(r)

Spec == Init /\ [][Next]_vars

-----------------------------------------------------------------------------
Slots == 0..((extended_jump_pages * PageSize) \div extended_jump_size - 1)

TypeOK ==
  /\ maps \subseteq (0..Word) \X (0..Word)
  /\ stub_pages \in Seq(0..Word)
  /\ DOMAIN patched \subseteq Sites
  /\ \A p \in DOMAIN stubcode : p \in 0..Word /\ stubcode[p] \in Seq(0..255)
  /\ allocs \in Seq((0..Word) \X (0..Word))
  /\ clobbered \in BOOLEAN /\ panicked \in BOOLEAN

(* The page allocate_extended_jumps maps with MAP_FIXED at the address    *)
(* search_stub_page returned never replaces memory the tracee had mapped. *)
StubSpaceFree == ~clobbered

(* Spec 3 (gap search) and 4.G step 3: every slot of a page allocated for *)
(* a site is reachable from that site: the displacement patch_at computes *)
(* for it passes patch_at's assertion.                                    *)
AllocatedSlotsReach ==
  \A i \in 1..Len(allocs) : \A k \in Slots :
    FitsI32(Rela(Slot(allocs[i][1], k), allocs[i][2]))

(* Spec 6.5, round trip: the call written at a patched site lands on a    *)
(* stub page, at an indirect jump whose target is the library's address   *)
(* plus the offset of the hook find_syscall_hook chose.  The slot          *)
(* patch_syscall computes (hook_index) and the order gen_extended_jump_stubs *)
(* lays the stubs out in must agree, and the stubs must be poked into the  *)
(* page that is reused.                                                   *)
PatchedCallReachesHook ==
  \A s \in DOMAIN patched :
    LET t == s.ip + jmp_insn_size + patched[s] IN
    \E p \in DOMAIN stubcode :
      /\ p <= t /\ t < p + extended_jump_pages * PageSize
      /\ IndirectJumpTarget(stubcode[p], t - p) = Preload + HookOffsets[s.hook + 1]

=============================================================================
