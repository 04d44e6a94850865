---------------------------- MODULE MCStubReach ----------------------------
(* A 30-bit address space with a 2^28 "2 GiB" and a 2^17 "1 MiB" (the    *)
(* code's ratio of 2048 between them); pages, slots and instruction       *)
(* lengths keep their real sizes.                                         *)
EXTENDS StubReach

MCWord == 2^30
MCTwoGB == 2^28
MCOneMB == 2^17
MCTopLo == 2^30 - 32768

(* A binary at 4 MiB with its data, a library and a stack high up.       *)
MCMaps ==
  { <<4194304, 5242880>>,       \* text 0x400000
    <<5242880, 6291456>>,       \* data and heap 0x500000
    <<805306368, 806354944>>,   \* library 0x30000000
    <<1056964608, 1058013184>> } \* stack 0x3f000000

(* Two sites in the binary, two in the library and one on the stack (a    *)
(* JIT), with different hooks.                                            *)
MCSites ==
  { [ip |-> 4194560, hook |-> 0],   \* 0x400100
    [ip |-> 5238784, hook |-> 9],   \* 0x4ff000
    [ip |-> 805306624, hook |-> 4], \* 0x30000100
    [ip |-> 806350848, hook |-> 0],  \* 0x300ff000
    [ip |-> 1056964864, hook |-> 1] } \* 0x3f000100

(* The ten hooks of src/trampoline/ffi.rs at offsets of a library loaded  *)
(* at 0x3a000000 (Preload is the page of its trampoline).                 *)
MCHookOffsets == <<4096, 4160, 4224, 4288, 4352, 4416, 4480, 4544, 4608, 70000>>
MCPreload == 973078528

(* The program maps 32 MiB after its heap, 16 MiB below the library, and *)
(* most of the space between the library and the stack, leaving 1 MiB.   *)
MCProgramMaps ==
  { <<6291456, 39845888>>, <<788529152, 805306368>>,
    <<807403520, 1056964608>> }

=============================================================================
