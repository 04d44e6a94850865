------------------------------ MODULE MCPatchAt ------------------------------
(* patch_at at the end of a page (4096) and in the middle of one, for     *)
(* every prologue length of the hook catalog and displacements at the     *)
(* edges of each byte and of the signed 32-bit range.                     *)
EXTENDS PatchAt

CONSTANTS o, j

\* 4088..4095: windows of 5 to 8 bytes that end before, at, or after the
\* page boundary; 2000: a window well inside a page.
MCIPsAll == {2000} \cup 4088..4095
MCIPsInside == {2000, 4088}
MCRelas == {-2147483647 - 1, -129, -1, 0, 255, 256, 2147483647}
=============================================================================
