----------------------------- MODULE MCInjector -----------------------------
(* One traced task whose seccomp stops inject no syscall (early return),  *)
(* two (patch_at's mprotects) or four (allocate_extended_jumps first).     *)
EXTENDS Injector

MCInjectCounts == {0, 2, 4}
=============================================================================
