---------------------------- MODULE MCTracedTask ----------------------------
(***************************************************************************)
(* Model-checking instance of TracedTask: three tasks, three syscall     *)
(* sites of which two match a hook, in two stub regions.  s3 shares r1   *)
(* with s1, so a stub page allocated for one site is reused by the other. *)
(***************************************************************************)
EXTENDS TracedTask, TLC

CONSTANTS t1, t2, t3, s1, s2, s3, r1, r2

MCTids == {t1, t2, t3}
MCTids2 == {t1, t2}
MCSites == {s1, s2, s3}
MCHooked == {s1, s2}
MCRegions == {r1, r2}
MCRegionOf == (s1 :> r1) @@ (s2 :> r2) @@ (s3 :> r1)
=============================================================================
