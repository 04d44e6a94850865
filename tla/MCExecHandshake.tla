--------------------------- MODULE MCExecHandshake ---------------------------
(* A task exec'ing a static image whose entry point is 0x400000, at the    *)
(* offset 0x400000 - 0x7000_0000 from the gadget page.                     *)
EXTENDS ExecHandshake

MCInjectCounts == {0, 2}
MCExecRip == 4194304 - 1879048192
=============================================================================
