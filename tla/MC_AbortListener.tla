--------------------------- MODULE MC_AbortListener ---------------------------
(* Three addAbortListener calls on one signal: enough for two listeners    *)
(* added on each side of abort(), one of them disposed.                    *)
EXTENDS AbortListener

CONSTANTS r1, r2, r3

MCRegs == {r1, r2, r3}
=============================================================================
