--------------------------- MODULE MCNodeHandlers ---------------------------
(***************************************************************************)
(* Small instances of NodeHandlers for TLC.                                *)
(***************************************************************************)
EXTENDS NodeHandlers, TLC

CONSTANTS r1, r2, r3

Calls == Permutations(Call)
=============================================================================
