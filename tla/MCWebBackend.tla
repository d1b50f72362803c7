----------------------------- MODULE MCWebBackend -----------------------------
(***************************************************************************)
(* A small instance of WebBackend for TLC.                                 *)
(***************************************************************************)
EXTENDS WebBackend, TLC

CONSTANTS v1, v2

Viewers == Permutations(Viewer)
=============================================================================
